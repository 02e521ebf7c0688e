---------------------------- MODULE SmallGrid ------------------------------
(* The geometry of the small instances: a 3 by 2 grid with mission control *)
(* at its spawn (-2, 1) or moved to (2, -1), the real sight lines and      *)
(* every shortest path.  A mountain at (0, 1) hides (2, 1) and (1, 1) from *)
(* the spawn but not the fire at (1, 0): a responder sent there from       *)
(* (2, 1) goes dark on its way and comes back in sight.                    *)
EXTENDS Integers, Sequences, FiniteSets

Sight == INSTANCE LineOfSight WITH
  Froms <- {}, Tos <- {}, from <- <<0, 0>>, to <- <<0, 0>>,
  pen <- [x |-> 0, y |-> 0, error |-> 0], cells <- << >>, done <- FALSE

MCGrid == (0 .. 2) \X (0 .. 1)
MCSpawn == <<-2, 1>>
MCControl == {<<2, -1>>}
MCCell == MCGrid \union MCControl \union {MCSpawn}
MCFireCells == {<<1, 0>>}
MCMountainCells == {<<0, 1>>, <<1, 0>>}
MCResponderCells == {<<2, 1>>, <<1, 0>>}
MCIntensity == {7}

(* Geometry is tabulated once, for the mountains of this instance; the     *)
(* comparison makes TLC compute the function and keep it.                  *)
SightFunction ==
  [c \in MCCell, r \in MCCell, mountains \in SUBSET MCMountainCells |->
     Sight!HasLineOfSight(c, r, mountains)]
Explicit(f) == CHOOSE g \in {f, << >>} : g # << >>
SightTable == Explicit(SightFunction)
MCSees(c, r, mountains) == SightTable[c, r, mountains \intersect MCMountainCells]

Adjacent(a, b) == Sight!Dist(a[1], b[1]) + Sight!Dist(a[2], b[2]) = 1

(* Every shortest walk between two cells, as Pathfinding finds one of them. *)
Walks(a, b, free) ==
  LET walks[k \in 0 .. Cardinality(MCGrid)] ==
        IF k = 0 THEN {<<a>>}
        ELSE UNION {{Append(w, c) : c \in {d \in free : Adjacent(w[k], d)}} : w \in walks[k - 1]}
      arriving == {k \in DOMAIN walks : \E w \in walks[k] : w[k + 1] = b}
      least == CHOOSE k \in arriving : \A j \in arriving : k <= j
  IN  IF arriving = {} THEN {} ELSE {w \in walks[least] : w[least + 1] = b}
RouteFunction ==
  [a \in MCCell, b \in MCCell, mountains \in SUBSET MCMountainCells |->
     Walks(a, b, MCGrid \ mountains)]
RouteTable == Explicit(RouteFunction)
MCRoutes(a, b, mountains) == RouteTable[a, b, mountains \intersect MCMountainCells]
=============================================================================
