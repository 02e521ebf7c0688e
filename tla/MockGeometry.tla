---------------------------- MODULE MockGeometry ----------------------------
(***************************************************************************)
(* lib/mock/lineOfSight.ts and lib/mock/pathfinding.ts: the mock's own     *)
(* line of sight and A*, as functions of their arguments.  A cell is       *)
(* <<x, y>>.  Each loop is a function of the number of iterations.         *)
(***************************************************************************)
EXTENDS Integers, Sequences, FiniteSets, SequencesExt

CONSTANTS Width, Height

InGrid == (0 .. Width - 1) \X (0 .. Height - 1)

Abs(n) == IF n < 0 THEN -n ELSE n

(* Fault: the two steps of an iteration share the error they change. *)
PenStepReread(pen, dx, dy, sx, sy) ==
  LET right == 2 * pen.err > -dy
      err == IF right THEN pen.err - dy ELSE pen.err
      down == 2 * err < dx
  IN  [at |-> <<pen.at[1] + (IF right THEN sx ELSE 0), pen.at[2] + (IF down THEN sy ELSE 0)>>,
       err |-> err + (IF down THEN dx ELSE 0)]

PenStep(pen, dx, dy, sx, sy) ==
  LET right == 2 * pen.err > -dy
      down == 2 * pen.err < dx
  IN  [at |-> <<pen.at[1] + (IF right THEN sx ELSE 0), pen.at[2] + (IF down THEN sy ELSE 0)>>,
       err |-> pen.err - (IF right THEN dy ELSE 0) + (IF down THEN dx ELSE 0)]

(* The loop gives up after dx + dy + 3 cells. *)
CellsOnLine(a, b) ==
  LET dx == Abs(b[1] - a[1])
      dy == Abs(b[2] - a[2])
      sx == IF a[1] < b[1] THEN 1 ELSE -1
      sy == IF a[2] < b[2] THEN 1 ELSE -1
      pen[n \in 0 .. dx + dy + 2] ==
        IF n = 0 THEN [at |-> a, err |-> dx - dy]
        ELSE LET last == pen[n - 1]
             IN  IF last.at = b THEN last ELSE PenStep(last, dx, dy, sx, sy)
  IN  {pen[n].at : n \in 0 .. dx + dy + 2}

HasLineOfSight(control, responder, mountains) ==
  (CellsOnLine(control, responder) \ {control, responder}) \intersect InGrid \intersect mountains = {}

(* The four neighbours, in the order they are tried. *)
NeighborsOf(c) == <<<<c[1] + 1, c[2]>>, <<c[1] - 1, c[2]>>, <<c[1], c[2] + 1>>, <<c[1], c[2] - 1>>>>

(* The sort is stable: of the entries with the least f, the oldest is first. *)
First(entries) ==
  CHOOSE i \in DOMAIN entries :
    \A j \in DOMAIN entries : \/ entries[i].f < entries[j].f
                              \/ entries[i].f = entries[j].f /\ i <= j

(* A neighbour that is better reached from the current cell. *)
Relax(s, current, n, target, blocked) ==
  LET tentative == s.g[current] + 1
      estimate == tentative + Abs(n[1] - target[1]) + Abs(n[2] - target[2])
  IN  IF n \notin InGrid \/ n \in blocked \/ (n \in DOMAIN s.g /\ s.g[n] <= tentative) THEN s
      ELSE [s EXCEPT !.from = [c \in DOMAIN @ \union {n} |-> IF c = n THEN current ELSE @[c]],
                     !.g = [c \in DOMAIN @ \union {n} |-> IF c = n THEN tentative ELSE @[c]],
                     !.open = Append(@, [p |-> n, f |-> estimate])]

SearchStep(s, target, blocked) ==
  LET i == First(s.open)
      current == s.open[i].p
      popped == [s EXCEPT !.open = RemoveAt(@, i)]
      relaxed[k \in 0 .. 4] ==
        IF k = 0 THEN popped
        ELSE Relax(relaxed[k - 1], current, NeighborsOf(current)[k], target, blocked)
  IN  IF current = target THEN [popped EXCEPT !.found = TRUE] ELSE relaxed[4]

(* reconstruct *)
Reconstruct(s, end) ==
  LET back[c \in DOMAIN s.g] ==
        IF c \in DOMAIN s.from THEN Append(back[s.from[c]], c) ELSE <<c>>
  IN  back[end]

(* No path is << >>.  No cell is pushed more than once for each of its     *)
(* neighbours, so the loop has ended after that many iterations.           *)
FindPath(start, target, blocked) ==
  LET last == 4 * Cardinality(InGrid) + 1
      search[n \in 0 .. last] ==
        IF n = 0 THEN [open |-> <<[p |-> start, f |-> 0]>>, from |-> << >>,
                       g |-> [c \in {start} |-> 0], found |-> FALSE]
        ELSE LET s == search[n - 1]
             IN  IF s.found \/ s.open = << >> THEN s ELSE SearchStep(s, target, blocked)
  IN  IF start = target THEN <<start>>
      ELSE IF target \in blocked THEN << >>
      ELSE LET s == search[last] IN IF s.found THEN Reconstruct(s, target) ELSE << >>
=============================================================================
