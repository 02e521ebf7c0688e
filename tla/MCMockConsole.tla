---------------------------- MODULE MCMockConsole ----------------------------
(* The mock on the grid of SmallGrid, with its own geometry.               *)
EXTENDS MockConsole, SmallGrid

Geometry == INSTANCE MockGeometry WITH Width <- 3, Height <- 2

MockSightFunction ==
  [c \in MCCell, r \in MCCell, mountains \in SUBSET MCMountainCells |->
     Geometry!HasLineOfSight(c, r, mountains)]
MockSightTable == Explicit(MockSightFunction)
MCMockSees(c, r, mountains) == MockSightTable[c, r, mountains]

MockRouteFunction ==
  [a \in MCGrid, b \in MCGrid, mountains \in SUBSET MCMountainCells |->
     Geometry!FindPath(a, b, mountains)]
MockRouteTable == Explicit(MockRouteFunction)
MCPathBetween(a, b, mountains) == MockRouteTable[a, b, mountains]

MCSeedMountains == <<<<0, 1>>>>
MCSeedFires == <<<<1, 0>>>>
MCSeedResponders == <<<<2, 1>>>>

(* The mock's geometry mirrors the server's, as its comments promise: the  *)
(* same cells are in sight and its route is one of the shortest.           *)
MirrorsServer ==
  /\ \A c \in MCCell : Sees(world.control, c, world.mountains)
                         = MCSees(world.control, c, world.mountains)
  /\ \A a \in MCGrid, b \in MCGrid :
       LET path == PathBetween(a, b, world.mountains)
           shortest == MCRoutes(a, b, world.mountains)
       IN  IF path = NoPath THEN shortest = {} ELSE path \in shortest
=============================================================================
