----------------------------- MODULE Pathfinding -----------------------------
(***************************************************************************)
(* services/pathfinding.py: A* on a four-connected grid, one action for    *)
(* each way an iteration of its loop can go.  The heap is a set of         *)
(* <<estimate, cell>>: a cell is pushed again only with a smaller estimate,*)
(* so no entry occurs twice, and the smallest is found as heapq orders     *)
(* tuples.                                                                 *)
(***************************************************************************)
EXTENDS Integers, Sequences, FiniteSets

CONSTANTS Width, Height,     \* the grid
          Starts, Goals,     \* arguments to search with
          Walls              \* sets of blocked cells to search with

ASSUME GridAssumption == Width \in Nat \ {0} /\ Height \in Nat \ {0}
ASSUME CellsAssumption == Starts \subseteq Int \X Int /\ Goals \subseteq Int \X Int

VARIABLES start, goal, blocked,   \* the arguments
          frontier, came_from, cost_from_start,
          returned, result        \* whether find_path has returned, and what

vars == <<start, goal, blocked, frontier, came_from, cost_from_start,
          returned, result>>
args == <<start, goal, blocked>>
trees == <<came_from, cost_from_start>>

Grid == (0 .. Width - 1) \X (0 .. Height - 1)
NoPath == << >>           \* None

Distance(a, b) == IF a < b THEN b - a ELSE a - b
Manhattan(c, d) == Distance(c[1], d[1]) + Distance(c[2], d[2])

(* _walkable_neighbors *)
Neighbors(c) ==
  {<<c[1] + 1, c[2]>>, <<c[1] - 1, c[2]>>, <<c[1], c[2] + 1>>, <<c[1], c[2] - 1>>}
    \intersect (Grid \ blocked)

(* _rebuild_path: the came_from links from c back to the start, reversed. *)
RebuildPath(c) ==
  LET back[d \in DOMAIN cost_from_start] ==
        IF d \in DOMAIN came_from THEN Append(back[came_from[d]], d) ELSE <<d>>
  IN  back[c]

(* Fault: entries are ordered by cell before their estimate. *)
BeforeByCell(p, q) ==
  \/ p[2][1] < q[2][1]
  \/ p[2][1] = q[2][1] /\ p[2][2] < q[2][2]
  \/ p[2] = q[2] /\ p[1] <= q[1]

(* The order of heap entries: the estimate, then x, then y. *)
Before(p, q) ==
  \/ p[1] < q[1]
  \/ p[1] = q[1] /\ p[2][1] < q[2][1]
  \/ p[1] = q[1] /\ p[2][1] = q[2][1] /\ p[2][2] <= q[2][2]
Least == CHOOSE p \in frontier : \A q \in frontier : Before(p, q)
-----------------------------------------------------------------------------
Init ==
  /\ start \in Starts /\ goal \in Goals /\ blocked \in Walls
  /\ frontier = {<<0, start>>}
  /\ came_from = << >>
  /\ cost_from_start = [c \in {start} |-> 0]
  /\ returned = FALSE /\ result = NoPath

(* The early return, before the search. *)
AlreadyThere ==
  /\ ~returned /\ start = goal
  /\ returned' = TRUE /\ result' = <<start>>
  /\ UNCHANGED <<args, frontier, trees>>

(* The popped cell is the goal. *)
Found ==
  /\ ~returned /\ start # goal /\ frontier # {}
  /\ Least[2] = goal
  /\ frontier' = frontier \ {Least}
  /\ returned' = TRUE /\ result' = RebuildPath(goal)
  /\ UNCHANGED <<args, trees>>

(* Fault: the smallest entry is read but not popped. *)
ExpandPeeks ==
  /\ ~returned /\ start # goal /\ frontier # {}
  /\ Least[2] # goal
  /\ LET current == Least[2]
         tentative == cost_from_start[current] + 1
         new == Neighbors(current) \ DOMAIN cost_from_start
     IN  /\ came_from' = [n \in DOMAIN came_from \union new |->
                            IF n \in new THEN current ELSE came_from[n]]
         /\ cost_from_start' = [n \in DOMAIN cost_from_start \union new |->
                                  IF n \in new THEN tentative ELSE cost_from_start[n]]
         /\ frontier' = frontier \union {<<tentative + Manhattan(n, goal), n>> : n \in new}
  /\ UNCHANGED <<args, returned, result>>

(* The popped cell is another: every neighbour it improves is linked to it *)
(* and pushed.                                                             *)
Expand ==
  /\ ~returned /\ start # goal /\ frontier # {}
  /\ Least[2] # goal
  /\ LET current == Least[2]
         tentative == cost_from_start[current] + 1
         better == {n \in Neighbors(current) :
                      n \in DOMAIN cost_from_start => tentative < cost_from_start[n]}
     IN  /\ came_from' = [n \in DOMAIN came_from \union better |->
                            IF n \in better THEN current ELSE came_from[n]]
         /\ cost_from_start' = [n \in DOMAIN cost_from_start \union better |->
                                  IF n \in better THEN tentative ELSE cost_from_start[n]]
         /\ frontier' = (frontier \ {Least}) \union
                          {<<tentative + Manhattan(n, goal), n>> : n \in better}
  /\ UNCHANGED <<args, returned, result>>

Drained ==
  /\ ~returned /\ start # goal /\ frontier = {}
  /\ returned' = TRUE /\ result' = NoPath
  /\ UNCHANGED <<args, frontier, trees>>

Next == AlreadyThere \/ Found \/ Expand \/ Drained

Spec == Init /\ [][Next]_vars /\ WF_vars(Next)
-----------------------------------------------------------------------------
(* The reference: the cells within k steps of the start, by breadth. *)
Ball ==
  LET ball[k \in 0 .. Width * Height] ==
        IF k = 0 THEN {start}
        ELSE LET inner == ball[k - 1]
             IN  inner \union UNION {Neighbors(c) : c \in inner}
  IN  ball
Reachable(c) == c \in Ball[Width * Height]
StepsAre(c, k) == c \in Ball[k] /\ (k > 0 => c \notin Ball[k - 1])

(* A path that is returned walks from the start to the goal through free   *)
(* cells, and no walk is shorter.                                          *)
ReturnsShortestPath ==
  returned /\ result # NoPath =>
    /\ result[1] = start /\ result[Len(result)] = goal
    /\ \A i \in 1 .. Len(result) - 1 : result[i + 1] \in Neighbors(result[i])
    /\ StepsAre(goal, Len(result) - 1)

(* None is returned only when the goal is walled off. *)
NoneMeansUnreachable == returned /\ result = NoPath => ~Reachable(goal)

(* A cell that has left the frontier is settled: its cost is the length of *)
(* the shortest walk to it, so it is never pushed again.                   *)
InFrontier(c) == \E p \in frontier : p[2] = c
PoppedIsSettled ==
  \A c \in DOMAIN cost_from_start : ~InFrontier(c) => StepsAre(c, cost_from_start[c])

(* The search is right about the goal and about every cell on the way. *)
FindsShortestPath == ReturnsShortestPath /\ NoneMeansUnreachable /\ PoppedIsSettled

(* Every search returns. *)
Terminates == <>returned
=============================================================================
