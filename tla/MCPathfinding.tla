---------------------------- MODULE MCPathfinding ----------------------------
(* Searches in a 4 by 3 grid from a corner, an edge and an inner cell to   *)
(* every cell, with up to three mountains placed anywhere, on the start    *)
(* and on the goal too: enough to wall off a corner or force a detour.     *)
EXTENDS Pathfinding, FiniteSetsExt

MCStarts == {<<0, 0>>, <<2, 0>>, <<1, 1>>}
MCWalls == UNION {kSubset(k, Grid) : k \in 0 .. 3}
=============================================================================
