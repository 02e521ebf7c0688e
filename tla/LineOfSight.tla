----------------------------- MODULE LineOfSight -----------------------------
(***************************************************************************)
(* services/line_of_sight.py and services/signal_service.py: the cells a   *)
(* straight line crosses (Bresenham's algorithm), whether a mountain on it *)
(* hides a responder from mission control, and the signal status.          *)
(*                                                                         *)
(* Pen and Advance are the loop's variables and its body.  CellsOnLine     *)
(* iterates them as a function; the specification below runs the loop one  *)
(* iteration at a time, with its own termination test.  Its names differ   *)
(* from Pathfinding's, so that GeometryProofs can extend both.             *)
(***************************************************************************)
EXTENDS Integers, Sequences

CONSTANTS Froms, Tos        \* cells <<x, y>> to draw lines between

VARIABLES from, to,         \* the arguments start and end
          pen,              \* x, y and error
          cells,            \* the cells appended so far
          done              \* the loop was left

lineVars == <<from, to, pen, cells, done>>

Dist(a, b) == IF a < b THEN b - a ELSE a - b
StepToward(a, b) == IF a < b THEN 1 ELSE -1
DeltaX(s, e) == Dist(s[1], e[1])
DeltaY(s, e) == Dist(s[2], e[2])
Larger(a, b) == IF a > b THEN a ELSE b

Pen(s, e) == [x |-> s[1], y |-> s[2], error |-> DeltaX(s, e) - DeltaY(s, e)]

(* Fault: the error is not doubled. *)
AdvanceUndoubled(s, e, p) ==
  LET goX == p.error > -DeltaY(s, e)
      goY == p.error < DeltaX(s, e)
  IN  [x |-> IF goX THEN p.x + StepToward(s[1], e[1]) ELSE p.x,
       y |-> IF goY THEN p.y + StepToward(s[2], e[2]) ELSE p.y,
       error |-> p.error - (IF goX THEN DeltaY(s, e) ELSE 0)
                         + (IF goY THEN DeltaX(s, e) ELSE 0)]

(* One iteration of the loop.  Both tests read the error of its beginning. *)
Advance(s, e, p) ==
  LET goX == 2 * p.error > -DeltaY(s, e)
      goY == 2 * p.error < DeltaX(s, e)
  IN  [x |-> IF goX THEN p.x + StepToward(s[1], e[1]) ELSE p.x,
       y |-> IF goY THEN p.y + StepToward(s[2], e[2]) ELSE p.y,
       error |-> p.error - (IF goX THEN DeltaY(s, e) ELSE 0)
                         + (IF goY THEN DeltaX(s, e) ELSE 0)]

CellsOnLine(s, e) ==
  LET steps == Larger(DeltaX(s, e), DeltaY(s, e))
      at[i \in 0 .. steps] == IF i = 0 THEN Pen(s, e) ELSE Advance(s, e, at[i - 1])
  IN  [i \in 1 .. steps + 1 |-> <<at[i - 1].x, at[i - 1].y>>]

(* The mountains that hide the cell r from mission control at c, by their  *)
(* place on the line; the two ends do not count.                           *)
Blockers(c, r, mountains) ==
  LET line == CellsOnLine(c, r)
  IN  {i \in DOMAIN line : line[i] \in mountains \ {c, r}}

HasLineOfSight(c, r, mountains) == Blockers(c, r, mountains) = {}
-----------------------------------------------------------------------------
LineInit ==
  /\ from \in Froms /\ to \in Tos
  /\ pen = Pen(from, to) /\ cells = << >> /\ done = FALSE

(* Fault: the loop breaks before it appends. *)
ArriveWithoutEnd ==
  /\ ~done /\ <<pen.x, pen.y>> = to
  /\ done' = TRUE
  /\ UNCHANGED <<from, to, pen, cells>>

(* The last iteration appends the end cell and breaks. *)
Arrive ==
  /\ ~done /\ <<pen.x, pen.y>> = to
  /\ cells' = Append(cells, to)
  /\ done' = TRUE
  /\ UNCHANGED <<from, to, pen>>

Draw ==
  /\ ~done /\ <<pen.x, pen.y>> # to
  /\ cells' = Append(cells, <<pen.x, pen.y>>)
  /\ pen' = Advance(from, to, pen)
  /\ UNCHANGED <<from, to, done>>

LineNext == Arrive \/ Draw

LineSpec == LineInit /\ [][LineNext]_lineVars /\ WF_lineVars(LineNext)
-----------------------------------------------------------------------------
Columns == Larger(DeltaX(from, to), DeltaY(from, to))

(* Twice the area between a cell and the ideal line: zero on the line.     *)
Off(c) == (c[1] - from[1]) * (to[2] - from[2]) - (c[2] - from[2]) * (to[1] - from[1])

(* No cell is further from the ideal line than half a cell along the minor *)
(* axis, whatever the direction and the accumulated error.                 *)
NearIdealLine ==
  \A i \in DOMAIN cells : 2 * Dist(0, Off(cells[i])) <= Columns

(* The pen never crosses the line without drawing: there is exactly one    *)
(* cell for each step along the major axis, next to the one before it.     *)
OneCellPerColumn ==
  \A i \in DOMAIN cells :
    /\ Larger(Dist(from[1], cells[i][1]), Dist(from[2], cells[i][2])) = i - 1
    /\ i > 1 => Larger(Dist(cells[i - 1][1], cells[i][1]),
                       Dist(cells[i - 1][2], cells[i][2])) = 1

(* What is drawn is the ideal line, as well as cells can show it. *)
DrawsIdealLine == NearIdealLine /\ OneCellPerColumn

(* The loop ends, on the end cell, with the cells CellsOnLine gives.       *)
ReachesEnd == <>[](done /\ cells = CellsOnLine(from, to) /\ cells[Len(cells)] = to)
=============================================================================
