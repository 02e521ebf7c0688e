--------------------------- MODULE GeometryProofs ---------------------------
(***************************************************************************)
(* Proofs about the two algorithms of the mission's geometry, for any grid *)
(* and any arguments: Bresenham's line as LineOfSight runs it keeps to the *)
(* ideal line, and A* as Pathfinding runs it finds shortest paths.         *)
(***************************************************************************)
EXTENDS LineOfSight, Pathfinding, FiniteSetTheorems, TLAPS

-----------------------------------------------------------------------------
(* 1. The line.  A place is given by its distances u and v from the start  *)
(* along the axes; Area is twice its area to the ideal line.               *)
LenX == DeltaX(from, to)
LenY == DeltaY(from, to)

At(p, u, v) ==
  /\ p[1] = (IF from[1] < to[1] THEN from[1] + u ELSE from[1] - u)
  /\ p[2] = (IF from[2] < to[2] THEN from[2] + v ELSE from[2] - v)

Area(u, v) == u * LenY - v * LenX

(* The longer axis leads, up to the end, and the place is at most half a   *)
(* cell from the ideal line, on it when the line is a diagonal.            *)
Near(u, v) ==
  IF LenX >= LenY
  THEN /\ u \in 0 .. LenX /\ v \in 0 .. u
       /\ -LenX <= 2 * Area(u, v) /\ 2 * Area(u, v) <= LenX
       /\ LenX = LenY => Area(u, v) = 0
  ELSE /\ v \in 0 .. LenY /\ u \in 0 .. v
       /\ -LenY <= 2 * Area(u, v) /\ 2 * Area(u, v) <= LenY

Lead(u, v) == IF LenX >= LenY THEN u ELSE v

Ends == from \in Int \X Int /\ to \in Int \X Int

LEMMA Lengths ==
  ASSUME Ends
  PROVE  /\ LenX \in Nat /\ LenY \in Nat
         /\ to[1] = (IF from[1] < to[1] THEN from[1] + LenX ELSE from[1] - LenX)
         /\ to[2] = (IF from[2] < to[2] THEN from[2] + LenY ELSE from[2] - LenY)
         /\ from[1] \in Int /\ from[2] \in Int /\ to[1] \in Int /\ to[2] \in Int
         /\ to = <<to[1], to[2]>>
         /\ Columns = (IF LenX >= LenY THEN LenX ELSE LenY)
BY DEF Ends, LenX, LenY, DeltaX, DeltaY, Dist, Columns, Larger

(* A place near the line is as the properties say. *)
LEMMA NearIsIdeal ==
  ASSUME Ends, NEW p \in Int \X Int, NEW u \in Int, NEW v \in Int, At(p, u, v), Near(u, v)
  PROVE  /\ 2 * Dist(0, Off(p)) <= Columns
         /\ Larger(Dist(from[1], p[1]), Dist(from[2], p[2])) = Lead(u, v)
<1>1. /\ LenX \in Nat /\ LenY \in Nat
      /\ from[1] \in Int /\ from[2] \in Int /\ to[1] \in Int /\ to[2] \in Int
      /\ p[1] \in Int /\ p[2] \in Int
  BY Lengths
<1>2. u \in Nat /\ v \in Nat
  BY <1>1 DEF Near
<1>3. Dist(from[1], p[1]) = u /\ Dist(from[2], p[2]) = v
  BY <1>1, <1>2 DEF At, Dist
<1>4. Larger(u, v) = Lead(u, v)
  BY <1>1, <1>2 DEF Near, Lead, Larger
<1>5. Off(p) = Area(u, v) \/ Off(p) = -Area(u, v)
  <2> DEFINE a == p[1] - from[1]
             b == to[2] - from[2]
             c == p[2] - from[2]
             d == to[1] - from[1]
  <2>1. Off(p) = a * b - c * d
    BY DEF Off
  <2>2. /\ (a = u /\ d = LenX) \/ (a = -u /\ d = -LenX)
        /\ (c = v /\ b = LenY) \/ (c = -v /\ b = -LenY)
    BY <1>1, <1>2, Lengths DEF At
  <2> HIDE DEF a, b, c, d
  <2>3. \/ a * b - c * d = u * LenY - v * LenX
        \/ a * b - c * d = -(u * LenY - v * LenX)
    BY <1>1, <1>2, <2>2
  <2> QED BY <2>1, <2>3 DEF Area
<1>6. Area(u, v) \in Int
  BY <1>1, <1>2 DEF Area
<1>7. 2 * Dist(0, Off(p)) <= Columns
  <2> DEFINE A == Area(u, v)
  <2>1. /\ -Columns <= 2 * A /\ 2 * A <= Columns /\ Columns \in Nat
    BY <1>1, Lengths DEF Near
  <2> HIDE DEF A
  <2>2. A \in Int /\ (Off(p) = A \/ Off(p) = -A)
    BY <1>5, <1>6 DEF A
  <2> QED BY <2>1, <2>2 DEF Dist
<1> QED BY <1>3, <1>4, <1>7

(* One iteration, before the end: the longer axis goes on, the other when  *)
(* the error says so, and the place is near the line again.                *)
LEMMA AdvanceNear ==
  ASSUME Ends, NEW p, NEW q, NEW u \in Int, NEW v \in Int,
         At(<<p.x, p.y>>, u, v), Near(u, v), p.x \in Int, p.y \in Int,
         p.error = LenX - LenY - Area(u, v),
         <<p.x, p.y>> # to, q = Advance(from, to, p)
  PROVE  /\ q.x \in Int /\ q.y \in Int
         /\ \E i \in {0, 1}, j \in {0, 1} :
              /\ At(<<q.x, q.y>>, u + i, v + j) /\ Near(u + i, v + j)
              /\ q.error = LenX - LenY - Area(u + i, v + j)
              /\ Lead(u + i, v + j) = Lead(u, v) + 1
         /\ Larger(Dist(p.x, q.x), Dist(p.y, q.y)) = 1
<1> DEFINE goX == 2 * p.error > -LenY
           goY == 2 * p.error < LenX
           i == IF goX THEN 1 ELSE 0
           j == IF goY THEN 1 ELSE 0
           A == Area(u, v)
<1>1. /\ LenX \in Nat /\ LenY \in Nat
      /\ from[1] \in Int /\ from[2] \in Int /\ to[1] \in Int /\ to[2] \in Int
  BY Lengths
<1>2. A \in Int /\ u \in Nat /\ v \in Nat
  BY <1>1 DEF Area, Near
<1>3. /\ q.x = (IF goX THEN p.x + StepToward(from[1], to[1]) ELSE p.x)
      /\ q.y = (IF goY THEN p.y + StepToward(from[2], to[2]) ELSE p.y)
      /\ q.error = p.error - (IF goX THEN LenY ELSE 0) + (IF goY THEN LenX ELSE 0)
  BY DEF Advance, LenX, LenY
<1>4. Area(u + i, v + j) = A + (IF goX THEN LenY ELSE 0) - (IF goY THEN LenX ELSE 0)
  <2>1. (u + 1) * LenY = u * LenY + LenY /\ (v + 1) * LenX = v * LenX + LenX
    BY <1>1
  <2>2. u * LenY \in Int /\ v * LenX \in Int
    BY <1>1
  <2> QED BY <1>1, <2>1, <2>2 DEF Area
<1>5. At(<<q.x, q.y>>, u + i, v + j)
  BY <1>1, <1>3 DEF At, StepToward
<1>6. q.error = LenX - LenY - Area(u + i, v + j)
  BY <1>1, <1>2, <1>3, <1>4
<1>7. IF LenX >= LenY THEN u < LenX ELSE v < LenY
  <2> SUFFICES ASSUME ~(IF LenX >= LenY THEN u < LenX ELSE v < LenY) PROVE FALSE
    OBVIOUS
  <2>1. u = LenX /\ v = LenY
    <3>1. CASE LenX >= LenY
      <4>1. u = LenX /\ v <= u
        BY <1>1, <1>2, <3>1 DEF Near
      <4>2. -LenX <= 2 * (LenX * LenY - v * LenX) /\ 2 * (LenX * LenY - v * LenX) <= LenX
        BY <3>1, <4>1 DEF Near, Area
      <4>3. LenX * LenY - v * LenX = LenX * (LenY - v)
        BY <1>1, <1>2
      <4>4. CASE LenX = 0
        BY <1>1, <1>2, <3>1, <4>1, <4>4
      <4>5. CASE LenX > 0
        <5>1. LenY - v >= 1 => LenX * (LenY - v) >= LenX
          BY <1>1, <1>2, <4>5
        <5>2. LenY - v <= -1 => LenX * (LenY - v) <= -LenX
          BY <1>1, <1>2, <4>5
        <5>3. LenX * (LenY - v) \in Int
          BY <1>1, <1>2
        <5> QED BY <1>1, <1>2, <4>1, <4>2, <4>3, <4>5, <5>1, <5>2, <5>3
      <4> QED BY <1>1, <4>4, <4>5
    <3>2. CASE LenX < LenY
      <4>1. v = LenY /\ u <= v
        BY <1>1, <1>2, <3>2 DEF Near
      <4>2. -LenY <= 2 * (u * LenY - LenY * LenX) /\ 2 * (u * LenY - LenY * LenX) <= LenY
        BY <1>1, <3>2, <4>1 DEF Near, Area
      <4>3. u * LenY - LenY * LenX = LenY * (u - LenX)
        BY <1>1, <1>2
      <4>4. u - LenX >= 1 => LenY * (u - LenX) >= LenY
        BY <1>1, <1>2, <3>2
      <4>5. u - LenX <= -1 => LenY * (u - LenX) <= -LenY
        BY <1>1, <1>2, <3>2
      <4>6. LenY * (u - LenX) \in Int
        BY <1>1, <1>2
      <4> QED BY <1>1, <1>2, <3>2, <4>1, <4>2, <4>3, <4>4, <4>5, <4>6
    <3> QED BY <1>1, <3>1, <3>2
  <2>2. <<p.x, p.y>> = to
    BY <2>1, Lengths DEF At
  <2> QED BY <2>2
<1>8. Near(u + i, v + j) /\ Lead(u + i, v + j) = Lead(u, v) + 1
  <2>1. p.error = LenX - LenY - A
    OBVIOUS
  <2> DEFINE B == Area(u + i, v + j)
  <2>2. B = A + (IF goX THEN LenY ELSE 0) - (IF goY THEN LenX ELSE 0)
    BY <1>4
  <2> HIDE DEF A, B
  <2>3. CASE LenX >= LenY
    <3>1. /\ u \in 0 .. LenX /\ v \in 0 .. u /\ -LenX <= 2 * A /\ 2 * A <= LenX
          /\ LenX = LenY => A = 0
      BY <2>3 DEF Near, A
    <3>2. u < LenX
      BY <1>7, <2>3
    <3>3. goX
      BY <1>1, <1>2, <2>1, <2>3, <3>1, <3>2
    <3>4. -LenX <= 2 * B /\ 2 * B <= LenX /\ (LenX = LenY => B = 0)
      BY <1>1, <1>2, <2>1, <2>2, <2>3, <3>1, <3>2, <3>3
    <3>5. u + i \in 0 .. LenX /\ v + j \in 0 .. (u + i) /\ u + i = u + 1
      BY <1>1, <1>2, <3>1, <3>2, <3>3
    <3> HIDE DEF i, j
    <3> QED BY <2>3, <3>4, <3>5 DEF Near, Lead, B
  <2>4. CASE LenX < LenY
    <3>1. v \in 0 .. LenY /\ u \in 0 .. v /\ -LenY <= 2 * A /\ 2 * A <= LenY
      BY <1>1, <2>4 DEF Near, A
    <3>2. v < LenY
      BY <1>1, <1>7, <2>4
    <3>3. goY
      BY <1>1, <1>2, <2>1, <2>4, <3>1
    <3>4. -LenY <= 2 * B /\ 2 * B <= LenY
      BY <1>1, <1>2, <2>1, <2>2, <2>4, <3>1, <3>3
    <3>5. v + j \in 0 .. LenY /\ u + i \in 0 .. (v + j) /\ v + j = v + 1
      BY <1>1, <1>2, <3>1, <3>2, <3>3
    <3>6. ~(LenX >= LenY)
      BY <1>1, <2>4
    <3> HIDE DEF i, j
    <3> QED BY <3>4, <3>5, <3>6 DEF Near, Lead, B
  <2> QED BY <1>1, <2>3, <2>4
<1>9. goX \/ goY
  BY <1>1, <1>2, <1>8 DEF Lead
<1>10. q.x \in Int /\ q.y \in Int
  BY <1>1, <1>3 DEF StepToward
<1>11. Larger(Dist(p.x, q.x), Dist(p.y, q.y)) = 1
  <2>1. /\ Dist(p.x, q.x) = IF goX THEN 1 ELSE 0
        /\ Dist(p.y, q.y) = IF goY THEN 1 ELSE 0
    BY <1>1, <1>3 DEF StepToward, Dist
  <2> QED BY <1>9, <2>1 DEF Larger
<1>12. i \in {0, 1} /\ j \in {0, 1}
  OBVIOUS
<1> HIDE DEF i, j
<1> QED BY <1>5, <1>6, <1>8, <1>10, <1>11, <1>12


(* The inductive invariant: the cells drawn are right and the pen is at the *)
(* place to draw next, that many columns from the start.                   *)
PenAhead ==
  /\ pen.x \in Int /\ pen.y \in Int
  /\ \E u \in Int, v \in Int :
       /\ At(<<pen.x, pen.y>>, u, v) /\ Near(u, v)
       /\ pen.error = LenX - LenY - Area(u, v)
       /\ Lead(u, v) = Len(cells)
  /\ Len(cells) > 0 =>
       Larger(Dist(cells[Len(cells)][1], pen.x),
                   Dist(cells[Len(cells)][2], pen.y)) = 1

Drawn ==
  /\ Ends
  /\ cells \in Seq(Int \X Int)
  /\ DrawsIdealLine
  /\ ~done => PenAhead

LEMMA DrawnInit ==
  ASSUME Froms \subseteq Int \X Int, Tos \subseteq Int \X Int, LineInit
  PROVE  Drawn
<1>1. Ends /\ cells = << >> /\ pen = Pen(from, to)
  BY DEF LineInit, Ends
<1>2. LenX \in Nat /\ LenY \in Nat /\ from[1] \in Int /\ from[2] \in Int
  BY <1>1, Lengths
<1>3. pen.x = from[1] /\ pen.y = from[2] /\ pen.error = LenX - LenY
  BY <1>1 DEF Pen, LenX, LenY
<1>4. Area(0, 0) = 0
  BY <1>2 DEF Area
<1>5. At(<<pen.x, pen.y>>, 0, 0) /\ Near(0, 0) /\ Lead(0, 0) = 0
  <2>1. At(<<pen.x, pen.y>>, 0, 0)
    BY <1>2, <1>3 DEF At
  <2> QED BY <1>2, <1>4, <2>1 DEF Near, Lead
<1>6. pen.error = LenX - LenY - Area(0, 0)
  BY <1>2, <1>3, <1>4
<1>7. cells \in Seq(Int \X Int) /\ Len(cells) = 0 /\ DOMAIN cells = {}
  BY <1>1
<1>8. PenAhead
  BY <1>2, <1>3, <1>5, <1>6, <1>7 DEF PenAhead
<1>9. DrawsIdealLine
  BY <1>7 DEF DrawsIdealLine, NearIdealLine, OneCellPerColumn
<1> QED BY <1>1, <1>7, <1>8, <1>9 DEF Drawn

(* Drawing the cell under the pen keeps the line right. *)
LEMMA AppendDraws ==
  ASSUME Drawn, PenAhead, UNCHANGED <<from, to>>, cells' = Append(cells, <<pen.x, pen.y>>)
  PROVE  cells' \in Seq(Int \X Int) /\ Len(cells') = Len(cells) + 1 /\ DrawsIdealLine'
<1> DEFINE n == Len(cells)
           c == <<pen.x, pen.y>>
<1>1. /\ cells \in Seq(Int \X Int) /\ c \in Int \X Int /\ n \in Nat
      /\ DOMAIN cells = 1 .. n
  BY DEF Drawn, PenAhead
<1>2. /\ cells' \in Seq(Int \X Int) /\ DOMAIN cells' = 1 .. n + 1
      /\ Len(cells') = n + 1 /\ cells'[n + 1] = c
      /\ \A i \in 1 .. n : cells'[i] = cells[i]
  BY <1>1
<1>3. /\ 2 * Dist(0, Off(c)) <= Columns
      /\ Larger(Dist(from[1], c[1]), Dist(from[2], c[2])) = n
  BY <1>1, NearIsIdeal DEF Drawn, PenAhead
<1>4. n > 0 => Larger(Dist(cells[n][1], c[1]), Dist(cells[n][2], c[2])) = 1
  BY DEF PenAhead
<1> HIDE DEF n, c
<1>5. NearIdealLine'
  <2>1. ASSUME NEW i \in 1 .. n + 1
        PROVE  2 * Dist(0, Off(cells'[i])) <= Columns
    <3>1. CASE i \in 1 .. n
      <4>1. i \in DOMAIN cells /\ cells'[i] = cells[i]
        BY <1>1, <1>2, <3>1
      <4> QED BY <4>1, Zenon DEF Drawn, DrawsIdealLine, NearIdealLine
    <3>2. CASE i = n + 1
      BY <1>2, <1>3, <3>2
    <3> QED BY <1>1, <2>1, <3>1, <3>2
  <2> QED BY <1>2, <2>1 DEF NearIdealLine, Off, Columns, DeltaX, DeltaY,
                            Dist, Larger
<1>6. OneCellPerColumn'
  <2>1. ASSUME NEW i \in 1 .. n + 1
        PROVE  /\ Larger(Dist(from[1], cells'[i][1]),
                              Dist(from[2], cells'[i][2])) = i - 1
               /\ i > 1 => Larger(Dist(cells'[i - 1][1], cells'[i][1]),
                                       Dist(cells'[i - 1][2], cells'[i][2])) = 1
    <3>1. CASE i \in 1 .. n
      <4>1. i \in DOMAIN cells /\ cells'[i] = cells[i] /\ (i > 1 => cells'[i - 1] = cells[i - 1])
        BY <1>1, <1>2, <3>1
      <4>2. /\ Larger(Dist(from[1], cells[i][1]),
                           Dist(from[2], cells[i][2])) = i - 1
            /\ i > 1 => Larger(Dist(cells[i - 1][1], cells[i][1]),
                                    Dist(cells[i - 1][2], cells[i][2])) = 1
        BY <4>1, Zenon DEF Drawn, DrawsIdealLine, OneCellPerColumn
      <4> QED BY <4>1, <4>2
    <3>2. CASE i = n + 1
      <4>1. cells'[i] = c /\ i - 1 = n /\ (i > 1 => n > 0 /\ cells'[i - 1] = cells[n])
        BY <1>1, <1>2, <3>2
      <4> QED BY <1>3, <1>4, <4>1
    <3> QED BY <1>1, <2>1, <3>1, <3>2, SMTT(60)
  <2> QED BY <1>2, <2>1 DEF OneCellPerColumn, Dist, Larger
<1> QED BY <1>2, <1>5, <1>6 DEF n, DrawsIdealLine

LEMMA DrawnStep ==
  ASSUME Drawn, [LineNext]_lineVars
  PROVE  Drawn'
<1>1. CASE UNCHANGED lineVars
  BY <1>1 DEF Drawn, Ends, lineVars, DrawsIdealLine, NearIdealLine,
     OneCellPerColumn, Off, Columns, DeltaX, DeltaY, PenAhead, At, Near,
     Area, Lead, LenX, LenY, Dist, Larger
<1>2. CASE Arrive
  <2>1. PenAhead /\ UNCHANGED <<from, to>> /\ done' = TRUE
        /\ cells' = Append(cells, <<pen.x, pen.y>>)
    BY <1>2 DEF Arrive, Drawn
  <2>2. cells' \in Seq(Int \X Int) /\ DrawsIdealLine'
    BY <2>1, AppendDraws
  <2>3. Ends'
    BY <2>1 DEF Drawn, Ends
  <2> QED BY <2>1, <2>2, <2>3 DEF Drawn
<1>3. CASE Draw
  <2>1. /\ PenAhead /\ UNCHANGED <<from, to>> /\ <<pen.x, pen.y>> # to
        /\ cells' = Append(cells, <<pen.x, pen.y>>) /\ pen' = Advance(from, to, pen)
    BY <1>3 DEF Draw, Drawn
  <2>2. cells' \in Seq(Int \X Int) /\ Len(cells') = Len(cells) + 1 /\ DrawsIdealLine'
    BY <2>1, AppendDraws
  <2>3. Ends /\ Ends'
    BY <2>1 DEF Drawn, Ends
  <2>4. PICK u \in Int, v \in Int :
          /\ At(<<pen.x, pen.y>>, u, v) /\ Near(u, v)
          /\ pen.error = LenX - LenY - Area(u, v)
          /\ Lead(u, v) = Len(cells)
    BY <2>1 DEF PenAhead
  <2>5. /\ pen'.x \in Int /\ pen'.y \in Int
        /\ \E i \in {0, 1}, j \in {0, 1} :
             /\ At(<<pen'.x, pen'.y>>, u + i, v + j) /\ Near(u + i, v + j)
             /\ pen'.error = LenX - LenY - Area(u + i, v + j)
             /\ Lead(u + i, v + j) = Lead(u, v) + 1
        /\ Larger(Dist(pen.x, pen'.x), Dist(pen.y, pen'.y)) = 1
    <3> DEFINE q == pen'
    <3>1. q = Advance(from, to, pen) /\ pen.x \in Int /\ pen.y \in Int
      BY <2>1 DEF PenAhead
    <3> HIDE DEF q
    <3> QED BY <2>1, <2>3, <2>4, <3>1, AdvanceNear DEF q
  <2>6. PICK i \in {0, 1}, j \in {0, 1} :
          /\ At(<<pen'.x, pen'.y>>, u + i, v + j) /\ Near(u + i, v + j)
          /\ pen'.error = LenX - LenY - Area(u + i, v + j)
          /\ Lead(u + i, v + j) = Lead(u, v) + 1
    BY <2>5
  <2>7. cells'[Len(cells')] = <<pen.x, pen.y>>
    BY <2>1, <2>2 DEF Drawn
  <2>8. u + i \in Int /\ v + j \in Int
    OBVIOUS
  <2>9. /\ LenX' = LenX /\ LenY' = LenY
        /\ \A a, b : /\ Near(a, b)' <=> Near(a, b)
                     /\ Area(a, b)' = Area(a, b) /\ Lead(a, b)' = Lead(a, b)
    BY <2>1 DEF Near, Area, Lead, LenX, LenY, DeltaX, DeltaY, Dist
  <2>10. PenAhead'
    <3>1. At(<<pen.x, pen.y>>, u + i, v + j)'
      BY <2>1, <2>6 DEF At
    <3>2. Near(u + i, v + j)' /\ pen'.error = (LenX - LenY - Area(u + i, v + j))'
          /\ Lead(u + i, v + j)' = Len(cells')
      BY <2>2, <2>4, <2>6, <2>9
    <3>3. Larger(Dist(cells'[Len(cells')][1], pen'.x),
                      Dist(cells'[Len(cells')][2], pen'.y)) = 1
      BY <2>5, <2>7
    <3> QED BY <2>5, <2>8, <3>1, <3>2, <3>3 DEF PenAhead
  <2> QED BY <2>2, <2>3, <2>10 DEF Drawn
<1> QED BY <1>1, <1>2, <1>3 DEF LineNext

(* The line from any cell to any other is the ideal one, as well as cells  *)
(* can show it (line_of_sight.py's loop): no cell is further from it than  *)
(* half a cell, and there is one for each column of the longer axis.       *)
THEOREM LinesAreIdeal ==
  ASSUME Froms \subseteq Int \X Int, Tos \subseteq Int \X Int
  PROVE  LineSpec => []DrawsIdealLine
<1>1. LineInit => Drawn
  BY DrawnInit
<1>2. Drawn /\ [LineNext]_lineVars => Drawn'
  BY DrawnStep
<1>3. Drawn => DrawsIdealLine
  BY DEF Drawn
<1> QED BY <1>1, <1>2, <1>3, PTL DEF LineSpec
-----------------------------------------------------------------------------
(* 2. The balls around the start, Pathfinding's reference, are a recursive *)
(* function: a fold of Widen, whose element is the set of blocked cells.   *)
Most == Width * Height

Widen(ball, walls) ==
  ball \union UNION {{<<c[1] + 1, c[2]>>, <<c[1] - 1, c[2]>>, <<c[1], c[2] + 1>>, <<c[1], c[2] - 1>>}
                       \intersect (Grid \ walls) : c \in ball}

F == INSTANCE FoldTheorems WITH Step <- Widen

LEMMA MostIsNatural == Most \in Nat \ {0} /\ Width \in Nat \ {0} /\ Height \in Nat \ {0}
BY GridAssumption DEF Most

LEMMA Balls ==
  /\ Ball[0] = {start}
  /\ \A k \in 1 .. Most :
       Ball[k] = Ball[k - 1] \union UNION {Neighbors(c) : c \in Ball[k - 1]}
<1> DEFINE Def(f) == f = [k \in 0 .. Width * Height |->
                            IF k = 0 THEN {start}
                            ELSE LET inner == f[k - 1]
                                 IN  inner \union UNION {Neighbors(c) : c \in inner}]
           h == CHOOSE f : Def(f)
           es == [i \in 1 .. Most |-> blocked]
<1>1. \A s : Widen(s, blocked) = s \union UNION {Neighbors(c) : c \in s}
  BY Zenon DEF Widen, Neighbors
<1>2. es \in Seq({blocked}) /\ Len(es) = Most /\ \A i \in 1 .. Most : es[i] = blocked
  BY MostIsNatural
<1> HIDE DEF es
<1>3. PICK g : F!Trace(g, {start}, es)
  BY <1>2, F!TraceExists
<1>4. /\ g[0] = {start}
      /\ \A i \in 1 .. Most : g[i] = g[i - 1] \union UNION {Neighbors(c) : c \in g[i - 1]}
  BY <1>1, <1>2, <1>3 DEF F!Trace
<1>5. \E f : Def(f)
  <2> DEFINE f == [k \in 0 .. Most |-> g[k]]
  <2>1. ASSUME NEW k \in 0 .. Most, k # 0
        PROVE  f[k] = f[k - 1] \union UNION {Neighbors(c) : c \in f[k - 1]}
    <3>1. k \in 1 .. Most /\ k - 1 \in 0 .. Most
      BY <2>1, MostIsNatural
    <3>2. f[k] = g[k] /\ f[k - 1] = g[k - 1]
      BY <3>1
    <3> HIDE DEF f
    <3> QED BY <1>4, <3>1, <3>2
  <2>2. f[0] = {start}
    BY <1>4, MostIsNatural
  <2>3. f = [k \in 0 .. Most |->
               IF k = 0 THEN {start}
               ELSE LET inner == f[k - 1] IN inner \union UNION {Neighbors(c) : c \in inner}]
    <3>1. \A k \in 0 .. Most : f[k] = (IF k = 0 THEN {start}
               ELSE LET inner == f[k - 1] IN inner \union UNION {Neighbors(c) : c \in inner})
      <4> HIDE DEF f
      <4> QED BY <2>1, <2>2, Zenon
    <3>2. f = [k \in 0 .. Most |-> f[k]]
      BY Zenon
    <3> HIDE DEF f
    <3> QED BY <3>1, <3>2, Zenon
  <2> HIDE DEF f
  <2>4. Def(f)
    BY <2>3 DEF Most
  <2> QED BY <2>4, Zenon
<1>6. Def(h)
  <2> HIDE DEF Def
  <2> QED BY <1>5, Zenon
<1>7. Ball = h
  BY Zenon DEF Ball
<1> HIDE DEF h
<1>8. Ball[0] = {start}
  BY <1>6, <1>7, MostIsNatural DEF Most
<1>9. ASSUME NEW k \in 1 .. Most
      PROVE  Ball[k] = Ball[k - 1] \union UNION {Neighbors(c) : c \in Ball[k - 1]}
  <2>1. k \in 0 .. Most /\ k # 0
    BY <1>9, MostIsNatural
  <2>2. Ball = [j \in 0 .. Most |->
               IF j = 0 THEN {start}
               ELSE LET inner == Ball[j - 1] IN inner \union UNION {Neighbors(c) : c \in inner}]
    BY <1>6, <1>7, Zenon DEF Most
  <2> QED BY <2>1, <2>2, Zenon
<1> QED BY <1>8, <1>9

LEMMA BallWidens ==
  ASSUME NEW k \in 0 .. Most - 1, NEW c \in Ball[k]
  PROVE  c \in Ball[k + 1] /\ Neighbors(c) \subseteq Ball[k + 1]
<1>1. k + 1 \in 1 .. Most /\ (k + 1) - 1 = k
  BY MostIsNatural
<1> QED BY <1>1, Balls

LEMMA BallGrows ==
  ASSUME NEW j \in 0 .. Most, NEW k \in 0 .. Most, j <= k
  PROVE  Ball[j] \subseteq Ball[k]
<1> DEFINE P == {i \in 0 .. k - j : Ball[j] \subseteq Ball[j + i]}
<1>1. k - j \in Nat /\ Most \in Nat /\ j \in Nat /\ k \in Nat /\ k <= Most /\ j + 0 = j
  BY MostIsNatural
<1>2. 0 \in P
  BY <1>1
<1>3. ASSUME NEW i \in 1 .. k - j, i - 1 \in P
      PROVE  i \in P
  <2>1. j + (i - 1) \in 0 .. Most - 1 /\ (j + (i - 1)) + 1 = j + i /\ i \in 0 .. k - j
    BY <1>1, <1>3
  <2>2. Ball[j] \subseteq Ball[j + (i - 1)]
    BY <1>3
  <2>3. Ball[j + (i - 1)] \subseteq Ball[j + i]
    BY <2>1, BallWidens
  <2> QED BY <2>1, <2>2, <2>3
<1> HIDE DEF P
<1>4. \A i \in 0 .. k - j : i \in P
  BY <1>1, <1>2, <1>3, F!InductionUpTo
<1>5. k - j \in 0 .. k - j /\ j + (k - j) = k
  BY <1>1
<1>6. k - j \in P
  BY <1>4, <1>5
<1> QED BY <1>5, <1>6 DEF P

-----------------------------------------------------------------------------
(* 3. Helpers of the search: where every cell but those of cost zero has   *)
(* one that costs one less, no cost exceeds the size of the grid, and the  *)
(* heap has a least entry.                                                 *)
LEMMA CostsAreBounded ==
  ASSUME NEW s, NEW D \in SUBSET (Grid \union {s}), NEW g,
         \A c \in D : g[c] \in Nat,
         \A c \in D : g[c] = 0 \/ \E b \in D : g[c] = g[b] + 1
  PROVE  \A c \in D : g[c] \in 0 .. Most
<1>1. IsFiniteSet(Grid \union {s}) /\ Cardinality(Grid \union {s}) <= Most + 1
  <2>1. /\ IsFiniteSet(0 .. Width - 1) /\ Cardinality(0 .. Width - 1) = Width
        /\ IsFiniteSet(0 .. Height - 1) /\ Cardinality(0 .. Height - 1) = Height
    BY MostIsNatural, FS_Interval
  <2>2. IsFiniteSet(Grid) /\ Cardinality(Grid) = Most
    BY <2>1, FS_Product, ZenonT(60) DEF Grid, Most
  <2> QED BY <2>2, MostIsNatural, FS_AddElement
<1>2. IsFiniteSet(D) /\ Cardinality(D) <= Most + 1 /\ Cardinality(D) \in Nat
  <2>1. IsFiniteSet(D) /\ Cardinality(D) <= Cardinality(Grid \union {s})
    BY <1>1, FS_Subset
  <2>2. Cardinality(D) \in Nat /\ Cardinality(Grid \union {s}) \in Nat
    BY <1>1, <2>1, FS_CardinalityType
  <2> QED BY <1>1, <2>1, <2>2, MostIsNatural
<1>3. ASSUME NEW c \in D
      PROVE  g[c] \in 0 .. Most
  <2> DEFINE k == g[c]
             P == {i \in 0 .. k : \E b \in D : g[b] = k - i}
             w == [j \in 0 .. k |-> CHOOSE b \in D : g[b] = j]
  <2>1. k \in Nat
    OBVIOUS
  <2>2. 0 \in P
    BY <2>1
  <2>3. ASSUME NEW i \in 1 .. k, i - 1 \in P
        PROVE  i \in P
    <3>1. PICK b \in D : g[b] = k - (i - 1)
      BY <2>3
    <3>2. g[b] # 0
      BY <2>1, <3>1
    <3>3. PICK a \in D : g[b] = g[a] + 1
      BY <3>2
    <3>4. g[a] = k - i /\ i \in 0 .. k
      BY <2>1, <3>1, <3>3
    <3> QED BY <3>4
  <2>4. \A i \in 0 .. k : i \in P
    <3> HIDE DEF P, k
    <3> QED BY <2>1, <2>2, <2>3, F!InductionUpTo
  <2>5. ASSUME NEW j \in 0 .. k
        PROVE  w[j] \in D /\ g[w[j]] = j
    <3>1. k - j \in 0 .. k /\ k - (k - j) = j
      BY <2>1
    <3>2. \E b \in D : g[b] = j
      BY <2>4, <3>1
    <3> QED BY <3>2
  <2>6. w \in Injection(0 .. k, D)
    <3> HIDE DEF w, k
    <3>1. w = [j \in 0 .. k |-> w[j]]
      BY DEF w
    <3> QED BY <2>5, <3>1 DEF Injection, IsInjective
  <2>7. Cardinality(0 .. k) <= Cardinality(D)
    BY <1>2, <2>6, FS_Injection
  <2>8. Cardinality(0 .. k) = k + 1
    BY <2>1, FS_Interval
  <2> HIDE DEF k
  <2>9. k <= Most
    BY <1>2, <2>1, <2>7, <2>8, MostIsNatural
  <2> QED BY <2>1, <2>9, MostIsNatural DEF k
<1> QED BY <1>3

LEMMA LeastInteger ==
  ASSUME NEW S \in SUBSET Int, S # {}, NEW b \in Int, \A s \in S : b <= s
  PROVE  \E q \in S : \A p \in S : q <= p
<1> DEFINE T == {s - b : s \in S}
<1>1. T \in SUBSET Nat /\ T # {}
  <2>1. \A s \in S : s - b \in Nat
    OBVIOUS
  <2> QED BY <2>1
<1>2. PICK t \in T : \A r \in T : t <= r
  <2> HIDE DEF T
  <2> QED BY <1>1, F!Least
<1>3. PICK q \in S : t = q - b
  OBVIOUS
<1>4. ASSUME NEW p \in S PROVE q <= p
  <2>1. t <= p - b
    BY <1>2
  <2> QED BY <1>3, <2>1
<1> QED BY <1>4

LEMMA LeastEntry ==
  ASSUME start \in Int \X Int, frontier \subseteq Nat \X (Grid \union {start}), frontier # {}
  PROVE  Least \in frontier /\ \A q \in frontier : Least[1] <= q[1]
<1>1. Grid \union {start} \subseteq Int \X Int
  BY MostIsNatural DEF Grid
<1>2. \A q \in frontier : q[1] \in Nat /\ q[2] \in Int \X Int /\ q[2][1] \in Int /\ q[2][2] \in Int
  BY <1>1
<1> DEFINE low(i) == IF start[i] < 0 THEN start[i] ELSE 0
<1>3. /\ low(1) \in Int /\ low(2) \in Int
      /\ \A q \in frontier : low(1) <= q[2][1] /\ low(2) <= q[2][2]
  <2>1. ASSUME NEW q \in frontier
        PROVE  low(1) <= q[2][1] /\ low(2) <= q[2][2]
    <3>1. q[2] \in Grid \/ q[2] = start
      OBVIOUS
    <3>2. q[2] \in Grid => q[2][1] >= 0 /\ q[2][2] >= 0
      BY MostIsNatural DEF Grid
    <3> QED BY <1>2, <3>1, <3>2
  <2> QED BY <2>1
<1> HIDE DEF low
<1>4. PICK f \in {q[1] : q \in frontier} : \A e \in {q[1] : q \in frontier} : f <= e
  <2>1. {q[1] : q \in frontier} \in SUBSET Nat /\ {q[1] : q \in frontier} # {}
    BY <1>2
  <2> QED BY <2>1, F!Least
<1> DEFINE A == {q \in frontier : q[1] = f}
<1>5. PICK x \in {q[2][1] : q \in A} : \A e \in {q[2][1] : q \in A} : x <= e
  <2> DEFINE S == {q[2][1] : q \in A}
  <2>1. S \in SUBSET Int /\ S # {} /\ \A s \in S : low(1) <= s
    BY <1>2, <1>3, <1>4
  <2> HIDE DEF S
  <2>2. \E q \in S : \A p \in S : q <= p
    BY <1>3, <2>1, LeastInteger
  <2> QED BY <2>2 DEF S
<1> DEFINE B == {q \in A : q[2][1] = x}
<1>6. PICK y \in {q[2][2] : q \in B} : \A e \in {q[2][2] : q \in B} : y <= e
  <2> DEFINE S == {q[2][2] : q \in B}
  <2>1. S \in SUBSET Int /\ S # {} /\ \A s \in S : low(2) <= s
    BY <1>2, <1>3, <1>5
  <2> HIDE DEF S
  <2>2. \E q \in S : \A p \in S : q <= p
    BY <1>3, <2>1, LeastInteger
  <2> QED BY <2>2 DEF S
<1>7. PICK p \in B : p[2][2] = y
  OBVIOUS
<1>8. ASSUME NEW q \in frontier
      PROVE  Before(p, q)
  <2>1. p \in frontier /\ p[1] = f /\ p[2][1] = x /\ p[2][2] = y
    BY <1>7
  <2>2. f <= q[1]
    BY <1>4
  <2>3. q[1] = f => x <= q[2][1]
    BY <1>5
  <2>4. q[1] = f /\ q[2][1] = x => y <= q[2][2]
    BY <1>6
  <2>5. /\ f \in Nat /\ x \in Int /\ y \in Int
        /\ q[1] \in Nat /\ q[2][1] \in Int /\ q[2][2] \in Int
    BY <1>2, <2>1
  <2> HIDE DEF A, B
  <2> QED BY <2>1, <2>2, <2>3, <2>4, <2>5 DEF Before
<1>9. Least \in frontier /\ \A q \in frontier : Before(Least, q)
  <2>1. \E q \in frontier : \A r \in frontier : Before(q, r)
    BY <1>7, <1>8
  <2> QED BY <2>1, Zenon DEF Least
<1>10. ASSUME NEW q \in frontier
       PROVE  Least[1] <= q[1]
  BY <1>2, <1>9 DEF Before
<1> QED BY <1>9, <1>10

-----------------------------------------------------------------------------
(* 4. The cells reached are a tree, each one step further than the one it  *)
(* was reached from, and RebuildPath walks it.                             *)
Reached == DOMAIN cost_from_start

Tree ==
  /\ Reached \subseteq Grid \union {start} /\ start \in Reached
  /\ \A c \in Reached : cost_from_start[c] \in 0 .. Most
  /\ cost_from_start[start] = 0
  /\ DOMAIN came_from = Reached \ {start}
  /\ \A c \in Reached \ {start} :
       /\ came_from[c] \in Reached /\ c \in Neighbors(came_from[c])
       /\ cost_from_start[c] = cost_from_start[came_from[c]] + 1

(* What a path back is to be, once for all cells. *)
IsBack(f) ==
  f = [d \in DOMAIN cost_from_start |->
         IF d \in DOMAIN came_from THEN Append(f[came_from[d]], d) ELSE <<d>>]

LEMMA BackExists ==
  ASSUME Tree
  PROVE  \E f : IsBack(f)
<1> DEFINE Within(k) == {d \in Reached : cost_from_start[d] <= k}
           Leads(f, k) == f = [d \in Within(k) |->
                                 IF d = start THEN <<d>> ELSE Append(f[came_from[d]], d)]
           P == {k \in 0 .. Most : \E f : Leads(f, k)}
<1>1. Most \in Nat /\ \A d \in Reached : cost_from_start[d] \in Nat /\ cost_from_start[d] <= Most
  BY MostIsNatural DEF Tree
<1>2. ASSUME NEW d \in Reached, cost_from_start[d] = 0
      PROVE  d = start
  <2> SUFFICES ASSUME d # start PROVE FALSE
    OBVIOUS
  <2>1. came_from[d] \in Reached /\ cost_from_start[d] = cost_from_start[came_from[d]] + 1
    BY DEF Tree
  <2> QED BY <1>1, <1>2, <2>1
<1>3. 0 \in P
  <2> DEFINE f == [d \in Within(0) |-> <<d>>]
  <2>1. \A d \in Within(0) : d = start
    BY <1>1, <1>2
  <2>2. Leads(f, 0)
    BY <2>1
  <2>3. 0 \in 0 .. Most
    BY <1>1
  <2> HIDE DEF f, Leads
  <2> QED BY <2>2, <2>3
<1>4. ASSUME NEW k \in 1 .. Most, k - 1 \in P
      PROVE  k \in P
  <2>1. PICK f : Leads(f, k - 1)
    BY <1>4
  <2> DEFINE e == [d \in Within(k) |-> IF d \in Within(k - 1) THEN f[d]
                                       ELSE Append(f[came_from[d]], d)]
  <2>2. ASSUME NEW d \in Within(k)
        PROVE  e[d] = IF d = start THEN <<d>> ELSE Append(e[came_from[d]], d)
    <3>1. CASE d = start
      <4>1. d \in Within(k - 1)
        BY <1>1, <1>4, <3>1 DEF Tree
      <4>2. e[d] = f[d] /\ f[d] = <<d>>
        BY <2>1, <3>1, <4>1
      <4> QED BY <3>1, <4>2
    <3>2. CASE d # start
      <4>1. /\ came_from[d] \in Reached
            /\ cost_from_start[d] = cost_from_start[came_from[d]] + 1
        BY <3>2 DEF Tree
      <4>2. came_from[d] \in Within(k) /\ came_from[d] \in Within(k - 1)
        BY <1>1, <1>4, <4>1
      <4>3. e[came_from[d]] = f[came_from[d]]
        BY <4>2
      <4>4. e[d] = Append(f[came_from[d]], d)
        BY <2>1, <3>2
      <4> HIDE DEF e
      <4> QED BY <3>2, <4>3, <4>4
    <3> QED BY <3>1, <3>2
  <2>3. e = [d \in Within(k) |-> e[d]]
    OBVIOUS
  <2> HIDE DEF e, Within
  <2>4. Leads(e, k)
    BY <2>2, <2>3, Zenon
  <2>5. k \in 0 .. Most
    BY <1>1
  <2> QED BY <2>4, <2>5
<1>5. Most \in P
  <2> HIDE DEF P
  <2>1. \A k \in 0 .. Most : k \in P
    BY <1>1, <1>3, <1>4, F!InductionUpTo
  <2> QED BY <1>1, <2>1
<1>6. PICK f : Leads(f, Most)
  BY <1>5
<1>7. Within(Most) = DOMAIN cost_from_start
  BY <1>1 DEF Reached
<1>8. \A d \in DOMAIN cost_from_start : d = start <=> d \notin DOMAIN came_from
  BY DEF Tree, Reached
<1> HIDE DEF Within
<1>9. IsBack(f)
  <2>1. f = [d \in DOMAIN cost_from_start |->
                                 IF d = start THEN <<d>> ELSE Append(f[came_from[d]], d)]
    BY <1>6, <1>7, Zenon
  <2>2. f = [d \in DOMAIN cost_from_start |-> f[d]]
    BY <2>1
  <2>3. \A d \in DOMAIN cost_from_start :
          f[d] = IF d \in DOMAIN came_from THEN Append(f[came_from[d]], d) ELSE <<d>>
    BY <1>8, <2>1
  <2> QED BY <2>2, <2>3, Zenon DEF IsBack
<1> QED BY <1>9

(* The path back to a cell is a walk to it, as long as the cell costs. *)
Walk(r, c) ==
  /\ r \in Seq(Reached)
  /\ Len(r) = cost_from_start[c] + 1
  /\ r[1] = start /\ r[Len(r)] = c
  /\ \A i \in 1 .. Len(r) - 1 : r[i + 1] \in Neighbors(r[i])

LEMMA WalksOn ==
  ASSUME Tree, NEW c \in Reached \ {start}, NEW r, Walk(r, came_from[c])
  PROVE  Walk(Append(r, c), c)
<1> DEFINE b == came_from[c]
           q == Append(r, c)
           n == cost_from_start[b] + 1
<1>1. /\ b \in Reached /\ c \in Neighbors(b) /\ c \in Reached
      /\ cost_from_start[c] = n /\ n \in Nat \ {0}
  BY MostIsNatural DEF Tree
<1>2. /\ r \in Seq(Reached) /\ Len(r) = n /\ r[1] = start /\ r[n] = b
      /\ \A i \in 1 .. n - 1 : r[i + 1] \in Neighbors(r[i])
  BY DEF Walk
<1> HIDE DEF b, n
<1>3. /\ q \in Seq(Reached) /\ Len(q) = n + 1 /\ q[n + 1] = c
      /\ \A i \in 1 .. n : q[i] = r[i]
  BY <1>1, <1>2
<1>4. ASSUME NEW i \in 1 .. (n + 1) - 1
      PROVE  q[i + 1] \in Neighbors(q[i])
  <2>1. CASE i = n
    BY <1>1, <1>2, <1>3, <2>1
  <2>2. CASE i # n
    <3>1. i \in 1 .. n - 1 /\ i + 1 \in 1 .. n /\ i \in 1 .. n
      BY <1>1, <2>2
    <3> QED BY <1>2, <1>3, <3>1
  <2> QED BY <2>1, <2>2
<1>5. q[1] = start
  BY <1>1, <1>2, <1>3
<1> HIDE DEF q
<1> QED BY <1>1, <1>3, <1>4, <1>5 DEF Walk, q

LEMMA Rebuilds ==
  ASSUME Tree, NEW c \in Reached
  PROVE  Walk(RebuildPath(c), c)
<1> DEFINE back == CHOOSE f : IsBack(f)
           P == {k \in 0 .. Most : \A d \in Reached :
                   cost_from_start[d] = k => Walk(back[d], d)}
<1>1. IsBack(back)
  BY BackExists, Zenon
<1>2. RebuildPath(c) = back[c]
  BY Zenon DEF RebuildPath, IsBack
<1> HIDE DEF back
<1>3. /\ back[start] = <<start>>
      /\ \A d \in Reached \ {start} : back[d] = Append(back[came_from[d]], d)
  <2>1. \A d \in Reached :
          back[d] = IF d \in DOMAIN came_from THEN Append(back[came_from[d]], d) ELSE <<d>>
    BY <1>1, Zenon DEF IsBack, Reached
  <2> QED BY <2>1 DEF Tree
<1>4. 0 \in P
  <2>1. ASSUME NEW d \in Reached, cost_from_start[d] = 0
        PROVE  Walk(back[d], d)
    <3>1. d = start
      <4> SUFFICES ASSUME d # start PROVE FALSE
        OBVIOUS
      <4>1. /\ cost_from_start[d] = cost_from_start[came_from[d]] + 1
            /\ cost_from_start[came_from[d]] \in Nat
        BY MostIsNatural DEF Tree
      <4> QED BY <2>1, <4>1
    <3>2. back[d] = <<d>> /\ <<d>> \in Seq(Reached) /\ Len(<<d>>) = 1 /\ <<d>>[1] = d
      BY <1>3, <3>1
    <3> QED BY <2>1, <3>1, <3>2 DEF Walk
  <2> QED BY <2>1, MostIsNatural
<1>5. ASSUME NEW k \in 1 .. Most, k - 1 \in P
      PROVE  k \in P
  <2>1. ASSUME NEW d \in Reached, cost_from_start[d] = k
        PROVE  Walk(back[d], d)
    <3>1. d \in Reached \ {start}
      BY <2>1, MostIsNatural DEF Tree
    <3>2. /\ came_from[d] \in Reached /\ cost_from_start[came_from[d]] \in Nat
          /\ cost_from_start[d] = cost_from_start[came_from[d]] + 1
      BY <3>1, MostIsNatural DEF Tree
    <3>3. cost_from_start[came_from[d]] = k - 1
      BY <2>1, <3>2, MostIsNatural
    <3>4. Walk(back[came_from[d]], came_from[d])
      BY <1>5, <3>2, <3>3
    <3> QED BY <1>3, <3>1, <3>4, WalksOn
  <2> QED BY <2>1, MostIsNatural
<1>6. \A k \in 0 .. Most : k \in P
  <2> HIDE DEF P
  <2> QED BY <1>4, <1>5, MostIsNatural, F!InductionUpTo
<1>7. cost_from_start[c] \in P
  BY <1>6 DEF Tree
<1> QED BY <1>2, <1>7

-----------------------------------------------------------------------------
(* 5. The search.  Of the heap entries of a cell only the cheapest counts; *)
(* a cell whose cheapest entry has been popped is closed.                  *)
Key(c) == IF c = start THEN 0 ELSE cost_from_start[c] + Manhattan(c, goal)
Open(c) == <<Key(c), c>> \in frontier

Arguments == start \in Int \X Int /\ goal \in Int \X Int

Queued == frontier \subseteq Nat \X Reached /\ \A p \in frontier : Key(p[2]) <= p[1]

(* A cell was reached from a closed one, whose cost stays as it is. *)
FromClosed == \A c \in Reached \ {start} : ~Open(came_from[c])

(* Every cost is the length of a walk, a closed cell's of the shortest. *)
Settled ==
  \A c \in Reached : /\ c \in Ball[cost_from_start[c]]
                     /\ ~Open(c) => StepsAre(c, cost_from_start[c])

(* What is next to a closed cell has been reached, at most one step on. *)
Explored ==
  \A c \in Reached : ~Open(c) /\ c # goal =>
    \A n \in Neighbors(c) : n \in Reached /\ cost_from_start[n] <= cost_from_start[c] + 1

GoalOpen == goal \in Reached => Open(goal)

Search == Arguments /\ Tree /\ Queued /\ FromClosed /\ Settled /\ Explored

(* The inductive invariant. *)
SearchSound ==
  /\ Search
  /\ ~returned => GoalOpen
  /\ ReturnsShortestPath /\ NoneMeansUnreachable

LEMMA CellsAreIntegers == Grid \subseteq Int \X Int
BY MostIsNatural DEF Grid

LEMMA ManhattanStep ==
  ASSUME Arguments, NEW c \in Int \X Int
  PROVE  /\ Manhattan(c, goal) \in Nat
         /\ \A n \in Neighbors(c) :
              n \in Grid /\ Manhattan(n, goal) \in Nat /\ Manhattan(c, goal) <= Manhattan(n, goal) + 1
<1>1. c[1] \in Int /\ c[2] \in Int /\ goal[1] \in Int /\ goal[2] \in Int
  BY DEF Arguments
<1>2. Manhattan(c, goal) \in Nat
  BY <1>1 DEF Manhattan, Distance
<1>3. ASSUME NEW n \in Neighbors(c)
      PROVE  n \in Grid /\ Manhattan(n, goal) \in Nat /\ Manhattan(c, goal) <= Manhattan(n, goal) + 1
  <2>1. n \in Grid
    BY DEF Neighbors
  <2>2. /\ n[1] \in Int /\ n[2] \in Int
        /\ (n[1] = c[1] /\ (n[2] = c[2] + 1 \/ n[2] = c[2] - 1)) \/
           (n[2] = c[2] /\ (n[1] = c[1] + 1 \/ n[1] = c[1] - 1))
    BY <2>1, CellsAreIntegers DEF Neighbors
  <2> QED BY <1>1, <2>1, <2>2 DEF Manhattan, Distance
<1> QED BY <1>2, <1>3

LEMMA BallsAreCells ==
  ASSUME Arguments, NEW k \in 0 .. Most
  PROVE  Ball[k] \subseteq Int \X Int
<1> DEFINE P == {i \in 0 .. Most : Ball[i] \subseteq Int \X Int}
<1>1. 0 \in P
  BY Balls, MostIsNatural DEF Arguments
<1>2. ASSUME NEW i \in 1 .. Most, i - 1 \in P
      PROVE  i \in P
  <2>1. Ball[i] = Ball[i - 1] \union UNION {Neighbors(c) : c \in Ball[i - 1]}
    BY Balls
  <2>2. \A c : Neighbors(c) \subseteq Int \X Int
    BY CellsAreIntegers DEF Neighbors
  <2> QED BY <1>2, <2>1, <2>2, MostIsNatural
<1> HIDE DEF P
<1>3. \A i \in 0 .. Most : i \in P
  BY <1>1, <1>2, MostIsNatural, F!InductionUpTo
<1> QED BY <1>3 DEF P

LEMMA BallStays ==
  ASSUME UNCHANGED args
  PROVE  Ball' = Ball
<1>1. start' = start /\ blocked' = blocked
  BY DEF args
<1> QED BY <1>1 DEF Ball, Neighbors, Grid

(* What the search knows of a cell within k steps: it is closed and costs  *)
(* no more, or an open cell is on the way, whose estimate is no more.      *)
LEMMA ClosedOrAhead ==
  ASSUME Search, GoalOpen, NEW k \in 0 .. Most, NEW c \in Ball[k]
  PROVE  \/ c \in Reached /\ ~Open(c) /\ cost_from_start[c] <= k
         \/ \E e \in Reached : /\ Open(e)
                               /\ cost_from_start[e] + Manhattan(e, goal) <= k + Manhattan(c, goal)
<1> DEFINE Known(i, d) ==
             \/ d \in Reached /\ ~Open(d) /\ cost_from_start[d] <= i
             \/ \E e \in Reached : /\ Open(e)
                                   /\ cost_from_start[e] + Manhattan(e, goal) <= i + Manhattan(d, goal)
           P == {i \in 0 .. Most : \A d \in Ball[i] : Known(i, d)}
<1>1. /\ Most \in Nat
      /\ \A i \in 0 .. Most : \A d \in Ball[i] : Manhattan(d, goal) \in Nat
      /\ \A e \in Reached : cost_from_start[e] \in Nat /\ Manhattan(e, goal) \in Nat
  <2>1. \A i \in 0 .. Most : \A d \in Ball[i] : Manhattan(d, goal) \in Nat
    BY BallsAreCells, ManhattanStep DEF Search
  <2>2. \A e \in Reached : e \in Int \X Int
    BY CellsAreIntegers DEF Search, Tree, Arguments
  <2>3. \A e \in Reached : cost_from_start[e] \in Nat /\ Manhattan(e, goal) \in Nat
    BY <2>2, ManhattanStep, MostIsNatural DEF Search, Tree
  <2> QED BY <2>1, <2>3, MostIsNatural
<1>2. 0 \in P
  <2>1. ASSUME NEW d \in Ball[0]
        PROVE  Known(0, d)
    <3>1. d = start /\ d \in Reached /\ cost_from_start[d] = 0
      BY Balls DEF Search, Tree
    <3> QED BY <1>1, <3>1
  <2> HIDE DEF Known
  <2> QED BY <1>1, <2>1
<1>3. ASSUME NEW i \in 1 .. Most, i - 1 \in P
      PROVE  i \in P
  <2>1. ASSUME NEW d \in Ball[i]
        PROVE  Known(i, d)
    <3>1. i \in Nat /\ i - 1 \in 0 .. Most /\ i \in 0 .. Most
      BY <1>1
    <3>2. CASE d \in Ball[i - 1]
      <4>1. Known(i - 1, d)
        BY <1>3, <3>2
      <4>2. Manhattan(d, goal) \in Nat
        BY <1>1, <2>1, <3>1
      <4> QED BY <1>1, <3>1, <4>1, <4>2
    <3>3. CASE d \notin Ball[i - 1]
      <4>1. PICK b \in Ball[i - 1] : d \in Neighbors(b)
        BY <2>1, <3>3, Balls
      <4>2. /\ Manhattan(d, goal) \in Nat /\ Manhattan(b, goal) \in Nat
            /\ Manhattan(b, goal) <= Manhattan(d, goal) + 1
        BY <3>1, <4>1, BallsAreCells, ManhattanStep DEF Search
      <4>3. Known(i - 1, b)
        BY <1>3, <4>1
      <4>4. CASE b \in Reached /\ ~Open(b) /\ cost_from_start[b] <= i - 1
        <5>1. b # goal
          BY <4>4 DEF GoalOpen
        <5>2. d \in Reached /\ cost_from_start[d] <= cost_from_start[b] + 1
          BY <4>1, <4>4, <5>1 DEF Search, Explored
        <5>3. cost_from_start[d] <= i
          BY <1>1, <3>1, <4>4, <5>2
        <5> QED BY <1>1, <3>1, <4>2, <5>2, <5>3
      <4>5. CASE \E e \in Reached : /\ Open(e)
                     /\ cost_from_start[e] + Manhattan(e, goal) <= (i - 1) + Manhattan(b, goal)
        <5>1. PICK e \in Reached : /\ Open(e)
                     /\ cost_from_start[e] + Manhattan(e, goal) <= (i - 1) + Manhattan(b, goal)
          BY <4>5
        <5>2. cost_from_start[e] + Manhattan(e, goal) <= i + Manhattan(d, goal)
          BY <1>1, <3>1, <4>2, <5>1
        <5> QED BY <5>1, <5>2
      <4> QED BY <4>3, <4>4, <4>5
    <3> QED BY <3>2, <3>3
  <2>2. i \in 0 .. Most
    BY <1>1
  <2> HIDE DEF Known
  <2> QED BY <2>1, <2>2
<1>4. k \in P
  <2> HIDE DEF P
  <2>1. \A i \in 0 .. Most : i \in P
    BY <1>1, <1>2, <1>3, F!InductionUpTo
  <2> QED BY <2>1
<1> QED BY <1>4

LEMMA LeastIsEntry ==
  ASSUME Search, frontier # {}
  PROVE  /\ Least \in frontier /\ Least[1] \in Nat /\ Least[2] \in Reached
         /\ Least = <<Least[1], Least[2]>>
         /\ \A q \in frontier : Least[1] <= q[1]
<1>1. frontier \subseteq Nat \X (Grid \union {start})
  BY DEF Search, Queued, Tree
<1>2. Least \in frontier /\ \A q \in frontier : Least[1] <= q[1]
  BY <1>1, LeastEntry DEF Search, Arguments
<1>3. Least \in Nat \X Reached
  BY <1>2 DEF Search, Queued
<1> QED BY <1>2, <1>3

(* An open cell that comes up first does so with its cheapest entry, and   *)
(* no walk to it is shorter than what it costs.                            *)
LEMMA PopSettles ==
  ASSUME Search, GoalOpen, frontier # {}, Open(Least[2])
  PROVE  Least[1] = Key(Least[2]) /\ StepsAre(Least[2], cost_from_start[Least[2]])
<1> DEFINE c == Least[2]
           g(e) == cost_from_start[e]
           h(e) == Manhattan(e, goal)
<1>1. /\ Least \in frontier /\ Least[1] \in Nat /\ c \in Reached
      /\ \A q \in frontier : Least[1] <= q[1]
  BY LeastIsEntry
<1>2. Most \in Nat /\ \A e \in Reached : g(e) \in 0 .. Most /\ h(e) \in Nat
  <2>1. \A e \in Reached : e \in Int \X Int
    BY CellsAreIntegers DEF Search, Tree, Arguments
  <2> QED BY <2>1, ManhattanStep, MostIsNatural DEF Search, Tree
<1>3. \A e \in Reached : Open(e) => Least[1] <= Key(e) /\ Key(e) <= g(e) + h(e)
  <2>1. ASSUME NEW e \in Reached, Open(e)
        PROVE  Least[1] <= Key(e) /\ Key(e) <= g(e) + h(e)
    <3>1. <<Key(e), e>> \in frontier /\ <<Key(e), e>>[1] = Key(e)
      BY <2>1 DEF Open
    <3>2. Least[1] <= Key(e)
      BY <1>1, <3>1
    <3> QED BY <1>2, <3>2 DEF Key
  <2> QED BY <2>1
<1>4. Least[1] = Key(c)
  <2>1. Key(c) <= Least[1]
    BY <1>1 DEF Search, Queued
  <2>2. Least[1] <= Key(c)
    BY <1>1, <1>3
  <2>3. Key(c) \in Int
    BY <1>1, <1>2 DEF Key
  <2> QED BY <1>1, <2>1, <2>2, <2>3
<1>5. c \in Ball[g(c)]
  BY <1>1 DEF Search, Settled
<1>6. ASSUME g(c) > 0, c \in Ball[g(c) - 1]
      PROVE  FALSE
  <2> DEFINE k == g(c) - 1
  <2>1. k \in 0 .. Most /\ g(c) = k + 1
    BY <1>1, <1>2, <1>6
  <2>2. PICK e \in Reached : Open(e) /\ g(e) + h(e) <= k + h(c)
    <3>1. c \in Ball[k]
      BY <1>6
    <3> HIDE DEF k
    <3>2. \/ ~Open(c)
          \/ \E e \in Reached : /\ Open(e) /\ g(e) + h(e) <= k + h(c)
      BY <2>1, <3>1, ClosedOrAhead
    <3> QED BY <3>2
  <2>3. c # start
    BY <1>6 DEF Search, Tree
  <2>4. Least[1] = g(c) + h(c)
    BY <1>4, <2>3 DEF Key
  <2>5. Least[1] <= g(e) + h(e)
    <3>1. Least[1] <= Key(e) /\ Key(e) <= g(e) + h(e)
      BY <1>3, <2>2
    <3>2. Key(e) \in Int
      BY <1>2 DEF Key
    <3> QED BY <1>1, <1>2, <3>1, <3>2
  <2>6. /\ g(c) \in Nat /\ h(c) \in Nat /\ g(e) \in Nat /\ h(e) \in Nat /\ k \in Nat
    BY <1>1, <1>2, <2>1
  <2> HIDE DEF k, g, h
  <2> QED BY <2>1, <2>2, <2>4, <2>5, <2>6
<1>7. g(c) \in 0 .. Most
  BY <1>1, <1>2
<1> QED BY <1>4, <1>5, <1>6, <1>7 DEF StepsAre

(* One iteration, of the cells it improves. *)
Current == Least[2]
Tentative == cost_from_start[Current] + 1
Better == {n \in Neighbors(Current) : n \in Reached => Tentative < cost_from_start[n]}

LEMMA ExpandEffect ==
  ASSUME Expand
  PROVE  /\ UNCHANGED <<args, returned, result>> /\ ~returned
         /\ start # goal /\ frontier # {} /\ Current # goal
         /\ Reached' = Reached \union Better
         /\ \A n \in Reached' :
              cost_from_start'[n] = IF n \in Better THEN Tentative ELSE cost_from_start[n]
         /\ DOMAIN came_from' = DOMAIN came_from \union Better
         /\ \A n \in DOMAIN came_from' :
              came_from'[n] = IF n \in Better THEN Current ELSE came_from[n]
         /\ frontier' = (frontier \ {Least}) \union
                          {<<Tentative + Manhattan(n, goal), n>> : n \in Better}
<1>1. /\ UNCHANGED <<args, returned, result>> /\ ~returned
      /\ start # goal /\ frontier # {} /\ Current # goal
  BY DEF Expand, Current
<1>2. /\ came_from' = [n \in DOMAIN came_from \union Better |->
                         IF n \in Better THEN Current ELSE came_from[n]]
      /\ cost_from_start' = [n \in DOMAIN cost_from_start \union Better |->
                               IF n \in Better THEN Tentative ELSE cost_from_start[n]]
      /\ frontier' = (frontier \ {Least}) \union
                       {<<Tentative + Manhattan(n, goal), n>> : n \in Better}
  BY Zenon DEF Expand, Current, Tentative, Better, Reached
<1> QED BY <1>1, <1>2 DEF Reached

LEMMA BetterAreOpen ==
  ASSUME Search, GoalOpen, frontier # {}, Current # goal
  PROVE  /\ Current \in Reached /\ cost_from_start[Current] \in 0 .. Most
         /\ StepsAre(Current, cost_from_start[Current])
         /\ ~Open(Current) => Better = {}
         /\ \A n \in Better :
              /\ n # start /\ n # Current /\ n \in Grid /\ n \in Neighbors(Current)
              /\ n \in Reached => Tentative < cost_from_start[n] /\ Open(n)
<1>1. Current \in Reached /\ cost_from_start[Current] \in 0 .. Most
  BY LeastIsEntry DEF Search, Tree, Current
<1>2. StepsAre(Current, cost_from_start[Current])
  <2>1. CASE Open(Current)
    BY <2>1, PopSettles DEF Current
  <2>2. CASE ~Open(Current)
    BY <1>1, <2>2 DEF Search, Settled
  <2> QED BY <2>1, <2>2
<1>3. ASSUME ~Open(Current)
      PROVE  Better = {}
  <2>1. ASSUME NEW n \in Neighbors(Current)
        PROVE  n \in Reached /\ ~(Tentative < cost_from_start[n])
    <3>1. n \in Reached /\ cost_from_start[n] <= cost_from_start[Current] + 1
      BY <1>1, <1>3 DEF Search, Explored
    <3>2. cost_from_start[n] \in Nat /\ cost_from_start[Current] \in Nat
      BY <1>1, <3>1, MostIsNatural DEF Search, Tree
    <3> QED BY <3>1, <3>2 DEF Tentative
  <2> QED BY <2>1 DEF Better
<1>4. ASSUME NEW n \in Better
      PROVE  /\ n # start /\ n # Current /\ n \in Grid /\ n \in Neighbors(Current)
             /\ n \in Reached => Tentative < cost_from_start[n] /\ Open(n)
  <2>1. n \in Neighbors(Current) /\ n \in Grid /\ (n \in Reached => Tentative < cost_from_start[n])
    BY DEF Better, Neighbors
  <2>2. Tentative = cost_from_start[Current] + 1 /\ Tentative \in Nat \ {0} /\ Most \in Nat
    BY <1>1, MostIsNatural DEF Tentative
  <2>3. n # start
    <3>1. start \in Reached /\ cost_from_start[start] = 0
      BY DEF Search, Tree
    <3> QED BY <2>1, <2>2, <3>1
  <2>4. n # Current
    BY <1>1, <2>1, <2>2
  <2>5. ASSUME n \in Reached, ~Open(n)
        PROVE  FALSE
    <3>1. StepsAre(n, cost_from_start[n]) /\ cost_from_start[n] \in 0 .. Most
      BY <2>5 DEF Search, Settled, Tree
    <3>2. Tentative <= cost_from_start[n] - 1 /\ cost_from_start[n] > 0
      BY <2>1, <2>2, <2>5, <3>1
    <3>3. /\ cost_from_start[Current] \in 0 .. Most - 1
          /\ Tentative \in 0 .. Most /\ cost_from_start[n] - 1 \in 0 .. Most
      BY <1>1, <2>2, <3>1, <3>2
    <3>4. n \in Ball[Tentative]
      BY <1>2, <2>1, <2>2, <3>3, BallWidens DEF StepsAre
    <3>5. n \in Ball[cost_from_start[n] - 1]
      BY <3>2, <3>3, <3>4, BallGrows
    <3> QED BY <3>1, <3>2, <3>5 DEF StepsAre
  <2> QED BY <2>1, <2>3, <2>4, <2>5
<1> QED BY <1>1, <1>2, <1>3, <1>4

(* What is open after it. *)
LEMMA OpenAfter ==
  ASSUME Search, GoalOpen, Expand
  PROVE  /\ \A n \in Better : Open(n)' /\ Key(n)' = Tentative + Manhattan(n, goal)
         /\ \A c \in Reached \ Better : /\ Key(c)' = Key(c)
                                        /\ Open(c)' <=> Open(c) /\ c # Current
<1>1. start' = start /\ goal' = goal /\ \A c : Manhattan(c, goal)' = Manhattan(c, goal)
  BY ExpandEffect DEF args, Manhattan, Distance
<1>2. ASSUME NEW n \in Better
      PROVE  Open(n)' /\ Key(n)' = Tentative + Manhattan(n, goal)
  <2>1. n # start /\ n \in Reached' /\ cost_from_start'[n] = Tentative
    BY BetterAreOpen, ExpandEffect
  <2>2. Key(n)' = Tentative + Manhattan(n, goal)
    BY <1>1, <2>1 DEF Key
  <2>3. <<Tentative + Manhattan(n, goal), n>> \in frontier'
    BY ExpandEffect
  <2> QED BY <2>2, <2>3 DEF Open
<1>3. ASSUME NEW c \in Reached \ Better
      PROVE  Key(c)' = Key(c) /\ (Open(c)' <=> Open(c) /\ c # Current)
  <2>1. c \in Reached' /\ cost_from_start'[c] = cost_from_start[c]
    BY ExpandEffect
  <2>2. Key(c)' = Key(c)
    BY <1>1, <2>1 DEF Key
  <2>3. <<Key(c), c>> \in frontier' <=> <<Key(c), c>> \in frontier /\ <<Key(c), c>> # Least
    BY ExpandEffect
  <2>4. Least = <<Least[1], Current>>
    BY LeastIsEntry, ExpandEffect DEF Current
  <2>5. CASE c = Current
    <3>1. Open(Current) => Least = <<Key(c), c>>
      BY <2>4, <2>5, ExpandEffect, PopSettles DEF Current
    <3> QED BY <2>2, <2>3, <2>5, <3>1 DEF Open
  <2>6. CASE c # Current
    <3>1. <<Key(c), c>> # Least
      BY <2>4, <2>6
    <3> QED BY <2>2, <2>3, <2>6, <3>1 DEF Open
  <2> QED BY <2>2, <2>5, <2>6
<1> QED BY <1>2, <1>3

LEMMA ExpandTree ==
  ASSUME Search, GoalOpen, Expand
  PROVE  Tree'
<1> DEFINE g == cost_from_start'
<1>1. /\ Reached' = Reached \union Better /\ start' = start
      /\ \A c : Neighbors(c)' = Neighbors(c)
  BY ExpandEffect DEF args, Neighbors, Grid
<1>2. /\ Current \in Reached /\ Current \notin Better /\ start \notin Better
      /\ Better \subseteq Grid /\ start \in Reached
      /\ cost_from_start[Current] \in Nat
      /\ \A n \in Better : n \in Neighbors(Current)
      /\ \A n \in Better \intersect Reached : Open(n)
  BY BetterAreOpen, ExpandEffect, MostIsNatural DEF Search, Tree
<1>3. /\ \A n \in Better : g[n] = Tentative /\ g[n] = g[Current] + 1
      /\ \A n \in Reached \ Better : g[n] = cost_from_start[n]
  BY <1>1, <1>2, ExpandEffect DEF Tentative
<1>4. Reached' \subseteq Grid \union {start} /\ start \in Reached' /\ g[start] = 0
  BY <1>1, <1>2, <1>3 DEF Search, Tree
<1>5. DOMAIN came_from' = Reached' \ {start}
  BY <1>1, <1>2, ExpandEffect DEF Search, Tree
<1>6. ASSUME NEW c \in Reached' \ {start}
      PROVE  /\ came_from'[c] \in Reached /\ c \in Neighbors(came_from'[c])
             /\ g[c] = g[came_from'[c]] + 1
  <2>1. CASE c \in Better
    BY <1>2, <1>3, <1>5, <2>1, ExpandEffect
  <2>2. CASE c \notin Better
    <3>1. c \in Reached \ {start} /\ came_from'[c] = came_from[c]
      BY <1>1, <1>5, <2>2, ExpandEffect
    <3>2. /\ came_from[c] \in Reached /\ ~Open(came_from[c]) /\ c \in Neighbors(came_from[c])
          /\ cost_from_start[c] = cost_from_start[came_from[c]] + 1
      BY <3>1 DEF Search, Tree, FromClosed
    <3>3. came_from[c] \notin Better
      BY <1>2, <3>2
    <3> QED BY <1>3, <2>2, <3>1, <3>2, <3>3
  <2> QED BY <2>1, <2>2
<1>7. \A c \in Reached' : g[c] \in 0 .. Most
  <2>1. ASSUME NEW c \in Reached'
        PROVE  g[c] \in Nat /\ (g[c] = 0 \/ \E b \in Reached' : g[c] = g[b] + 1)
    <3>1. g[c] \in Nat
      BY <1>1, <1>2, <1>3, <2>1, MostIsNatural DEF Search, Tree, Tentative
    <3>2. CASE c = start
      BY <1>4, <3>1, <3>2
    <3>3. CASE c # start
      BY <1>1, <1>6, <3>1, <3>3
    <3> QED BY <3>2, <3>3
  <2> HIDE DEF g
  <2> QED BY <1>4, <2>1, CostsAreBounded
<1>8. Most' = Most /\ Grid' = Grid
  BY DEF Most, Grid
<1> QED BY <1>1, <1>4, <1>5, <1>6, <1>7, <1>8 DEF Tree

LEMMA ExpandKeeps ==
  ASSUME Search, GoalOpen, Expand
  PROVE  Search' /\ GoalOpen'
<1> DEFINE g == cost_from_start
           k == cost_from_start[Current]
<1>1. /\ Reached' = Reached \union Better
      /\ start' = start /\ goal' = goal /\ Ball' = Ball /\ Most' = Most
      /\ \A c : Neighbors(c)' = Neighbors(c)
  <2>1. UNCHANGED args
    BY ExpandEffect
  <2> QED BY <2>1, BallStays, ExpandEffect DEF args, Neighbors, Grid, Most
<1>2. /\ Current \in Reached /\ Current # goal /\ k \in 0 .. Most /\ Tentative = k + 1
      /\ StepsAre(Current, k)
      /\ ~Open(Current) => Better = {}
      /\ \A n \in Better : n # start /\ n # Current /\ n \in Grid /\ n \in Neighbors(Current)
      /\ \A n \in Better : n \in Reached => Tentative < g[n] /\ Open(n)
  BY BetterAreOpen, ExpandEffect DEF Tentative
<1>3. /\ \A n \in Better : g'[n] = Tentative
      /\ \A c \in Reached \ Better : g'[c] = g[c]
      /\ \A c \in Reached : g'[c] <= g[c] /\ g[c] \in Nat
      /\ \A c \in Reached' : g'[c] \in 0 .. Most
  <2>1. /\ \A n \in Better : g'[n] = Tentative
        /\ \A c \in Reached \ Better : g'[c] = g[c]
    BY <1>1, ExpandEffect
  <2>2. \A c \in Reached : g[c] \in Nat
    BY MostIsNatural DEF Search, Tree
  <2>3. \A c \in Reached' : g'[c] \in 0 .. Most
    BY <1>1, ExpandTree DEF Tree
  <2>4. ASSUME NEW c \in Reached
        PROVE  g'[c] <= g[c]
    BY <1>2, <2>1, <2>2
  <2> QED BY <2>1, <2>2, <2>3, <2>4
<1>4. /\ \A n \in Better : Open(n)'
      /\ \A c \in Reached \ Better : Open(c)' <=> Open(c) /\ c # Current
  BY OpenAfter
<1> HIDE DEF g, k
<1>5. Arguments'
  BY <1>1 DEF Search, Arguments
<1>6. Queued'
  <2>1. ASSUME NEW p \in frontier'
        PROVE  p \in Nat \X Reached' /\ Key(p[2])' <= p[1]
    <3>1. CASE p \in frontier
      <4>1. p \in Nat \X Reached /\ Key(p[2]) <= p[1]
        BY <3>1 DEF Search, Queued
      <4>2. CASE p[2] \in Better
        <5>1. /\ Key(p[2])' = Tentative + Manhattan(p[2], goal)
              /\ Tentative < g[p[2]] /\ p[2] # start
          BY <1>2, <4>1, <4>2, OpenAfter
        <5>2. Key(p[2]) = g[p[2]] + Manhattan(p[2], goal)
          BY <5>1 DEF Key, g
        <5>3. Manhattan(p[2], goal) \in Nat
          BY <1>2, <4>2, CellsAreIntegers, ManhattanStep DEF Search
        <5>4. Key(p[2])' <= p[1]
          <6> DEFINE h == Manhattan(p[2], goal)
                     a == g[p[2]]
          <6>1. a \in Nat /\ h \in Nat /\ Tentative \in Nat /\ p[1] \in Nat
            BY <1>2, <1>3, <4>1, <5>3
          <6>2. Key(p[2])' = Tentative + h /\ Tentative < a /\ a + h <= p[1]
            BY <4>1, <5>1, <5>2
          <6> HIDE DEF a, h
          <6> QED BY <6>1, <6>2
        <5> QED BY <1>1, <4>1, <5>4
      <4>3. CASE p[2] \notin Better
        <5>1. Key(p[2])' = Key(p[2])
          BY <4>1, <4>3, OpenAfter
        <5> QED BY <1>1, <4>1, <5>1
      <4> QED BY <4>2, <4>3
    <3>2. CASE p \notin frontier
      <4>1. PICK n \in Better : p = <<Tentative + Manhattan(n, goal), n>>
        BY <3>2, ExpandEffect
      <4>2. Manhattan(n, goal) \in Nat
        BY <1>2, CellsAreIntegers, ManhattanStep DEF Search
      <4>3. Key(n)' = Tentative + Manhattan(n, goal)
        BY OpenAfter
      <4> QED BY <1>1, <1>2, <4>1, <4>2, <4>3
    <3> QED BY <3>1, <3>2
  <2> QED BY <2>1 DEF Queued
<1>7. FromClosed'
  <2>1. ASSUME NEW c \in Reached' \ {start}, NEW b, b = came_from'[c]
        PROVE  ~Open(b)'
    <3>1. c \in DOMAIN came_from'
      BY <1>1, ExpandTree, <2>1 DEF Tree
    <3>2. CASE c \in Better
      <4>1. b = Current /\ Current \in Reached \ Better
        BY <1>2, <2>1, <3>1, <3>2, ExpandEffect
      <4> QED BY <1>4, <4>1
    <3>3. CASE c \notin Better
      <4>1. c \in Reached \ {start} /\ b = came_from[c]
        BY <1>1, <2>1, <3>1, <3>3, ExpandEffect
      <4>2. b \in Reached /\ ~Open(b)
        BY <4>1 DEF Search, Tree, FromClosed
      <4> QED BY <1>2, <1>4, <4>2
    <3> QED BY <3>2, <3>3
  <2>2. \A c \in Reached' \ {start} : ~Open(came_from[c])'
    BY <2>1 DEF Open, Key
  <2> QED BY <1>1, <2>2 DEF FromClosed
<1>8. Settled'
  <2>1. \A c, j : StepsAre(c, j)' <=> StepsAre(c, j)
    BY <1>1 DEF StepsAre
  <2>2. ASSUME NEW c \in Reached'
        PROVE  c \in Ball[g'[c]] /\ (~Open(c)' => StepsAre(c, g'[c]))
    <3>1. CASE c \in Better
      <4>1. Open(c)' /\ g'[c] = k + 1 /\ g'[c] \in 0 .. Most
        BY <1>2, <1>3, <1>4, <2>2, <3>1
      <4>2. k \in 0 .. Most - 1 /\ Current \in Ball[k]
        BY <1>2, <4>1, MostIsNatural DEF StepsAre
      <4>3. c \in Ball[k + 1]
        BY <1>2, <3>1, <4>2, BallWidens
      <4> QED BY <4>1, <4>3
    <3>2. CASE c \notin Better
      <4>1. c \in Reached /\ g'[c] = g[c] /\ (Open(c)' <=> Open(c) /\ c # Current)
        BY <1>1, <1>3, <1>4, <3>2
      <4>2. c \in Ball[g[c]] /\ (~Open(c) => StepsAre(c, g[c]))
        BY <4>1 DEF Search, Settled, g
      <4>3. StepsAre(Current, g[Current])
        BY <1>2 DEF g, k
      <4> QED BY <4>1, <4>2, <4>3
    <3> QED BY <3>1, <3>2
  <2> QED BY <1>1, <2>1, <2>2 DEF Settled, g
<1>9. Explored'
  <2>1. ASSUME NEW c \in Reached', ~Open(c)', c # goal, NEW n \in Neighbors(c)
        PROVE  n \in Reached' /\ g'[n] <= g'[c] + 1
    <3>1. c \in Reached \ Better /\ g'[c] = g[c] /\ (Open(c) => c = Current)
      BY <1>1, <1>3, <1>4, <2>1
    <3>2. CASE c = Current
      <4>1. g'[c] = k /\ k \in Nat
        BY <1>2, <1>3, <3>1, <3>2 DEF g, k
      <4>2. CASE n \in Better
        BY <1>1, <1>2, <1>3, <4>1, <4>2
      <4>3. CASE n \notin Better
        <5>1. n \in Reached /\ ~(Tentative < g[n])
          BY <2>1, <3>2, <4>3 DEF Better, g
        <5>2. g[n] \in Nat /\ g'[n] = g[n]
          BY <1>3, <4>3, <5>1
        <5> QED BY <1>1, <1>2, <4>1, <5>1, <5>2
      <4> QED BY <4>2, <4>3
    <3>3. CASE c # Current
      <4>1. n \in Reached /\ g[n] <= g[c] + 1
        BY <2>1, <3>1, <3>3 DEF Search, Explored, g
      <4>2. g'[n] <= g[n] /\ g[n] \in Nat /\ g[c] \in Nat /\ g'[n] \in Nat
        BY <1>1, <1>3, <3>1, <4>1, MostIsNatural
      <4> QED BY <1>1, <3>1, <4>1, <4>2
    <3> QED BY <3>2, <3>3
  <2> QED BY <1>1, <2>1 DEF Explored, g
<1>10. GoalOpen'
  <2>1. ASSUME goal \in Reached'
        PROVE  Open(goal)'
    <3>1. CASE goal \in Better
      BY <1>1, <1>4, <3>1 DEF Open, Key, Manhattan
    <3>2. CASE goal \notin Better
      <4>1. goal \in Reached \ Better /\ Open(goal)
        BY <1>1, <2>1, <3>2 DEF GoalOpen
      <4> QED BY <1>1, <1>2, <1>4, <4>1 DEF Open, Key, Manhattan
    <3> QED BY <3>1, <3>2
  <2> QED BY <1>1, <2>1 DEF GoalOpen
<1> QED BY <1>5, <1>6, <1>7, <1>8, <1>9, <1>10, ExpandTree DEF Search

LEMMA FoundKeeps ==
  ASSUME Search, GoalOpen, Found
  PROVE  Search' /\ ReturnsShortestPath' /\ NoneMeansUnreachable'
<1>1. /\ frontier # {} /\ Least[2] = goal /\ start # goal
      /\ frontier' = frontier \ {Least} /\ returned' /\ result' = RebuildPath(goal)
      /\ UNCHANGED <<start, goal, blocked, came_from, cost_from_start>>
  BY DEF Found, args, trees
<1>2. goal \in Reached /\ Open(goal) /\ Least = <<Key(goal), goal>>
      /\ StepsAre(goal, cost_from_start[goal])
  <2>1. goal \in Reached /\ Least = <<Least[1], goal>>
    BY <1>1, LeastIsEntry
  <2>2. Open(goal)
    BY <2>1 DEF GoalOpen
  <2>3. Least[1] = Key(goal) /\ StepsAre(goal, cost_from_start[goal])
    BY <1>1, <2>2, PopSettles
  <2> QED BY <2>1, <2>2, <2>3
<1>3. /\ Reached' = Reached /\ Ball' = Ball
      /\ \A c : Key(c)' = Key(c) /\ Neighbors(c)' = Neighbors(c)
      /\ \A c, k : StepsAre(c, k)' <=> StepsAre(c, k)
  <2>1. Ball' = Ball
    BY <1>1, BallStays DEF args
  <2> QED BY <1>1, <2>1 DEF Reached, Key, Manhattan, Neighbors, Grid, StepsAre
<1>4. \A c : Open(c)' <=> Open(c) /\ c # goal
  BY <1>1, <1>2, <1>3 DEF Open
<1>5. Search'
  <2>1. Arguments' /\ Tree'
    BY <1>1, <1>3 DEF Search, Arguments, Tree, Reached, Grid, Most
  <2>2. Queued'
    BY <1>1, <1>3 DEF Search, Queued
  <2>3. FromClosed'
    <3>1. \A c \in Reached \ {start} : ~Open(came_from[c])
      BY DEF Search, FromClosed
    <3>2. \A c \in Reached \ {start} : ~(Open(came_from[c])')
      BY <1>1, <1>3, <3>1 DEF Open, Key
    <3> QED BY <1>1, <1>3, <3>2 DEF FromClosed
  <2>4. Settled'
    BY <1>1, <1>2, <1>3, <1>4 DEF Search, Settled
  <2>5. Explored'
    BY <1>1, <1>3, <1>4 DEF Search, Explored
  <2> QED BY <2>1, <2>2, <2>3, <2>4, <2>5 DEF Search
<1>6. Walk(result', goal)
  BY <1>1, <1>2, Rebuilds DEF Search
<1>7. cost_from_start[goal] \in Nat
  BY <1>2, MostIsNatural DEF Search, Tree
<1>8. NoneMeansUnreachable'
  <2>1. result' # << >>
    BY <1>6, <1>7 DEF Walk
  <2> QED BY <2>1 DEF NoneMeansUnreachable, NoPath
<1>9. ReturnsShortestPath'
  <2>1. Len(result') - 1 = cost_from_start[goal]
    BY <1>6, <1>7 DEF Walk
  <2>2. \A k : k = cost_from_start[goal] => StepsAre(goal, k)'
    BY <1>1, <1>2, <1>3 DEF StepsAre
  <2>3. StepsAre(goal, Len(result) - 1)'
    BY <2>1, <2>2 DEF StepsAre
  <2>4. /\ result'[1] = start' /\ result'[Len(result')] = goal'
        /\ \A i \in 1 .. Len(result') - 1 : result'[i + 1] \in Neighbors(result'[i])
    BY <1>1, <1>6 DEF Walk
  <2>5. (\A i \in 1 .. Len(result) - 1 : result[i + 1] \in Neighbors(result[i]))'
    <3>1. ASSUME NEW i \in 1 .. Len(result') - 1, NEW c, c = result'[i]
          PROVE  result'[i + 1] \in Neighbors(c)'
      BY <1>3, <2>4, <3>1
    <3> QED BY <3>1, Zenon DEF Neighbors
  <2> QED BY <2>3, <2>4, <2>5 DEF ReturnsShortestPath
<1> QED BY <1>5, <1>8, <1>9

(* A step that leaves the search as it is. *)
LEMMA SearchStays ==
  ASSUME Search, UNCHANGED <<args, frontier, trees>>
  PROVE  Search' /\ (GoalOpen' <=> GoalOpen)
<1>1. UNCHANGED <<start, goal, blocked, frontier, came_from, cost_from_start>>
  BY DEF args, trees
<1>2. Ball' = Ball
  BY <1>1, BallStays DEF args
<1>3. /\ \A c : Neighbors(c)' = Neighbors(c) /\ (Open(c)' <=> Open(c)) /\ Key(c)' = Key(c)
      /\ \A c, k : StepsAre(c, k)' <=> StepsAre(c, k)
      /\ Reached' = Reached
  BY <1>1, <1>2 DEF Neighbors, Grid, Open, Key, Manhattan, StepsAre, Reached
<1>4. Arguments' /\ Tree' /\ Queued' /\ (GoalOpen' <=> GoalOpen)
  <2>1. Arguments' /\ Tree'
    BY <1>1, <1>3 DEF Search, Arguments, Tree, Grid, Most
  <2>2. Queued'
    BY <1>1, <1>3 DEF Search, Queued
  <2>3. GoalOpen' <=> GoalOpen
    BY <1>1, <1>3 DEF GoalOpen, Open, Key, Manhattan
  <2> QED BY <2>1, <2>2, <2>3
<1>5. FromClosed'
  BY <1>1, <1>3 DEF Search, FromClosed, Open, Key, Manhattan
<1>6. Settled' /\ Explored'
  BY <1>1, <1>2, <1>3 DEF Search, Settled, Explored
<1> QED BY <1>4, <1>5, <1>6 DEF Search

LEMMA SearchInit ==
  ASSUME Init
  PROVE  SearchSound
<1>1. /\ start \in Int \X Int /\ goal \in Int \X Int
      /\ frontier = {<<0, start>>} /\ DOMAIN came_from = {}
      /\ Reached = {start} /\ cost_from_start[start] = 0 /\ ~returned
  BY CellsAssumption DEF Init, Reached
<1>2. Key(start) = 0 /\ Open(start) /\ 0 \in Nat /\ 0 \in 0 .. Most
  BY <1>1, MostIsNatural DEF Key, Open
<1>3. Search
  <2>1. Arguments /\ Tree /\ Queued /\ FromClosed /\ Explored
    BY <1>1, <1>2 DEF Arguments, Tree, Queued, FromClosed, Explored
  <2>2. Settled
    BY <1>1, <1>2, Balls DEF Settled
  <2> QED BY <2>1, <2>2 DEF Search
<1>4. GoalOpen
  BY <1>1, <1>2 DEF GoalOpen
<1>5. ReturnsShortestPath /\ NoneMeansUnreachable
  BY <1>1 DEF ReturnsShortestPath, NoneMeansUnreachable
<1> QED BY <1>3, <1>4, <1>5 DEF SearchSound

LEMMA SearchNext ==
  ASSUME SearchSound, [Next]_vars
  PROVE  SearchSound'
<1>1. CASE AlreadyThere
  <2>1. /\ start = goal /\ returned' /\ result' = <<start>>
        /\ UNCHANGED <<args, frontier, trees>> /\ UNCHANGED <<start, goal>>
    BY <1>1 DEF AlreadyThere, args
  <2>2. Search' /\ Ball' = Ball
    BY <2>1, SearchStays, BallStays DEF SearchSound
  <2>3. Len(result') = 1 /\ result'[1] = start /\ result' # << >>
    BY <2>1
  <2>4. StepsAre(goal, 0)'
    BY <2>1, <2>2, Balls DEF StepsAre
  <2>5. ReturnsShortestPath' /\ NoneMeansUnreachable'
    BY <2>1, <2>3, <2>4 DEF ReturnsShortestPath, NoneMeansUnreachable, NoPath
  <2> QED BY <2>1, <2>2, <2>5 DEF SearchSound
<1>2. CASE Found
  <2>1. Search /\ GoalOpen /\ returned'
    BY <1>2 DEF Found, SearchSound
  <2> QED BY <1>2, <2>1, FoundKeeps DEF SearchSound
<1>3. CASE Expand
  <2>1. Search /\ GoalOpen /\ ~returned'
    BY <1>3, ExpandEffect DEF SearchSound
  <2>2. ReturnsShortestPath' /\ NoneMeansUnreachable'
    BY <2>1 DEF ReturnsShortestPath, NoneMeansUnreachable
  <2> QED BY <1>3, <2>1, <2>2, ExpandKeeps DEF SearchSound
<1>4. CASE Drained
  <2>1. /\ frontier = {} /\ returned' /\ result' = NoPath /\ Search /\ GoalOpen
        /\ UNCHANGED <<args, frontier, trees>> /\ goal' = goal
    BY <1>4 DEF Drained, SearchSound, args
  <2>2. Search' /\ Ball' = Ball
    BY <2>1, SearchStays, BallStays
  <2>3. goal \notin Ball[Most]
    <3>1. SUFFICES ASSUME goal \in Ball[Most] PROVE FALSE
      OBVIOUS
    <3>2. Most \in 0 .. Most
      BY MostIsNatural
    <3>3. \A c : ~Open(c)
      BY <2>1 DEF Open
    <3>4. goal \in Reached
      BY <2>1, <3>1, <3>2, <3>3, ClosedOrAhead
    <3> QED BY <2>1, <3>3, <3>4 DEF GoalOpen
  <2>4. ReturnsShortestPath' /\ NoneMeansUnreachable'
    BY <2>1, <2>2, <2>3 DEF ReturnsShortestPath, NoneMeansUnreachable, Reachable, Most
  <2> QED BY <2>1, <2>2, <2>4 DEF SearchSound
<1>5. CASE UNCHANGED vars
  <2>1. UNCHANGED <<args, frontier, trees, returned, result>> /\ UNCHANGED args
        /\ UNCHANGED <<start, goal, blocked>>
    BY <1>5 DEF vars, args, trees
  <2>2. Search' /\ (GoalOpen' <=> GoalOpen) /\ Ball' = Ball
    BY <2>1, SearchStays, BallStays DEF SearchSound
  <2>3. ReturnsShortestPath'
    BY <2>1, <2>2 DEF SearchSound, ReturnsShortestPath, StepsAre, Neighbors, Grid
  <2>4. NoneMeansUnreachable'
    BY <2>1, <2>2 DEF SearchSound, NoneMeansUnreachable, Reachable
  <2> QED BY <2>1, <2>2, <2>3, <2>4 DEF SearchSound
<1> QED BY <1>1, <1>2, <1>3, <1>4, <1>5 DEF Next

(* A* on any grid, from any cell to any other around any mountains         *)
(* (pathfinding.py's find_path): the path returned is a shortest one, none *)
(* is returned only when there is none, and every cell whose entries have  *)
(* left the heap costs what its shortest walk does.                        *)
THEOREM ShortestPathsAreFound == Spec => []FindsShortestPath
<1>1. Init => SearchSound
  BY SearchInit
<1>2. SearchSound /\ [Next]_vars => SearchSound'
  BY SearchNext
<1>3. SearchSound => FindsShortestPath
  <2>1. ASSUME Settled, NEW c \in DOMAIN cost_from_start, ~InFrontier(c)
        PROVE  StepsAre(c, cost_from_start[c])
    <3>1. ~Open(c)
      BY <2>1 DEF InFrontier, Open
    <3> QED BY <2>1, <3>1 DEF Settled, Reached
  <2> QED BY <2>1 DEF SearchSound, Search, FindsShortestPath, PoppedIsSettled
<1> QED BY <1>1, <1>2, <1>3, PTL DEF Spec
=============================================================================
