------------------------------ MODULE MCConsole ------------------------------
(* Four events in a store that retains two; the mission is the list of the *)
(* events folded in, cut at a length no run of the code reaches.           *)
EXTENDS Console

MCMission == UNION {[1 .. n -> 1 .. 4] : n \in 0 .. 5}
MCFirstMission == << >>
MCLog == [i \in 1 .. 4 |-> [id |-> i]]
MCReduce(m, e) == IF Len(m) = 5 THEN m ELSE Append(m, e.id)
=============================================================================
