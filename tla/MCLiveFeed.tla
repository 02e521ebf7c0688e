------------------------------ MODULE MCLiveFeed ------------------------------
(* Two missions, of one event and of two, visited one after the other; a   *)
(* mission is its id and the events folded into it, cut at a length no run *)
(* of the code reaches.                                                    *)
EXTENDS LiveFeed

MCMissionOf == [v \in Visits |-> v]
MCFirstMission(m) == [mission_id |-> m, events |-> << >>]
MCLog == [m \in Missions |-> [i \in 1 .. m |-> [id |-> <<m, i>>]]]
MCState(m) ==
  [mission_id : {m}, events : UNION {[1 .. n -> {m} \X (1 .. m)] : n \in 0 .. 4}]
MCReduce(s, e) == IF Len(s.events) = 4 THEN s ELSE [s EXCEPT !.events = Append(@, e.id)]
=============================================================================
