------------------------- MODULE MCSimulationWorker -------------------------
(* A responder one move away from the fires, which are counted, since each *)
(* attempt draws a new id; no run reaches five.  The bodies are those of   *)
(* the code's events.                                                      *)
EXTENDS SimulationWorker

MCWorld ==
  [fires : 0 .. 5, status : {"idle", "moving", "fighting_fire"}, routed : BOOLEAN,
   path_index : 0 .. 1]
MCBody ==
  {"FIRE_CREATED", "RESPONDER_DISPATCHED", "RESPONDER_PATH_ASSIGNED", "RESPONDER_MOVED"}
MCFirstWorld == [fires |-> 0, status |-> "idle", routed |-> FALSE, path_index |-> 0]

MCHandle(w, c) ==
  CASE c = "PLACE_FIRE" -> <<"FIRE_CREATED">>
    [] c = "DISPATCH_RESPONDER" /\ w.fires > 0 ->
         <<"RESPONDER_DISPATCHED", "RESPONDER_PATH_ASSIGNED">>
    [] OTHER -> << >>

MCTickBodies(w) ==
  IF w.status = "moving" /\ w.routed /\ w.path_index = 0 THEN <<"RESPONDER_MOVED">> ELSE << >>

MCApply(w, b) ==
  CASE b = "FIRE_CREATED" -> [w EXCEPT !.fires = Min({@ + 1, 5})]
    [] b = "RESPONDER_DISPATCHED" -> [w EXCEPT !.status = "moving"]
    [] b = "RESPONDER_PATH_ASSIGNED" -> [w EXCEPT !.status = "moving", !.routed = TRUE, !.path_index = 0]
    [] b = "RESPONDER_MOVED" -> [w EXCEPT !.status = "fighting_fire", !.path_index = 1]

MCCommand == {"PLACE_FIRE", "DISPATCH_RESPONDER"}
=============================================================================
