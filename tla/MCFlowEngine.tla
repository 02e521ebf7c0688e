---------------------------- MODULE MCFlowEngine ----------------------------
(* The diagram of the code; the push to the browser takes twice as long as *)
(* any other edge, and one packet saturates an edge.                       *)
EXTENDS FlowEngine

MCDur == [e \in Edge |-> IF e = "e_ws_push" THEN 2 ELSE 1]
MCEventTypes ==
  {"RESPONDER_MOVED", "FIRE_CREATED", "SIGNAL_LOST", "RESPONDER_RECONNECTED", "ROUTE_NOT_FOUND"}
=============================================================================
