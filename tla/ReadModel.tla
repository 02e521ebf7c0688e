------------------------------ MODULE ReadModel ------------------------------
(***************************************************************************)
(* services/projection_service.py: what apply_event does to the current-   *)
(* state tables of one mission, one alternative per handler, and what the  *)
(* handlers and the constraints of the tables refuse.                      *)
(*                                                                         *)
(* The tables are a record: fires and responders by id, the mountain cells *)
(* and the cell of mission control.  outbox holds the responder of each    *)
(* upload's rows in responder_local_outbox, which the simulation worker    *)
(* writes and nothing deletes; it matters here for its foreign key.        *)
(***************************************************************************)
EXTENDS Naturals, Sequences

CONSTANT Spawn

NoTables == << >>               \* no missions row
NoFireRow == 0                  \* assigned_fire_id is NULL

(* create_mission_rows, the write-through of POST /missions, and the same  *)
(* rows inserted by _mission_created when it finds none.                   *)
MissionRows ==
  [control |-> Spawn, cells |-> {}, fires |-> << >>, responders |-> << >>, outbox |-> << >>]

Insert(table, id, row) ==
  [i \in DOMAIN table \union {id} |-> IF i = id THEN row ELSE table[i]]

OfResponder ==
  {"RESPONDER_DISPATCHED", "RESPONDER_PATH_ASSIGNED", "RESPONDER_MOVED", "SIGNAL_LOST",
   "SIGNAL_RESTORED", "ROUTE_NOT_FOUND", "RESPONDER_RECONNECTED",
   "RESPONDER_POSITION_RECONCILED"}
OfFire == {"FIRE_INTENSITY_CHANGED", "FIRE_EXTINGUISHED"}

(* Fault: a mountain can only be removed from a cell that has one. *)
AcceptsRemovalOnce(t, e) ==
  IF t = NoTables THEN e.type = "MISSION_CREATED"
  ELSE
    /\ e.type \in OfResponder => e.responder \in DOMAIN t.responders
    /\ e.type = "MOUNTAIN_PLACED" => e.cell \notin t.cells
    /\ e.type = "MOUNTAIN_REMOVED" => e.cell \in t.cells

(* db.get returns None for a missing row, and the handler fails on it; a   *)
(* mountain cell is unique; an assigned fire exists and, while assigned,   *)
(* is not deleted; a responder with outbox rows is not deleted.            *)
Accepts(t, e) ==
  IF t = NoTables THEN e.type = "MISSION_CREATED"
  ELSE
    /\ e.type \in OfResponder => e.responder \in DOMAIN t.responders
    /\ e.type \in OfFire => e.fire \in DOMAIN t.fires
    /\ e.type = "FIRE_CREATED" => e.fire \notin DOMAIN t.fires
    /\ e.type = "RESPONDER_CREATED" => e.responder \notin DOMAIN t.responders
    /\ e.type = "MOUNTAIN_PLACED" => e.cell \notin t.cells
    /\ e.type = "RESPONDER_DISPATCHED" => e.fire \in DOMAIN t.fires
    /\ e.type = "MISSION_RESET" =>
         /\ \A r \in DOMAIN t.responders : t.responders[r].assigned_fire = NoFireRow
         /\ \A i \in DOMAIN t.outbox : t.outbox[i] \notin DOMAIN t.responders

(* The row of the event's responder, or of its fire, after the handler. *)
ResponderRow(u, e) ==
  CASE e.type = "RESPONDER_DISPATCHED" ->
         [u EXCEPT !.assigned_fire = e.fire, !.status = "moving"]
    [] e.type = "RESPONDER_PATH_ASSIGNED" ->
         [u EXCEPT !.path = e.path, !.path_index = 0, !.status = "moving"]
    [] e.type = "RESPONDER_MOVED" ->
         [u EXCEPT !.at = e.position, !.last_known = e.last_known,
                   !.path_index = e.path_index, !.status = e.status,
                   !.signal_status = e.signal_status]
    [] e.type = "SIGNAL_LOST" ->
         [u EXCEPT !.signal_status = "blocked", !.last_known = e.last_known]
    [] e.type = "SIGNAL_RESTORED" ->
         [u EXCEPT !.signal_status = "connected", !.last_known = e.position]
    [] e.type = "ROUTE_NOT_FOUND" ->
         [u EXCEPT !.assigned_fire = NoFireRow, !.path = << >>, !.status = "idle"]
    [] e.type = "RESPONDER_RECONNECTED" ->
         [u EXCEPT !.signal_status = "connected"]
    [] e.type = "RESPONDER_POSITION_RECONCILED" ->
         [u EXCEPT !.at = e.position, !.last_known = e.position]

FireRow(f, e) ==
  IF e.type = "FIRE_INTENSITY_CHANGED"
  THEN [f EXCEPT !.intensity = e.intensity, !.status = e.status]
  ELSE [f EXCEPT !.intensity = 0, !.status = "extinguished"]

Apply(t, e) ==
  IF e.type = "MISSION_CREATED" THEN IF t = NoTables THEN MissionRows ELSE t
  ELSE IF e.type \in OfResponder
  THEN [t EXCEPT !.responders[e.responder] = ResponderRow(@, e)]
  ELSE IF e.type \in OfFire
  THEN [t EXCEPT !.fires[e.fire] = FireRow(@, e)]
  ELSE CASE e.type = "FIRE_CREATED" -> [t EXCEPT !.fires = Insert(@, e.fire, e.row)]
         [] e.type = "RESPONDER_CREATED" ->
              [t EXCEPT !.responders = Insert(@, e.responder, e.row)]
         [] e.type = "MOUNTAIN_PLACED" -> [t EXCEPT !.cells = @ \union {e.cell}]
         [] e.type = "MOUNTAIN_REMOVED" -> [t EXCEPT !.cells = @ \ {e.cell}]
         [] e.type = "MISSION_CONTROL_MOVED" -> [t EXCEPT !.control = e.cell]
         [] e.type = "MISSION_RESET" ->
              [t EXCEPT !.fires = << >>, !.responders = << >>, !.cells = {},
                        !.control = e.cell]
=============================================================================
