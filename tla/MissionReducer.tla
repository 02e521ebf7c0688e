--------------------------- MODULE MissionReducer ---------------------------
(***************************************************************************)
(* The reducer of web store/missionStore.ts: what each event does to the   *)
(* projected mission of a console.                                         *)
(*                                                                         *)
(* A mission is a record of mission control's cell, the set of mountains   *)
(* and the rows of fires and responders by id; ids are numbers in the      *)
(* order of the code's lists.  A JavaScript row is an object: the row of a *)
(* payload goes into the mission as it is.  When somebody else still       *)
(* changes that object it is Shared and its value is in the heap; an       *)
(* update makes a copy, the mission's own.  Names are left out.            *)
(***************************************************************************)
EXTENDS Naturals

CONSTANT Shared

NoFire == 0                  \* null
NoPath == << >>              \* null

Put(rows, id, row) == [i \in DOMAIN rows \union {id} |-> IF i = id THEN row ELSE rows[i]]

(* The mission with nothing in it. *)
Bare(control) == [control |-> control, mountains |-> {}, fires |-> << >>, responders |-> << >>]

(* A row as a reader of the mission sees it. *)
Row(objects, rows, id) == IF rows[id] = Shared THEN objects[id] ELSE rows[id]

FireCreated(m, e) ==
  IF e.fire \in DOMAIN m.fires THEN m
  ELSE [m EXCEPT !.fires = Put(m.fires, e.fire, e.row)]

ResponderCreated(m, e) ==
  IF e.responder \in DOMAIN m.responders THEN m
  ELSE [m EXCEPT !.responders = Put(m.responders, e.responder, e.row)]

(* Fault: the last known position stays where the signal was lost. *)
RestoredInPlace(row, e) == [row EXCEPT !.signal_status = "connected"]

Restored(row, e) == [row EXCEPT !.signal_status = "connected", !.last_known = e.position]

(* The row of a responder after an event about it. *)
ResponderAfter(row, e) ==
  CASE e.type = "RESPONDER_DISPATCHED" -> [row EXCEPT !.assigned_fire = e.fire, !.status = "moving"]
    [] e.type = "RESPONDER_PATH_ASSIGNED" ->
         [row EXCEPT !.path = e.path, !.path_index = 0, !.status = "moving"]
    [] e.type = "RESPONDER_MOVED" ->
         [row EXCEPT !.at = e.position, !.last_known = e.last_known, !.path_index = e.path_index,
                     !.status = e.status, !.signal_status = e.signal_status]
    [] e.type = "SIGNAL_LOST" ->
         [row EXCEPT !.signal_status = "blocked", !.last_known = e.last_known]
    [] e.type = "SIGNAL_RESTORED" -> Restored(row, e)
    [] e.type = "RESPONDER_RECONNECTED" -> [row EXCEPT !.signal_status = "connected"]
    [] e.type = "RESPONDER_POSITION_RECONCILED" ->
         [row EXCEPT !.at = e.position, !.last_known = e.position]
    [] e.type = "ROUTE_NOT_FOUND" ->
         [row EXCEPT !.status = "idle", !.assigned_fire = NoFire, !.path = NoPath]

FireAfter(row, e) ==
  CASE e.type = "FIRE_INTENSITY_CHANGED" ->
         [row EXCEPT !.intensity = e.intensity, !.status = e.status]
    [] e.type = "FIRE_EXTINGUISHED" -> [row EXCEPT !.intensity = 0, !.status = "extinguished"]

(* mapResponder and mapFire: a row that is not there is nobody's. *)
MapResponder(heap, m, e) ==
  IF e.responder \notin DOMAIN m.responders THEN m
  ELSE [m EXCEPT !.responders[e.responder] =
          ResponderAfter(Row(heap.responders, m.responders, e.responder), e)]

MapFire(heap, m, e) ==
  IF e.fire \notin DOMAIN m.fires THEN m
  ELSE [m EXCEPT !.fires[e.fire] = FireAfter(Row(heap.fires, m.fires, e.fire), e)]

OfResponder == {"RESPONDER_DISPATCHED", "RESPONDER_PATH_ASSIGNED", "RESPONDER_MOVED",
                "SIGNAL_LOST", "SIGNAL_RESTORED", "RESPONDER_RECONNECTED",
                "RESPONDER_POSITION_RECONCILED", "ROUTE_NOT_FOUND"}

OfFire == {"FIRE_INTENSITY_CHANGED", "FIRE_EXTINGUISHED"}

Reduce(heap, m, e) ==
  CASE e.type = "FIRE_CREATED" -> FireCreated(m, e)
    [] e.type = "MOUNTAIN_PLACED" -> [m EXCEPT !.mountains = @ \union {e.cell}]
    [] e.type = "MOUNTAIN_REMOVED" -> [m EXCEPT !.mountains = @ \ {e.cell}]
    [] e.type = "RESPONDER_CREATED" -> ResponderCreated(m, e)
    [] e.type \in OfResponder -> MapResponder(heap, m, e)
    [] e.type \in OfFire -> MapFire(heap, m, e)
    [] e.type = "MISSION_CONTROL_MOVED" -> [m EXCEPT !.control = e.cell]
    [] e.type = "MISSION_RESET" -> Bare(e.cell)
    [] OTHER -> m

(* A mission as it is read: every row by value. *)
Resolve(heap, m) ==
  [m EXCEPT !.fires = [f \in DOMAIN m.fires |-> Row(heap.fires, m.fires, f)],
            !.responders = [r \in DOMAIN m.responders |-> Row(heap.responders, m.responders, r)]]
=============================================================================
