-------------------------------- MODULE World --------------------------------
(***************************************************************************)
(* services/simulation_service.py: the in-memory world of one mission and  *)
(* the pure functions over it, one operator per command type and per part  *)
(* of the tick.  Each returns an outcome: the mission as the function      *)
(* leaves it and the events it returns, in order.                          *)
(*                                                                         *)
(* A cell is a model of (x, y).  The uuids given to fires and responders   *)
(* are numbers in the order they are drawn, which is the order of the      *)
(* dicts that hold them.  Geometry is a parameter: Sees is line of sight   *)
(* and Routes(a, b, mountains) the paths find_path may return.  Names and  *)
(* the blocked_by cell of a signal event are left out: nothing reads them. *)
(***************************************************************************)
EXTENDS Integers, Sequences, FiniteSets, SequencesExt

CONSTANTS Cell,              \* grid cells and cells mission control may be at
          Spawn,             \* spawn_mission_control(width, height)
          Sees(_, _, _),     \* Sees(control, cell, mountains)
          Routes(_, _, _)    \* paths between two cells; {} when walled off

ExtinguishRate == 5          \* EXTINGUISH_RATE_PER_TICK
NoFire == 0                  \* assigned_fire_id is None
NoPath == << >>              \* path is None
NoMission == << >>           \* the world holds no mission yet
EmptyDict == [i \in {} |-> i]

Outcome(m, es) == [mission |-> m, events |-> es]
Ids(dict) == DOMAIN dict
Put(dict, k, v) == [i \in Ids(dict) \union {k} |-> IF i = k THEN v ELSE dict[i]]
WithResponder(m, r, u) == [m EXCEPT !.responders[r] = u]

(* The events each entry of a dict contributes, in dict order. *)
ForEach(events) ==
  FlattenSeq([i \in 1 .. Max(DOMAIN events \union {0}) |->
                IF i \in DOMAIN events THEN events[i] ELSE << >>])
-----------------------------------------------------------------------------
NewMission ==
  [control |-> Spawn, mountains |-> {}, fires |-> EmptyDict, responders |-> EmptyDict]

NewFire(cell, intensity) == [at |-> cell, intensity |-> intensity, status |-> "active"]

NewResponder(cell) ==
  [at |-> cell, last_known |-> cell, status |-> "idle", signal_status |-> "connected",
   assigned_fire |-> NoFire, path |-> NoPath, path_index |-> 0, local_log |-> << >>]

(* What RESPONDER_CREATED carries: everything but the local log. *)
ResponderResponse(u) ==
  [at |-> u.at, last_known |-> u.last_known, status |-> u.status,
   signal_status |-> u.signal_status, assigned_fire |-> u.assigned_fire,
   path |-> u.path, path_index |-> u.path_index]

(* compute_signal_status *)
Signal(m, cell) == IF Sees(m.control, cell, m.mountains) THEN "connected" ELSE "blocked"

(* Fault: a restored signal does not tell where the responder is. *)
ResignalOnly(m, u) == [u EXCEPT !.signal_status = Signal(m, u.at)]

(* _recompute_all_signals: the responders and the events of those that flip. *)
Resignal(m, u) ==
  IF Signal(m, u.at) = u.signal_status THEN u
  ELSE IF Signal(m, u.at) = "blocked" THEN [u EXCEPT !.signal_status = "blocked"]
  ELSE [u EXCEPT !.signal_status = "connected", !.last_known = u.at]

(* Fault: only the loss of a signal is told. *)
SignalLossOnly(m, r) ==
  LET u == m.responders[r]
  IN  IF u.signal_status = "connected" /\ Signal(m, u.at) = "blocked"
      THEN <<[type |-> "SIGNAL_LOST", responder |-> r, last_known |-> u.last_known]>>
      ELSE << >>

SignalEvent(m, r) ==
  LET u == m.responders[r]
  IN  IF Signal(m, u.at) = u.signal_status THEN << >>
      ELSE IF Signal(m, u.at) = "blocked"
      THEN <<[type |-> "SIGNAL_LOST", responder |-> r, last_known |-> u.last_known]>>
      ELSE <<[type |-> "SIGNAL_RESTORED", responder |-> r, position |-> u.at]>>

RecomputeAllSignals(m) ==
  Outcome([m EXCEPT !.responders = [r \in Ids(m.responders) |-> Resignal(m, m.responders[r])]],
          ForEach([r \in Ids(m.responders) |-> SignalEvent(m, r)]))

(* A command that changes what is visible: its own event, then the flips. *)
ThenRecompute(m, event) ==
  LET o == RecomputeAllSignals(m) IN Outcome(o.mission, <<event>> \o o.events)
-----------------------------------------------------------------------------
(* handle_command, by command type. *)
CreateMission(m) ==
  Outcome(IF m = NoMission THEN NewMission ELSE m, <<[type |-> "MISSION_CREATED"]>>)

PlaceFire(m, f, cell, intensity) ==
  Outcome([m EXCEPT !.fires = Put(m.fires, f, NewFire(cell, intensity))],
          <<[type |-> "FIRE_CREATED", fire |-> f, row |-> NewFire(cell, intensity)]>>)

PlaceMountain(m, cell) ==
  ThenRecompute([m EXCEPT !.mountains = @ \union {cell}],
                [type |-> "MOUNTAIN_PLACED", cell |-> cell])

(* Fault: taking a mountain away leaves the signals as they were. *)
RemoveMountainOnly(m, cell) ==
  Outcome([m EXCEPT !.mountains = @ \ {cell}], <<[type |-> "MOUNTAIN_REMOVED", cell |-> cell]>>)

RemoveMountain(m, cell) ==
  ThenRecompute([m EXCEPT !.mountains = @ \ {cell}],
                [type |-> "MOUNTAIN_REMOVED", cell |-> cell])

CreateResponder(m, r, cell) ==
  Outcome([m EXCEPT !.responders = Put(m.responders, r, NewResponder(cell))],
          <<[type |-> "RESPONDER_CREATED", responder |-> r,
             row |-> ResponderResponse(NewResponder(cell))]>>)

(* An unknown responder or fire is ignored; a route that is not found      *)
(* leaves the path of an earlier dispatch in place.                        *)
Dispatchable(m, r, f) == r \in Ids(m.responders) /\ f \in Ids(m.fires)

RoutesFor(m, r, f) == Routes(m.responders[r].at, m.fires[f].at, m.mountains)

DispatchAlong(m, r, f, path) ==
  Outcome(WithResponder(m, r, [m.responders[r] EXCEPT !.assigned_fire = f, !.status = "moving",
                                                      !.path = path, !.path_index = 0]),
          <<[type |-> "RESPONDER_DISPATCHED", responder |-> r, fire |-> f],
            [type |-> "RESPONDER_PATH_ASSIGNED", responder |-> r, path |-> path]>>)

DispatchNowhere(m, r, f) ==
  Outcome(WithResponder(m, r, [m.responders[r] EXCEPT !.assigned_fire = NoFire,
                                                      !.status = "idle"]),
          <<[type |-> "RESPONDER_DISPATCHED", responder |-> r, fire |-> f],
            [type |-> "ROUTE_NOT_FOUND", responder |-> r]>>)

Dispatches(m, r, f) ==
  IF ~Dispatchable(m, r, f) THEN {Outcome(m, << >>)}
  ELSE IF RoutesFor(m, r, f) = {} THEN {DispatchNowhere(m, r, f)}
  ELSE {DispatchAlong(m, r, f, path) : path \in RoutesFor(m, r, f)}

MoveMissionControl(m, cell) ==
  ThenRecompute([m EXCEPT !.control = cell],
                [type |-> "MISSION_CONTROL_MOVED", cell |-> cell])

ResetMission == Outcome(NewMission, <<[type |-> "MISSION_RESET", cell |-> Spawn]>>)
-----------------------------------------------------------------------------
(* Fault: the step onto the last cell of the path is not taken. *)
EnRouteButLast(u) == u.status = "moving" /\ u.path_index < Len(u.path) - 2

(* run_tick: en-route responders advance, then crews burn fires down.      *)
EnRoute(u) == u.status = "moving" /\ u.path_index < Len(u.path) - 1

(* Faults: the responder fights from the last cell but one; its dark moves *)
(* are only buffered as its signal is lost; it reports where it is.        *)
Walked(m, u, index) ==
  [u EXCEPT !.path_index = index, !.at = u.path[index + 1],
            !.status = IF index = Len(u.path) - 1 THEN "fighting_fire" ELSE @,
            !.signal_status = Signal(m, u.path[index + 1])]

AdvanceArrivesEarly(m, u) ==
  LET v == Walked(m, u, u.path_index + 1)
      w == [v EXCEPT !.status = IF v.path_index = Len(u.path) - 2 THEN "fighting_fire" ELSE @]
  IN  IF v.signal_status = "blocked" THEN [w EXCEPT !.local_log = Append(@, w.at)]
      ELSE [w EXCEPT !.last_known = w.at]

AdvanceBuffersOnce(m, u) ==
  LET v == Walked(m, u, u.path_index + 1)
  IN  IF v.signal_status = "connected" THEN [v EXCEPT !.last_known = v.at]
      ELSE IF u.signal_status = "connected" THEN [v EXCEPT !.local_log = Append(@, v.at)]
      ELSE v

AdvanceReports(m, u) ==
  LET v == Walked(m, u, u.path_index + 1)
  IN  IF v.signal_status = "blocked"
      THEN [v EXCEPT !.local_log = Append(@, v.at), !.last_known = v.at]
      ELSE [v EXCEPT !.last_known = v.at]

Advance(m, u) ==
  LET index == u.path_index + 1
      cell == u.path[index + 1]
      moved == [u EXCEPT !.path_index = index, !.at = cell,
                         !.status = IF index = Len(u.path) - 1 THEN "fighting_fire" ELSE @,
                         !.signal_status = Signal(m, cell)]
  IN  IF Signal(m, cell) = "blocked"
      THEN [moved EXCEPT !.local_log = Append(@, cell)]
      ELSE [moved EXCEPT !.last_known = cell]

TickResponder(m, u) == IF EnRoute(u) THEN Advance(m, u) ELSE u

(* Fault: dark moves are told too. *)
MoveEventsInTheDark(m, r) ==
  LET v == TickResponder(m, m.responders[r])
  IN  IF ~EnRoute(m.responders[r]) THEN << >>
      ELSE <<[type |-> "RESPONDER_MOVED", responder |-> r, position |-> v.at,
              last_known |-> v.last_known, path_index |-> v.path_index,
              status |-> v.status, signal_status |-> v.signal_status]>>

(* Dark moves are not emitted, only the loss of signal is. *)
MoveEvents(m, r) ==
  LET u == m.responders[r]
      v == TickResponder(m, u)
      was == u.signal_status
      moved == [type |-> "RESPONDER_MOVED", responder |-> r, position |-> v.at,
                last_known |-> v.last_known, path_index |-> v.path_index,
                status |-> v.status, signal_status |-> v.signal_status]
      lost == [type |-> "SIGNAL_LOST", responder |-> r, last_known |-> u.last_known]
      restored == [type |-> "SIGNAL_RESTORED", responder |-> r, position |-> v.at]
  IN  IF ~EnRoute(u) THEN << >>
      ELSE IF v.signal_status = "blocked" THEN IF was = "connected" THEN <<lost>> ELSE << >>
      ELSE IF was = "blocked" THEN <<moved, restored>> ELSE <<moved>>

Crew(m, cell) == Cardinality({r \in Ids(m.responders) : m.responders[r].at = cell})

(* Fault: what is left of a fire below one tick's worth is never put out. *)
DampenedToRemainder(intensity, crew) ==
  IF intensity > crew * ExtinguishRate THEN intensity - crew * ExtinguishRate ELSE intensity

(* apply_fire_tick *)
Dampened(intensity, crew) ==
  IF intensity > crew * ExtinguishRate THEN intensity - crew * ExtinguishRate ELSE 0

TickFire(m, fire) ==
  LET left == Dampened(fire.intensity, Crew(m, fire.at))
  IN  IF fire.status # "active" \/ Crew(m, fire.at) = 0 \/ left = fire.intensity THEN fire
      ELSE [fire EXCEPT !.intensity = left, !.status = IF left = 0 THEN "extinguished" ELSE @]

FireEvents(m, f) ==
  LET fire == TickFire(m, m.fires[f])
      changed == [type |-> "FIRE_INTENSITY_CHANGED", fire |-> f,
                  intensity |-> fire.intensity, status |-> fire.status]
  IN  IF fire = m.fires[f] THEN << >>
      ELSE IF fire.status = "active" THEN <<changed>>
      ELSE <<changed, [type |-> "FIRE_EXTINGUISHED", fire |-> f]>>

Marched(m) ==
  [m EXCEPT !.responders = [r \in Ids(m.responders) |-> TickResponder(m, m.responders[r])]]

(* The second half, of a mission m whose responders have moved. *)
Burn(m, moved) ==
  Outcome([moved EXCEPT !.fires = [f \in Ids(m.fires) |-> TickFire(moved, m.fires[f])]],
          ForEach([r \in Ids(m.responders) |-> MoveEvents(m, r)])
            \o ForEach([f \in Ids(m.fires) |-> FireEvents(moved, f)]))

Tick(m) == Burn(m, Marched(m))
-----------------------------------------------------------------------------
(* The two assignments of the worker's _flush_reconnected to the world: it *)
(* takes the backlog of a responder before it uploads it and, should that  *)
(* fail, puts it back before what was buffered since.                      *)
HasBacklog(u) == u.signal_status = "connected" /\ u.local_log # << >>

TakeBacklog(m, r) == WithResponder(m, r, [m.responders[r] EXCEPT !.local_log = << >>])

(* Fault: the backlog of a failed upload is dropped. *)
DropBacklog(m, r, backlog) == m

PutBacklog(m, r, backlog) ==
  WithResponder(m, r, [m.responders[r] EXCEPT !.local_log = backlog \o @])
=============================================================================
