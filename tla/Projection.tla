----------------------------- MODULE Projection -----------------------------
(***************************************************************************)
(* The world of the simulation worker, the telemetry worker and the read   *)
(* model together.  Three tasks append to mission.events.v1, one event per *)
(* await: the consumer and the tick task of the simulation worker and the  *)
(* telemetry worker.  What a task has still to append is in sending, and   *)
(* between any two appends the others go on.                               *)
(*                                                                         *)
(* An event is folded into the tables as it is appended.  A projector that *)
(* lags folds the same events in the same order (Projector), so it comes   *)
(* to the same tables later.  An event the tables refuse stops it for      *)
(* good: it is fetched and refused again after every restart.              *)
(***************************************************************************)
EXTENDS Simulation

VARIABLES tables,        \* the read model
          refused,       \* the event type the projector stopped at, or Nothing
          sending,       \* per task, the events it has still to append
          reconciled,    \* messages of telemetry the telemetry worker has taken
          disputed       \* history: responders two tasks had events about at once

RM == INSTANCE ReadModel

pvars == <<vars, tables, refused, sending, reconciled, disputed>>

Nothing == "nothing"
Tasks == {"command", "tick", "telemetry"}

(* POST /missions has committed the mission's rows before it publishes. *)
PInit ==
  /\ Init /\ tables = RM!MissionRows /\ refused = Nothing
  /\ sending = [task \in Tasks |-> << >>] /\ reconciled = 0 /\ disputed = {}

(* Whom events name, and whom what is on its way to the tables is about.   *)
Named(events) ==
  {events[i].responder : i \in
     {j \in DOMAIN events : events[j].type \in RM!OfResponder \union {"RESPONDER_CREATED"}}}
Uploading ==
  {telemetry[i].responder : i \in reconciled + 1 .. Len(telemetry)}
    \union (IF upload = Idle THEN {} ELSE {upload.responder})
OnTheWay == Uploading \union UNION {Named(sending[task]) : task \in Tasks}
Moved(events) ==
  {events[i].responder : i \in {j \in DOMAIN events : events[j].type = "RESPONDER_MOVED"}}

(* The projector folds the event in, or it is refused and the projector    *)
(* stops at it.                                                            *)
Project(e) ==
  LET accepted == RM!Accepts(tables, e)
  IN  /\ tables' = IF refused = Nothing /\ accepted THEN RM!Apply(tables, e) ELSE tables
      /\ refused' = IF refused = Nothing /\ ~accepted THEN e.type ELSE refused

(* While the rows of an upload are uncommitted their foreign key locks the *)
(* responder: a reset would wait for the upload to end, so it is taken     *)
(* after it.                                                               *)
Locked == upload # Idle /\ upload.sent

Publish(task) ==
  /\ sending[task] # << >>
  /\ LET e == Head(sending[task])
     IN  /\ Locked => e.type # "MISSION_RESET"
         /\ Project(e)
  /\ sending' = [sending EXCEPT ![task] = Tail(@)]
  /\ UNCHANGED <<vars, reconciled, disputed>>

(* The consumer takes the next command when all is published, the tick     *)
(* task goes on to the uploads when all is.                                *)
PCommand ==
  /\ sending.command = << >> /\ Command
  /\ sending' = [sending EXCEPT !.command = out']
  /\ disputed' = disputed \union (Named(out') \intersect OnTheWay)
  /\ UNCHANGED <<tables, refused, reconciled>>

(* A move tells all of a row that events of other tasks can have upset.    *)
PTick ==
  /\ RunTick
  /\ sending' = [sending EXCEPT !.tick = out']
  /\ disputed' = (disputed \ Moved(out')) \union (Named(out') \intersect OnTheWay)
  /\ UNCHANGED <<tables, refused, reconciled>>

PLoop ==
  /\ sending.tick = << >>
  /\ StartFlush \/ CommitUpload \/ ContinueFlush \/ DictChanged
  /\ UNCHANGED <<tables, refused, sending, reconciled, disputed>>

(* The outbox rows refer to the responder's row: without it the flush of   *)
(* the rows fails, before the message is sent.                             *)
PSend ==
  /\ SendUpload /\ upload.responder \in DOMAIN tables.responders
  /\ tables' = [tables EXCEPT !.outbox = Append(@, upload.responder)]
  /\ UNCHANGED <<refused, sending, reconciled, disputed>>

PRefuseRows ==
  /\ RefuseRows /\ upload.responder \notin DOMAIN tables.responders
  /\ UNCHANGED <<tables, refused, sending, reconciled, disputed>>

(* The transaction is rolled back: its rows, the last ones, are gone. *)
PFail ==
  /\ FailUpload
  /\ tables' = IF Locked THEN [tables EXCEPT !.outbox = Front(@)] ELSE tables
  /\ UNCHANGED <<refused, sending, reconciled, disputed>>

(* The telemetry worker: build_reconciliation_events of its next message.  *)
ReconciliationEvents(message) ==
  <<[type |-> "RESPONDER_RECONNECTED", responder |-> message.responder],
    [type |-> "RESPONDER_POSITION_RECONCILED", responder |-> message.responder,
     position |-> message.position]>>

Reconcile ==
  /\ sending.telemetry = << >> /\ reconciled < Len(telemetry)
  /\ reconciled' = reconciled + 1
  /\ sending' = [sending EXCEPT !.telemetry = ReconciliationEvents(telemetry[reconciled + 1])]
  /\ UNCHANGED <<vars, tables, refused, disputed>>

PNext ==
  \/ PCommand \/ PTick \/ PLoop \/ PSend \/ PRefuseRows \/ PFail \/ Reconcile
  \/ \E task \in Tasks : Publish(task)

PSpec == PInit /\ [][PNext]_pvars

(* The tick task goes on, and the consumer while the process lives: the    *)
(* one wakes from its sleep, each of its awaits returns, and what the two  *)
(* have to append they append.                                             *)
Wake == tick.phase = "sleep" /\ Exists /\ tick' = At("publish")
PFairSpec ==
  /\ PSpec
  /\ WF_tick(Wake)
  /\ WF_pvars(PLoop \/ PSend \/ PRefuseRows \/ Publish("tick"))
  /\ WF_pvars(Running /\ Publish("command"))
-----------------------------------------------------------------------------
Projecting == refused = Nothing /\ Exists
Row(r) == tables.responders[r]

(* What the world has removed, and a fire whose creation is not appended.  *)
Overtaken(e) ==
  \/ e.type \in RM!OfResponder /\ e.responder \notin Responders
  \/ e.type \in RM!OfFire /\
       (e.fire \notin Fires \/ \E i \in DOMAIN sending.command :
                                 sending.command[i].type = "FIRE_CREATED"
                                   /\ sending.command[i].fire = e.fire)

(* What can stop the projector: a mountain placed twice; a reset of a      *)
(* mission with a responder assigned or with outbox rows; and, of the tick *)
(* task and the telemetry worker, an event that commands have overtaken -  *)
(* a reset has removed its responder or its fire, or the fire's creation   *)
(* is still to be appended.                                                *)
StopsOnlyAt ==
  Projecting =>
    \A task \in Tasks : sending[task] # << >> =>
      LET e == Head(sending[task])
      IN  \/ RM!Accepts(tables, e)
          \/ e.type \in {"MOUNTAIN_PLACED", "MISSION_RESET"}
          \/ task # "command" /\ Overtaken(e)

(* The consumer is the only one to tell of terrain, of what there is and   *)
(* of assignments: with nothing of it on the way the tables have them.     *)
CommandsAgree ==
  sending.command = << >> =>
    /\ tables.control = world.control
    /\ tables.cells = world.mountains
    /\ DOMAIN tables.fires = Fires
    /\ DOMAIN tables.responders = Responders
    /\ \A r \in Responders : Row(r).assigned_fire = Unit(r).assigned_fire

(* A fire is as the last events about it say. *)
Burning(events) ==
  {events[i].fire : i \in
     {j \in DOMAIN events : events[j].type \in RM!OfFire \union {"FIRE_CREATED"}}}
FiresAgree ==
  \A f \in Fires \ (Burning(sending.command) \union Burning(sending.tick)) :
    tables.fires[f] = world.fires[f]

(* Never been the subject of an upload, and nothing to upload. *)
NeverDark(r) ==
  Unit(r).local_log = << >> /\ \A i \in DOMAIN telemetry : telemetry[i].responder # r

(* Of a responder that nothing on the way is about the tables have what    *)
(* mission control is to know; where it is unless it has moves to upload;  *)
(* and all of it if it was never dark.  Two tasks that told of it at once  *)
(* may have told in the wrong order, which its next move mends.            *)
RespondersAgree ==
  \A r \in Responders \ (OnTheWay \union disputed) :
    /\ Row(r).signal_status = Unit(r).signal_status
    /\ Row(r).last_known = Unit(r).last_known
    /\ Unit(r).local_log = << >> => Row(r).at = Unit(r).at
    /\ NeverDark(r) =>
         Row(r).status = Unit(r).status /\ Row(r).path_index = Unit(r).path_index

(* "State is a projection of the log": as long as every event is accepted, *)
(* what a client reads of a mission is what the worker has of it, but for  *)
(* what is on its way and what two tasks have told at once.                *)
ReadModelAgrees == Projecting => CommandsAgree /\ FiresAgree /\ RespondersAgree

(* The backlog of a connected responder is sent to the telemetry topic: it *)
(* is neither dropped nor kept for ever, whatever fails on the way, unless *)
(* the responder is removed or dark again with the moves, its row is past  *)
(* the event the projector stopped at, or the process has ended.           *)
Holding(r) == r \in Responders /\ HasBacklog(Unit(r))
Sent(r) == upload # Idle /\ upload.responder = r /\ upload.sent
BacklogIsUploaded ==
  \A r \in 1 .. MaxResponders :
    Holding(r) ~>
      \/ Sent(r) \/ ~Running
      \/ r \notin Responders \/ (Unit(r).signal_status = "blocked" /\ Unit(r).local_log # << >>)
      \/ refused # Nothing /\ r \notin DOMAIN tables.responders

(* TODO.md: apply_mission_reset clears the fires, the responders and the   *)
(* mountain cells.                                                         *)
ResetIsProjected == refused # "MISSION_RESET"

(* telemetry_worker.py: reconciliation events are emitted "so central      *)
(* state catches up".  Once every upload is reconciled it has caught up    *)
(* with a responder that is connected, holds nothing back and, having      *)
(* stopped, has no further move to report.                                 *)
Settled(u) == u.signal_status = "connected" /\ u.local_log = << >> /\ ~EnRoute(u)
CentralStateCatchesUp ==
  Projecting =>
    \A r \in Responders \ (OnTheWay \union disputed) :
      Settled(Unit(r)) => Row(r).at = Unit(r).at /\ Row(r).status = Unit(r).status
=============================================================================
