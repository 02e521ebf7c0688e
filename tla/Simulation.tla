----------------------------- MODULE Simulation -----------------------------
(***************************************************************************)
(* The simulation worker's world between awaits: the consumer task runs    *)
(* one handle_command at a time, the tick task one run_tick at a time, and *)
(* neither contains an await, so each is one step.  The upload of a        *)
(* backlog (workers/simulation_worker.py, _flush_reconnected) awaits the   *)
(* database and the broker: commands may run between its steps, ticks may  *)
(* not, for it belongs to the tick task.                                   *)
(*                                                                         *)
(* Delivery of the events returned is left to other modules: out holds     *)
(* those of the last step.                                                 *)
(***************************************************************************)
EXTENDS World

CONSTANTS FireCells, MountainCells, ResponderCells,
                             \* cells the operators put things on
          Control,           \* cells mission control is moved to
          Intensity,         \* intensities fires are placed with
          MaxFires,          \* bound: fires ever placed
          MaxResponders,     \* bound: responders ever created
          MaxCommands,       \* bound: commands handled once the mission exists
          MaxFailures        \* bound: uploads that fail

ASSUME PlacesAssumption ==
  FireCells \union MountainCells \union ResponderCells \union Control \union {Spawn} \subseteq Cell
ASSUME IntensityAssumption == Intensity \subseteq Nat
ASSUME CountsAssumption == {MaxFires, MaxResponders, MaxCommands, MaxFailures} \subseteq Nat
ASSUME RoutesAssumption ==
  \A a, b \in Cell, mountains \in SUBSET Cell : \A path \in Routes(a, b, mountains) :
    path \in Seq(Cell) /\ Len(path) > 0 /\ path[1] = a /\ path[Len(path)] = b

VARIABLES world,         \* world[mission_id], or NoMission
          out,           \* the events returned by the last step
          tick,          \* where the tick task is: its phase and, in the loop over
                         \* the dict of responders, those to visit and its size
          upload,        \* the backlog being uploaded, or Idle
          telemetry,     \* responder.telemetry.v1
          drawn,         \* uuids drawn: how many fires and responders
          commands,      \* commands handled
          failures       \* uploads that failed

vars == <<world, out, tick, upload, telemetry, drawn, commands, failures>>
flushing == <<tick, upload, telemetry, failures>>

Idle == << >>
Phases == {"sleep", "publish", "flush", "exited"}
At(phase) == [phase |-> phase, todo |-> {}, size |-> 0]
Running == tick.phase # "exited"

Responders == IF world = NoMission THEN {} ELSE Ids(world.responders)
Fires == IF world = NoMission THEN {} ELSE Ids(world.fires)
Unit(r) == world.responders[r]

Init ==
  /\ world = NoMission /\ out = << >>
  /\ tick = At("sleep") /\ upload = Idle /\ telemetry = << >>
  /\ drawn = [fires |-> 0, responders |-> 0] /\ commands = 0 /\ failures = 0

Becomes(outcome) == world' = outcome.mission /\ out' = outcome.events
-----------------------------------------------------------------------------
(* The consumer task.  A command for a mission the world does not hold is  *)
(* ignored.                                                                *)
Exists == world # NoMission
Handle ==
  /\ Running /\ commands < MaxCommands
  /\ commands' = IF Exists THEN commands + 1 ELSE commands
  /\ UNCHANGED flushing

HandleCreateMission ==
  Handle /\ Becomes(CreateMission(world)) /\ UNCHANGED drawn

HandleOther ==
  Handle /\ ~Exists /\ Becomes(Outcome(world, << >>)) /\ UNCHANGED drawn

HandlePlaceFire(cell, intensity) ==
  /\ Handle /\ Exists /\ drawn.fires < MaxFires
  /\ Becomes(PlaceFire(world, drawn.fires + 1, cell, intensity))
  /\ drawn' = [drawn EXCEPT !.fires = @ + 1]

HandlePlaceMountain(cell) ==
  Handle /\ Exists /\ Becomes(PlaceMountain(world, cell)) /\ UNCHANGED drawn

HandleRemoveMountain(cell) ==
  Handle /\ Exists /\ Becomes(RemoveMountain(world, cell)) /\ UNCHANGED drawn

HandleCreateResponder(cell) ==
  /\ Handle /\ Exists /\ drawn.responders < MaxResponders
  /\ Becomes(CreateResponder(world, drawn.responders + 1, cell))
  /\ drawn' = [drawn EXCEPT !.responders = @ + 1]

(* The ids come from events the browser has seen: of the living or dead.   *)
HandleDispatch(r, f) ==
  /\ Handle /\ Exists
  /\ \E outcome \in Dispatches(world, r, f) : Becomes(outcome)
  /\ UNCHANGED drawn

HandleMoveMissionControl(cell) ==
  Handle /\ Exists /\ Becomes(MoveMissionControl(world, cell)) /\ UNCHANGED drawn

HandleReset == Handle /\ Exists /\ Becomes(ResetMission) /\ UNCHANGED drawn

(* The tick task: the tick, then the awaits of publishing its events. *)
RunTick ==
  /\ tick.phase = "sleep" /\ Exists
  /\ tick' = At("publish")
  /\ \E moved \in {Marched(world)} : Becomes(Burn(world, moved))
  /\ UNCHANGED <<upload, telemetry, drawn, commands, failures>>

(* The loop runs on to the first responder in todo with a backlog to take, *)
(* or to its end.                                                          *)
LoopFrom(todo, size) ==
  LET ready == {r \in todo \intersect Responders : HasBacklog(Unit(r))}
  IN  IF ready = {}
      THEN tick' = At("sleep") /\ UNCHANGED <<world, upload>>
      ELSE LET r == CHOOSE q \in ready : \A p \in ready : q <= p
           IN  /\ tick' = [phase |-> "flush", todo |-> {q \in todo : q > r}, size |-> size]
               /\ upload' = [responder |-> r, position |-> Unit(r).at,
                             backlog |-> Unit(r).local_log, sent |-> FALSE]
               /\ world' = TakeBacklog(world, r)

StartFlush ==
  /\ tick.phase = "publish"
  /\ LoopFrom(Responders, Cardinality(Responders))
  /\ out' = << >> /\ UNCHANGED <<telemetry, drawn, commands, failures>>

(* publish_telemetry, once the outbox rows are flushed. *)
SendUpload ==
  /\ upload # Idle /\ ~upload.sent
  /\ telemetry' = Append(telemetry, [responder |-> upload.responder,
                                     position |-> upload.position,
                                     backlog |-> upload.backlog])
  /\ upload' = [upload EXCEPT !.sent = TRUE]
  /\ out' = << >> /\ UNCHANGED <<world, tick, drawn, commands, failures>>

(* The rows are stamped and committed. *)
CommitUpload ==
  /\ upload # Idle /\ upload.sent
  /\ upload' = Idle /\ out' = << >>
  /\ UNCHANGED <<world, tick, telemetry, drawn, commands, failures>>

(* An upload that fails is rolled back and the backlog kept for the next   *)
(* tick.  The object of a responder that a reset has removed is garbage.   *)
Rebuffer ==
  /\ upload # Idle
  /\ world' = IF upload.responder \in Responders
              THEN PutBacklog(world, upload.responder, upload.backlog) ELSE world
  /\ upload' = Idle /\ out' = << >>
  /\ UNCHANGED <<tick, telemetry, drawn, commands>>

(* The database or the broker fails, before or after the message was sent. *)
FailUpload == Rebuffer /\ failures < MaxFailures /\ failures' = failures + 1

(* The database refuses the outbox rows: there is no row of the responder. *)
RefuseRows == Rebuffer /\ ~upload.sent /\ UNCHANGED failures

(* The loop goes on, unless a command has changed the size of the dict it  *)
(* iterates over: that error is not caught and ends the process.           *)
ContinueFlush ==
  /\ tick.phase = "flush" /\ upload = Idle
  /\ Cardinality(Responders) = tick.size
  /\ LoopFrom(tick.todo, tick.size)
  /\ out' = << >> /\ UNCHANGED <<telemetry, drawn, commands, failures>>

DictChanged ==
  /\ tick.phase = "flush" /\ upload = Idle
  /\ Cardinality(Responders) # tick.size
  /\ tick' = At("exited")
  /\ out' = << >> /\ UNCHANGED <<world, upload, telemetry, drawn, commands, failures>>

Command ==
  \/ HandleCreateMission \/ HandleOther \/ HandleReset
  \/ \E cell \in FireCells, intensity \in Intensity : HandlePlaceFire(cell, intensity)
  \/ \E cell \in MountainCells : HandlePlaceMountain(cell) \/ HandleRemoveMountain(cell)
  \/ \E cell \in ResponderCells : HandleCreateResponder(cell)
  \/ \E cell \in Control : HandleMoveMissionControl(cell)
  \/ \E r \in 1 .. drawn.responders, f \in 1 .. drawn.fires : HandleDispatch(r, f)

TickTask ==
  \/ RunTick \/ StartFlush \/ SendUpload \/ CommitUpload \/ RefuseRows
  \/ ContinueFlush \/ DictChanged

Next == Command \/ TickTask \/ FailUpload

Spec == Init /\ [][Next]_vars

(* The tick task sleeps for an interval and wakes: its steps keep coming,  *)
(* while commands and failures may or may not.                             *)
FairSpec == Spec /\ WF_vars(TickTask)
-----------------------------------------------------------------------------
UnitType ==
  [at : Cell, last_known : Cell, status : {"idle", "moving", "fighting_fire"},
   signal_status : {"connected", "blocked"}, assigned_fire : Nat,
   path : Seq(Cell), path_index : Nat, local_log : Seq(Cell)]
FireType == [at : Cell, intensity : Nat, status : {"active", "extinguished"}]
UploadType == [responder : Nat, position : Cell, backlog : Seq(Cell), sent : BOOLEAN]

IsDict(d, ids, T) == DOMAIN d \subseteq ids /\ d \in [DOMAIN d -> T]
IsMission(m, ids) ==
  /\ m = [control |-> m.control, mountains |-> m.mountains,
          fires |-> m.fires, responders |-> m.responders]
  /\ m.control \in Cell /\ m.mountains \subseteq Cell
  /\ IsDict(m.fires, 1 .. ids.fires, FireType)
  /\ IsDict(m.responders, 1 .. ids.responders, UnitType)

(* Every variable has its type, and a path index points into its path: no  *)
(* tick runs off the end of a path a dispatch has replaced.                *)
TypeOK ==
  /\ world = NoMission \/ IsMission(world, drawn)
  /\ \A r \in Responders : Unit(r).path # NoPath => Unit(r).path_index < Len(Unit(r).path)
  /\ tick.phase \in Phases
  /\ upload = Idle \/ upload \in UploadType
  /\ drawn \in [fires : 0 .. MaxFires, responders : 0 .. MaxResponders]

(* A responder is only shown as cut off while a mountain really hides it:  *)
(* every move, mountain and move of mission control re-reads its signal.   *)
BlockedIsHidden ==
  \A r \in Responders :
    Unit(r).signal_status = "blocked" => ~Sees(world.control, Unit(r).at, world.mountains)

(* Mission control knows where a connected responder is. *)
ConnectedIsKnown ==
  \A r \in Responders :
    Unit(r).signal_status = "connected" => Unit(r).last_known = Unit(r).at

(* A cut-off responder that is not where it was last seen has its present  *)
(* cell at the end of its backlog: no failed upload or second blackout     *)
(* loses the moves that explain where it is.                               *)
DarkMovesBuffered ==
  \A r \in Responders :
    LET u == Unit(r)
    IN  u.signal_status = "blocked" /\ u.at # u.last_known =>
          u.local_log # << >> /\ u.local_log[Len(u.local_log)] = u.at

(* A responder that fights a fire stands on the cell of its fire: a        *)
(* dispatch during a fight or a reset leaves no phantom crew.              *)
FightingAtItsFire ==
  \A r \in Responders :
    Unit(r).status = "fighting_fire" =>
      /\ Unit(r).assigned_fire \in Fires
      /\ Unit(r).at = world.fires[Unit(r).assigned_fire].at

(* No event of a step tells mission control the cell of a responder it     *)
(* cannot see, other than the cell it is placed on.                        *)
NoDarkPositionLeaks ==
  \A i \in DOMAIN out :
    out[i].type \in {"RESPONDER_MOVED", "SIGNAL_RESTORED"} =>
      Sees(world.control, out[i].position, world.mountains)

(* While a responder stays cut off its last known cell is frozen. *)
LastKnownFrozen ==
  [][\A r \in Responders :
       Unit(r).signal_status = "blocked" /\ r \in Responders' /\ Unit(r)'.signal_status = "blocked"
         => Unit(r)'.last_known = Unit(r).last_known]_vars

(* A responder on its way over more than one cell arrives, is told it has  *)
(* no route, or is removed: nothing strands it on the way.                 *)
OnItsWay(r) == r \in Responders /\ Unit(r).status = "moving" /\ Len(Unit(r).path) > 1
Arrives == \A r \in 1 .. MaxResponders : OnItsWay(r) ~> ~OnItsWay(r) \/ ~Running

(* A fire with a crew on it goes out, loses its crew or is removed. *)
Fought(f) ==
  f \in Fires /\ world.fires[f].status = "active" /\ world.fires[f].intensity > 0
  /\ Crew(world, world.fires[f].at) > 0
FoughtFiresGoOut == \A f \in 1 .. MaxFires : Fought(f) ~> ~Fought(f) \/ ~Running
=============================================================================
