# MissionGrid: specifications, model checking and proofs

MissionGrid is an event-sourced simulation of fire crews on a grid. Commands go
over HTTP into Kafka, one worker turns them and a periodic tick into events,
other workers fold the events into Postgres and into the browsers, where a store
folds them again, a replay walks back through them and, without a server, a mock
backend produces them. This directory specifies the parts that carry that logic
in TLA+, checks them with TLC on small instances and proves with TLAPS the
guarantees of the projector, of the simulation worker, of the simulated world and
of the read model that mirrors it, of the way of events to a browser, of the
browser's store, replay and data flow view, of the console on the in-browser mock,
and of the two algorithms of the geometry.
Paths are relative to the repository; `server` is the Python backend, `web` the
browser front end.

## 1. Inventory

| Part | Source | State it keeps | Operations |
|---|---|---|---|
| HTTP API, command service | `server/app/api/http.py`, `services/command_service.py`, `mission_service.py` | none (writes the mission's first rows) | one command per endpoint, `GET` of the state |
| Simulation worker | `server/app/workers/simulation_worker.py` | the world of every mission in memory, offset, ledger | consume a command; tick; upload backlogs |
| Mission world | `services/simulation_service.py`, `fire_service.py`, `signal_service.py` | mission control, mountains, fires, responders and their local logs | `handle_command` (8 command types), `run_tick`, `rehydrate` |
| Line of sight, pathfinding | `services/line_of_sight.py`, `pathfinding.py` | none | pure functions |
| Projector worker | `workers/projector_worker.py`, `services/idempotency.py` | offset, `processed_messages` | the consumer loop |
| Projection handlers | `services/projection_service.py`, `models/` | the current-state tables and `mission_events` | 17 event handlers |
| Telemetry worker | `workers/telemetry_worker.py`, `services/reconciliation_service.py` | offset, ledger | an upload becomes two events |
| WebSocket gateway | `api/websocket.py` | rooms of sockets, a consumer of its own | connect, disconnect, snapshot, broadcast |
| Browser store | `web/src/store/missionStore.ts`, `hooks/useTacticalState.ts` | state, last 100 events, base and timeline, replay cursor | `setSnapshot`, `applyEvent`, `setReplayCursor`, `reset` |
| Browser connection | `web/src/lib/ws.ts`, `lib/client.ts`, `hooks/useMissionConnection.ts`, `useMissionActions.ts` | loader and its attempts, socket, retry timer | load, connect, retry, close; guarded actions |
| Replay, data flow view | `web/src/hooks/useArchitectureSignals.ts`, `lib/architecture/`, `components/architecture/` | cursor, buffer, timer; packets, glow, animation loop | play, pause, seek, speed, go live; animate |
| Mock backend | `web/src/lib/mock/` | a second world | the same commands and tick in the browser |
| Grid and panels | `web/src/components/`, `web/src/app/` | selection, reset button | clicks, dispatch, what is drawn |

How they interact. The API appends to `mission.commands.v1`; the simulation
worker reads it and appends to `mission.events.v1`, keyed by mission, so that the
events of one mission are in one partition. Its two asyncio tasks, the consumer
and the tick, share the world and interleave only where one awaits. When a
responder that moved out of sight is seen again the tick task uploads its backlog
to `responder.telemetry.v1`, with rows in `responder_local_outbox`; the telemetry
worker turns the upload into two more events. The projector folds the events
into Postgres; the broadcaster of every API process forwards the same events to
sockets; a browser folds them over the snapshot it was sent. The replay
controller pushes a cursor into the store, event by event; while one is set the
tactical view shows the past and commands are refused.

What is hard here: at-least-once delivery on every topic and processes that are
killed and restarted between any two steps; rebalances; the world and the read
model being two implementations of the same state, joined only by events; what
is known of a responder that cannot be seen, and the late reconciliation of what
it did; events the tables refuse; a command half of whose events are published
when its worker dies; snapshots raced by live events; answers, timeouts and
sockets that outlive the page that asked for them; JavaScript objects shared by a
mock and the store it feeds. `PROJECT.json` lists each such hazard at its line,
with the properties that watch it.

## 2. Modules

```
AppliedLog <--- implemented by --- Projector --- ProjectorProofs
SimulationWorker --- SimulationWorkerProofs
World ---> Simulation ---> Projection <--- ReadModel
                               |
                        ProjectionProofs
MissionStore ---> Console ---> ConsoleProofs <--- FlowEngine
      |  +------> LiveFeed --- LiveFeedProofs
      +--+
MissionReducer -> MockBackend ---> MockConsole <--- GridView
                                       |  ^------- MockGeometry (of the instance)
                               MockConsoleProofs
LineOfSight ---+--> SmallGrid (geometry of the instances)
Pathfinding ---+--> GeometryProofs
FoldTheorems (folds of events; instantiated by the proofs)
```

### Server

**Projector** models `projector_worker.run`, statement by statement between its
awaits: `Fetch` (`async for`), `AlreadyProcessed`, `ApplyEvent`,
`CommitTransaction` (`mark_processed` and `db.commit`), `CommitOffset`. Each
process of the consumer group has a `pc`, the number of messages it has fetched
(`position`) and the rows its session would write (`staged`). `log`, `offset` and
`owner` are Kafka's; `ledger`, `history` and `model` are Postgres'. The read
model and its handlers are the constants `Apply` and `Accepts`: what is proved
holds for every read model. A message id is the message's place in the
partition, since ids are fresh uuids. A handler that raises, or rows refused on
flush, end the process (`ApplyEventRaises`); a second ledger row is refused by the
unique constraint (`LedgerConflict`); a process that lost the partition learns of
it when its commit is refused (`CommitOffsetFenced`) or between messages
(`Rejoin`). `Crash` may happen anywhere; `Restart` is docker's
`restart: unless-stopped`.

**AppliedLog** is the promise: a log that only grows, and a read model that is the
fold of a prefix of it.

**SimulationWorker** is the worker between its awaits. `HandleCommand` changes the
mission in memory and puts its events into `pending`; `PublishEvent` sends them
one at a time, `MarkProcessed` writes the ledger row, `Commit` the offset. The
tick task does the same beside it (`RunTick`, `PublishTickEvent`), so that events
of the two can overtake each other. A failed call sends the command to the dead
letter topic (`CheckFails`, `PublishFails`, `MarkFails`, `DeadLetter`); a send
that fails may have been appended and a transaction that fails may have been
committed. `Crash` is a kill, or an error outside the `try`; `Restart` is
`rehydrate`, from as much of the log as the projector has folded in. The mission
and what a command and a tick do to it are constants, so the theorems hold of any;
it is what events tell of a mission, so the moves in the dark and the local logs
of World are outside it, and so is what the read model gets wrong
(`central_state_drifts`). `astray` and `strayed` are history variables: they say
whether memory and log are apart, and have been.

**World** holds the pure functions: one operator per command type and one per part
of the tick, each returning the mission and the events in the code's order.
**Simulation** makes them steps. `handle_command` and `run_tick` contain no await,
so each is atomic; `_flush_reconnected` awaits the database and the broker, so its
steps (`StartFlush`, `SendUpload`, `CommitUpload`, `ContinueFlush`, and the two that
put a backlog back, `FailUpload` and `RefuseRows`) interleave with commands.
`DictChanged` is the error of iterating a dict whose size a command has changed: it
leaves both tasks and the process with them.

**ReadModel** gives each handler of `projection_service` and the cases in which it
fails: a missing row, the unique mountain cell, the two foreign keys.
**Projection** runs the world, the uploads, the telemetry worker and the read model
together. Each of the three tasks that append to `mission.events.v1`, the consumer
and the tick task of the simulation worker and the telemetry worker, awaits the
append of every single event, so `sending` holds per task the events of its last
step still to be appended, and `Publish` appends one: between any two events of a
command those of a tick and of a reconciliation can come, and the world has gone on
meanwhile. `PCommand`, `PTick` and `Reconcile` fill `sending` when it is empty, as
the loops do; `PLoop` goes on to the uploads when the tick's events are out. An
event is folded into the tables as it is appended (`Project`), which Projector
justifies: one that lags folds the same events in the same order. `disputed` is a
history variable: the responders that two tasks had events about at the same time,
until a move is told of that nothing else on the way can upset.

**LineOfSight** and **Pathfinding** run the two algorithms one loop iteration at a
time. The heap of `find_path` is a set ordered as heapq orders tuples. Their names
are kept apart, since GeometryProofs extends both.

### Browser

**MissionStore** is the store as a record and each operation as an operator on it:
duplicate suppression, the bounded log, the timeline whose overflow goes into the
base, and `TacticalState`, the mission the tactical view draws. The reducer is a
constant. **MissionReducer** is the code's reducer, for all event types, on rows
that may be objects somebody else still changes (`Shared`, with the values in a
heap).

**Console** puts the store, a feed of snapshots and events and the replay
controller together: `StepFrom` is `step()` with its timeout, `Play`, `Pause`,
`Restart`, `Seek`, `PlayFrom`, `SetSpeed` and `GoLive` the buttons, `Rearrange` the
panel unmounted and mounted anew, which clears the timeout and not the cursor. A
history variable holds what the operator saw when each event arrived.

**LiveFeed** is the way of events to a console: `Broadcast` and `SendSnapshot` of
`websocket.py` (the socket joins its room, then the rows are read, then the recent
events), `ws.ts` with its reconnects, and the loader of `useMissionConnection`.
Each visit of a page has its own loader and socket, and what an earlier visit left
behind goes on acting. `covered` is a history variable: the snapshot a socket got
contains what was broadcast before it joined.

**MockGeometry**, **MockBackend** and **MockConsole** are the in-browser mock: its
own line of sight and A*, its commands and tick with the order of assignments and
emitted events, and an operator on the landing page, the grid, the panels and the
toolbar. `MissionStore` is instantiated with the reducer on the mock's heap.
**GridView** is what the grid and the fire panel compute of a mission: what a cell
holds, where a tool may be used, routes, rays and markers, crews and rates.

**FlowEngine** is `createEngine` of the data flow view with the real diagram and
the real cascades of `topology.ts` and `signals.ts`: packets, saturated edges,
glow, the one loop of animation frames, hidden tabs as frames that come late. Its
names are kept apart from Console's, since ConsoleProofs extends both.

Left out everywhere: names, timestamps, correlation ids, notices, colours, the
`blocked_by` cell of signal events, logging. Uuids are numbers in the order they
are drawn. Definitions that follow a comment beginning "Fault" are deliberate
errors: each property is checked to fail when its named fault replaces the
definition.

## 3. Runs

All bounds are constants of the cfg files or operators of the MC modules.

| Run | Instance | Shows |
|---|---|---|
| `projector` | 2 processes, 3 events of 2 kinds, 2 kills, 1 rebalance of a live partition | exactly once and in order, no lost update, the offset never rewinds; implements AppliedLog; progress |
| `simulation_worker` | 2 commands of 2 types, 2 kills or failed calls anywhere, ticks whenever there is something to move | settled in order, nothing emitted after the ledger row, whole commands, the log tells the world; every command settled in the end |
| `simulation` | 3x2 grid, 1 fire, 2 responders, 5 commands, 1 failed upload | what is known of responders, arrival, fires going out |
| `projection` | the same with read model and telemetry worker | with events of three tasks interleaved one by one: agreement of world and read model; what the tables refuse; a backlog is sent |
| `line_of_sight` | all lines from 5x6 cells, some off the grid, to a 6x5 grid | all octants, ties, straight and empty lines |
| `pathfinding` | 4x3 grid, 3 starts, every goal, all sets of up to 3 mountains | detours, walled-off corners, start or goal under a mountain |
| `live_feed` | 2 missions of 1 and 2 events, 2 visits, 2 attempts, 1 drop, failed read or restart | only this mission's events; convergence with a covering snapshot; a page is loaded in the end |
| `console` | 4 events, 2 snapshots, a timeline of 2, every button | base, timeline and state agree; a frame is what was seen; one timer; a replay ends |
| `mock_console` | the seeded 3x2 scenario, 3 commands, 2 pending timeouts of the reset button | store and mock agree; the mock's world keeps in order; the mock's geometry is the server's; the grid tells the truth |
| `flow_engine` | the real diagram, 5 event types, 3 signals, edges of one packet | one loop, every hop once, rest in the end |
| `reset_refused` | as `projection` | **violation**: a reset with an assigned responder stops the projector |
| `central_state_drifts` | as `projection`, with the fire behind the mountain | **violation**: after an arrival in the dark the read model never catches up |

Why the bounds are enough. In `projector`, two processes and one rebalance give
the overlap of an old and a new owner at every pair of points, two kills a crash
during recovery, three events one before and one after the one in dispute. In
`simulation_worker`, a fire and a dispatch to it are the shortest pair in which
the second command depends on the first and has two events to be cut between, and
a moving responder gives the tick an event to put in the middle; two faults are a
failure during the recovery from another (three faults, 18 times the states, show
nothing more). In `simulation`, five commands place a fire, a responder and a
mountain, dispatch and change one thing more (a second dispatch, a removal, a move
of mission control, a reset, a second responder) at any moment of the way; the
path (2,1), (1,1), (1,0) goes dark and comes back in sight; intensity 7 is put out
in two ticks, the second of which removes more than is left. `projection` takes the
same commands, with every one of a step's events appended at any
moment between those of the two other tasks. In `live_feed`, the
second visit is of another mission, so what the first left behind would be seen in
its store; two events give one on either side of every snapshot. In `console`, four
events overflow a timeline of two twice, under a cursor that was set before. In
`mock_console` the seeded mission has a fire, a mountain and a responder to begin
with, so three commands dispatch it, change the terrain and do one thing more. In
`flow_engine` a packet of duration two meets others of one on the same edge, and an
edge that holds one packet is saturated by the second signal. The limits of the
code, 100 events, 50 recent ones, 6 attempts, are constants that these runs make
small. Deadlock is not checked where runs have bounded budgets or the algorithm
ends.

Fairness. Projector: a live process goes on with its loop, a dead one is
restarted by docker, an unowned partition is assigned; nothing makes events
arrive. SimulationWorker: a live consumer goes on and a dead process is restarted;
ticks, commands and faults owe nothing. Simulation: the tick task wakes after each
sleep and its awaits return; commands and failures owe nothing. Projection: the
tick task wakes (`Wake`), appends what it has and goes through its uploads, where
the send is owed while the responder's row is there and the refusal while it is
not; the consumer appends what it has while the process lives, and takes commands
when it likes. The telemetry worker owes nothing: `BacklogIsUploaded` ends with
the send. Console: a timeout that is due runs. LiveFeed:
requests are answered or fail, retries and reconnects happen, the server's awaits
return, frames arrive; the projector, the broadcaster and the operator owe
nothing. FlowEngine: time passes, and a frame that was requested runs. Projector's
`EventuallyApplied` excuses events behind a refused one, since the code retries it
for ever. `ReplayEnds` speaks of a replay that is left to its own timer and to the
feed: its premise is that from some point on these are the only steps, so a timer
that started the log over would violate it. `EventuallyStill` speaks of signals
that cease.

What the preconditions of some properties say is itself a result:

* `ReadModelAgrees` speaks of what nothing on its way is about: terrain, the fires
  and responders there are and assignments once the command's events are appended,
  a fire once its events are, a responder once events and uploads about it are. It
  leaves out a responder while it is disputed. A RESPONDER_MOVED appended between
  RESPONDER_DISPATCHED and RESPONDER_PATH_ASSIGNED, or after both though it happened
  before, leaves status or index of the row wrong. Its next move in sight mends the
  row; a responder that makes none, since it has arrived, is shown wrong for good.
* `StopsOnlyAt` lets events of the tick task and the telemetry worker be refused
  when commands have overtaken them. That does happen: a reset is appended before
  the rest of a tick's events, whose rows it deleted; and a fire placed under a
  responder has its intensity changed by a tick whose event is appended before
  FIRE_CREATED.
* `BacklogIsUploaded` asks that the backlog of a connected responder is sent to the
  telemetry topic, so taking it is not enough and a failed upload that dropped it
  would violate it. It excuses a responder that is removed or dark again with its
  moves, one whose row is past the event the projector stopped at, and a process
  that has ended: `DictChanged` does end it.
* `LedgeredIsWhole` and `LogTellsWorld` excuse a worker that has been astray. Then
  they do not hold: RESPONDER_DISPATCHED is published, the worker is killed, and
  `rehydrate` runs before the projector has the fire; the second attempt finds no
  fire, emits nothing and is marked processed. Half of the command stands for good.
  A send that fails, and a tick's event between two of a command, leave memory and
  log apart until the next restart.
* `LedgeredNotRepeated` is what is true of the worker's docstring, that a redelivery
  does not re-emit: it holds once the ledger row is committed. A worker killed
  before that does carry the command out again.
* `ConvergesWhenCovered` needs `covered`, which the comments at `websocket.py:61` and
  `:85-86` take for granted. Without it TLC finds an event that is broadcast before
  the socket joins its room and projected after its snapshot was read: that console
  never sees it, until it connects again.
* `FrameWasSeen` speaks of cursors still in the timeline; an older one shows the base.
* `GridTellsTruth` says that a tool whose preview is valid has an effect, with two
  exceptions. A fire on a burning cell comes to nothing. The dispatch tool's preview
  is valid over any fire, but with nobody of the mission selected its click only
  clears the selection; with somebody selected it does dispatch.
* `GridTellsTruth` speaks of the mission now. On the mock it is not true of every
  frame of the past: RESPONDER_CREATED carries the mock's own object, so a frame
  between it and the first RESPONDER_MOVED shows that responder where it is *now*,
  and a cell may pick a responder that is drawn elsewhere. It takes a log of six
  events to see this, well below the code's 100. Commands are refused while a
  frame is shown, so nothing but the picture is wrong. Frames of the past are not
  checked.

## 4. What the violations say

`ResetIsProjected`: `_mission_reset` deletes fires before responders, against the
foreign key of `assigned_fire_id`; outbox rows refer to responders in the same
way. Place a fire, create a responder, dispatch it, reset: the projector exits on
that event and on every restart, and every mission of the partition waits behind
it, while the in-memory world has been cleared.

`CentralStateCatchesUp`: reconciliation carries a position. A responder that
arrives while blocked emits no `RESPONDER_MOVED`, so its row stays `moving` with an
old `path_index`; a worker restarted from that row would walk the path again. With
`FireCells <- MCFireCells` in the same cfg TLC finds a second way: reconciliation
handled after the responder's last move puts it one cell back for good.

`StopsOnlyAt` is the positive side: of a command's own events only a mountain placed
twice and a reset can be refused, and of the others' only what commands have
overtaken.

## 5. Proofs

`ProjectorProofs` proves, for any set of processes, any read model, handlers and
bounds (the named assumptions of Projector: `None` is not a process, the bounds
are naturals, the empty model is a model, an accepted event leads to a model):

| Theorem | States |
|---|---|
| `TypeCorrect` | `[]TypeOK` |
| `AppliedExactlyOnceInOrder` | `[]ExactlyOnceInOrder` |
| `OffsetNeverAhead` | `[]OffsetBehindLedger` |
| `NoUpdateLost` | `[]NoLostUpdate` |
| `OffsetMonotone` | `[][offset' >= offset]_vars` |
| `ProjectorImplementsAppliedLog` | `Abstract!Spec` under `applied <- Len(history)` |

None of the safety properties is inductive alone. The invariant `Inductive` adds,
per process (`Progress`), that what it fetched is at most one past the history
while it checks and applies, that a session about to commit holds the effect of
the next event unless the ledger has overtaken it, and (`OwnerAhead`) that the
owner's position is not behind the committed offset, which is what keeps
the offset from going back. Lemma `LocalStep` covers the steps that change one
process only; there is one lemma per action and `NextInductive` combines them.
Refinement follows because `CommitTransaction` is the only step that lengthens the
history, and by the invariant it folds in the next event.

`FoldTheorems` is what the other proofs need of folds. A mission, a read model, a
store and a replay are each folded from events, and `Fold` is a recursive
function. The library's induction principles take an operator and cannot be used
with the provers at hand, so the module derives, from the well-founded order of
the naturals, that a set of naturals that is not empty has a least element
(`Least`) and that a set of naturals closed under "all before, then this one"
holds them all (`InductionUpTo`). A predicate to be shown is then the set of the
numbers that have it. It follows that a fold is the end of any trace of its steps
(`TraceUnique`, `TraceExists`, `FoldIsTrace`), that a concatenation is folded part
by part (`FoldConcat`), so that what each step keeps the whole keeps (`FoldStays`)
and what each step advances the whole reaches (`FoldReaches`). The community
modules' `FoldLeft` and `FlattenSeq` are defined by other recursions: `LeftFoldIsFold`
and `FlattenIsFold` say that they come to the same, and `LeftTrace` that a
`FoldLeft` has a trace.

`SimulationWorkerProofs` proves, for any mission, any commands, handlers and
bounds:

| Theorem | States |
|---|---|
| `CommandsSettledInOrder` | `[]SettledInOrder` |
| `LedgeredEmitsNoMore` | `LedgeredNotRepeated` |
| `WorldIsTold` | `[]LogTellsWorld` |
| `LedgeredCommandsAreWhole` | `[]LedgeredIsWhole` |

Assumed is that handlers make events and events lead from missions to missions
(`WorldAssumption`) and, for the last theorem, `StandingAssumption`: where a command
comes to something, it does so again after any of its own events and after any of
a tick's. `handle_command` returns nothing only where the mission, the responder
or the fire it names is missing, and none of these events removes what the command
names.

The invariant `Inductive` says where the consumer is (`Placed`: at the committed
offset or one command beyond), that only the command being published, which has no
ledger row, has events pending (`Covered`, `Ordered`) and that nothing in the log
belongs to a command beyond it, without which the order would not survive a
commit. `Told` is `LogTellsWorld` with nothing pending in a dead process.
`LedgeredIsWhole` compares two attempts at a command, the first of them cut short.
`Kept` adds that once there is an event of the command next in line, the command
comes to something on the mission the log tells from there on (`Stands`), so that
the second attempt is not an empty one, and that the last event there is of a
ledgered command, or of the one being published, is its last (`Whole`).

The first half of `ProjectionProofs` (sections 1 to 6) proves of Simulation, for any
grid, any line of sight and any bounds:

| Theorem | States |
|---|---|
| `WorldTypeCorrect` | `[]TypeOK`, with every path index inside its path |
| `BlockedAlwaysHidden` | `[]BlockedIsHidden` |
| `ConnectedAlwaysKnown` | `[]ConnectedIsKnown` |
| `DarkMovesAlwaysBuffered` | `[]DarkMovesBuffered` |
| `CrewsAtTheirFires` | `[]FightingAtItsFire` |
| `BlackoutFreezesLastKnown` | `LastKnownFrozen` |
| `DarkPositionsNeverLeak` | `[]NoDarkPositionLeaks` |

Its assumptions are those of Simulation: operators put things on cells,
intensities are naturals, and a route is a non-empty sequence of cells from the
responder to the fire (which `pathfinding` checks of `find_path`). The invariant
is `Sound(world, drawn)`. `FightingAtItsFire` is not inductive without `Bound`,
that the path of a moving responder ends at its assigned fire, and
`DarkMovesBuffered` needs `ConnectedIsKnown` at the moment a backlog is taken: the
responder is then connected, so nothing is left to explain. The lemmas of its
section 2 say that each pure function keeps a sound mission sound; commands that change
the terrain only start from `NearlySound`, since the statuses are stale until
`RecomputeAllSignals`. Section 3 lifts them to the steps, section 5 does the same
for the frozen last known cell. Section 6 is about the events of a step: they are
what each responder and each fire contributes, concatenated in dict order, and a
concatenation of parts that tell nothing of a hidden cell (`Discreet`) tells
nothing of one.

The second half (sections 7 to 15) goes on from there with the read model and the
three tasks, for any grid, routes and bounds:

| Theorem | States |
|---|---|
| `ProjectorStopsOnlyAt` | `[]StopsOnlyAt` |
| `TablesMirrorTheWorld` | `[]ReadModelAgrees` |

Both are of `PSpec`, in which the events of the tasks are appended in any order that
keeps each task's own. What makes them provable is that the invariant, `Agreement`,
is about the *set* of events on their way (`Pending`: to be appended, or to be made
of uploads), not about their order. Every one of them is true of the world as it is
now (`Truthful`), and whatever a row has wrong is put right by one of them
(`Mirrors`); so it does not matter which is appended next (section 14), and when
nothing is left the row is right. A task that goes on makes the events another task
has on its way untrue only if it tells of the same responder: that is when
`disputed` takes the responder out, and a told move, which tells all of a row, lets
it back in. `Mirrors` is not asked of what a blackout keeps from the tables: the
status and index of a responder that is not `Whole`. What only commands change,
terrain, the fires and responders there are and who is assigned where, is in the
world what the next event of the command makes of the tables (`Grounded`). A
handler fails only where a row is missing, a cell is taken or a key is referred to,
and this says when a row is missing: when a reset, which is the consumer's event,
was appended first, or the creation has not been.

`LiveFeedProofs` proves, for any missions, logs of distinct events, visits,
attempts and faults:

| Theorem | States |
|---|---|
| `StoreHoldsOnlyItsMission` | `[]OnlyThisMission` |
| `ConsoleConverges` | `[]ConvergesWhenCovered` |

Assumed is that the reducer stays within a mission's states and leaves its id
alone (`StateAssumption`). The invariant says that only the visit on screen has a
loader or socket that can still reach the store (`Placed`), that the store holds
events of that mission only (`Kept`), and, for convergence (`InStep`), that a socket
with a covering snapshot has received it (`Reached`) or has it on the wire
(`Awaiting`). In the first case the store is at the further of what was sent and what
the snapshot held, the events on the wire go on from what was sent, and the events
that both hold are among the recent ids of the snapshot, so that `applyEvent` drops
them.

`ConsoleProofs` proves, for the replay, for any reducer, any log of distinct events
and any bounds, and for the animation engine, for any durations and limits:

| Theorem | States |
|---|---|
| `BaseAndTimelineFold` | `[]FoldsTimeline` |
| `ReplayShowsWhatWasSeen` | `[]FrameWasSeen` |
| `NoStrayTimer` | `[]OneReplayTimer` |
| `EngineRunsOneLoop` | `[]OneLoop` |
| `EveryHopIsMadeOnce` | `[]EveryHopOnce` |

The first two rest on one invariant: the mission seen at each event of the timeline
is the reducer's of the one before it, the base comes first and the state last
(`Chained`), with each event in the timeline once. That is a statement about
neighbours, which a step changes at one end; that it determines the fold is
`TraceUnique`. The third needs no more than the replay record.

The last two are proved together, since a frame is wanted while there are packets,
and the packets are what the hops made so far come to. The cascades are trees
(`FlowsAreTrees`, computed from the diagram): the branches after one edge share
nothing, and of two edges before a third one comes before the other. So when a hop
is spawned and saturated or unmeasured edges are passed over, a hop of its branch
that is not made comes after exactly one that is made and travels (`MadeOrOwed`),
and the debt of a hop, what is due of it less what packets will make
(`Debt`), falls by one for every hop of the branch (`HopPaysDebt`). A cascade that
starts is due as a whole and pays as a whole; packets that land no longer owe
what comes after them and pay it one by one (`LandingsRun`), whatever order the
set of hops after an edge is visited in. `TickKeeps` is the loop's part: the handle
of the frame that runs still counts while its landings ask for a frame, so they
request none, and the end of the tick alone decides on the next.

`GeometryProofs` proves, for grids of any size and any arguments with integer
coordinates:

| Theorem | States |
|---|---|
| `LinesAreIdeal` | `[]DrawsIdealLine` of `LineSpec` |
| `ShortestPathsAreFound` | `[]FindsShortestPath` |

For the line, a place is given by its distances from the start along the two axes,
and the accumulated error is an area: `pen.error` is the difference of the axes less
twice the area between the place and the ideal line (`PenAhead`). The two tests of
an iteration then say which of the neighbours is nearest (`AdvanceNear`). For A*,
`Search` says that the cells reached form a tree of walks from the start (`Tree`),
that a closed cell was reached by a shortest walk (`Settled`) and that its neighbours
have been reached (`Explored`). When the least entry of the heap is popped, any shorter
walk to its cell would have to leave the closed cells through one that is in the
heap with a smaller estimate (`ClosedOrAhead`), and the estimate never grows along a
step. The reference counts steps up to the number of cells only; that no cost
exceeds it is an injection into the grid (`CostsAreBounded`).

`MockConsoleProofs` proves, for any grid, line of sight, board and bounds:

| Theorem | States |
|---|---|
| `StoreHolds` | `[]StoreAgreesWithMock` |
| `WorldHolds` | `[]MockWorldSound` |
| `GridHolds` | `[]GridTellsTruth` |

Assumed is that a fire starts with some intensity and the store keeps an event
(`LimitsAssumption`), that the seeded board lies on the grid (`BoardAssumption`) and
that a route, where there is one, leads over the grid from the one cell to the other
(`RouteAssumption`, which `pathfinding` and `MirrorsServer` check of the two A*).

The invariant is `Sound(world)`. A command of the mock is a chain of assignments
and events, and the page's store is updated by each event inside the chain, so a
world between two links is only nearly sound: `SoundBut(w, S)` excuses the crews in
`S` and leaves the signals out, and `Agrees(w, r, related)` lets one responder stand to
its row in the store in a relation that the next event repairs (section 4).
`Agrees` is where the shared objects come in: a row of the store is either the
mock's object itself, which agrees whatever happens to it, or a copy that an event
has made, and then every assignment needs its event. None of the three
properties is inductive alone. `FightersAtWork` needs `Busy`, that a moving
responder stands on its path, that the path ends at its assigned fire and that the
fire burns, which is what a stand-down has to reach everybody for. The agreement of
store and mock needs `Messages`, that an id is never drawn twice, since the store
drops an event whose id it holds, and, for a row it shares, that a responder without
a path has no fire. `PlaceMountain` alone would raise a mountain on a fire: the step
of the operator is sound because a click is judged by what is displayed, and with no
cursor set that is the mission now (section 10). Section 11 reads the properties off
a sound world; the rate of a crew is one tick's worth of `ApplyFire` on the mission
the panel shows.

Model-checked only: `MirrorsServer`, which compares the tables of one instance, and
all liveness, since TLAPS does not treat liveness under fairness. The two runs that
expect a violation say what is not true.

## 6. Not modelled

* The telemetry worker's loop (ledger, kills between its two events): Projection
  takes each upload once. The loop is the consumer of SimulationWorker without a
  world and without dead letters.
* In Projection, a projector that lags while the outbox rows of an upload are checked:
  they are refused for want of the responder's row, put back and tried again at the
  next tick, as after a failure.
* Of the gateway, a broadcaster task that ends while its process lives, and more
  than one API process; of the API, a `POST /missions` whose publish fails after
  its rows are committed, and rows of one snapshot read at different points of the
  log (LiveFeed reads the tables in one step, the recent events in another).
* What a kill loses of a mission that no event tells: the local logs and positions
  of responders in the dark.
* In the browser: drawing, layout and geometry of pixels, notices, names, the choice
  of a tool (any tool may be used at any time), the selection of a fire.
* Schemas, migrations, configuration and deployment, which keep no state of their
  own; the restart policy and the table constraints are used where they matter.
