----------------------------- MODULE FlowEngine -----------------------------
(***************************************************************************)
(* The animation engine of the System Data Flow view, createEngine in      *)
(* hooks/useArchitectureSignals.ts.  A command the operator fires or an    *)
(* event that arrives starts a cascade: a tree of hops, each a packet that *)
(* travels an edge of the diagram and, when it lands, starts the hops      *)
(* after it.  Nodes and edges glow for a while.  One loop of animation     *)
(* frames moves everything and suspends itself when nothing is left.       *)
(*                                                                         *)
(* Time comes in units: a packet takes Dur[edge] of them.  Frames run at   *)
(* their own pace, as in a tab that may be in the background.  Colours and *)
(* positions are left out.  An engine is a record:                         *)
(*                                                                         *)
(*   traffic     the packets under way, oldest first, and, as history, the *)
(*               hops of the cascades started that are still to be made    *)
(*   glow        time until the last node or edge stops glowing            *)
(*   loop        raf: whether the engine believes a frame is requested;    *)
(*               frames: how many are requested                            *)
(*   since       time since the last tick event that was not coalesced     *)
(*   buffering   the count shown at the outbox                             *)
(*   connection  "connecting", which stands for open and mock too, or      *)
(*               "closed"                                                  *)
(***************************************************************************)
EXTENDS Naturals, Sequences, FiniteSets, SequencesExt, FiniteSetsExt

CONSTANTS Dur,               \* of each edge, 0 while it has no geometry
          NodeGlow, EdgeGlow,\* DECAY_NODE, DECAY_EDGE
          MaxPerEdge,        \* MAX_PER_EDGE
          Coalesce,          \* TICK_COALESCE
          MaxFresh,          \* MAX_FRESH
          EventTypes,        \* the types that arrive
          MaxSignals         \* bound: commands and events

ASSUME LimitsAssumption ==
  {NodeGlow, EdgeGlow, MaxPerEdge, Coalesce, MaxFresh, MaxSignals} \subseteq Nat
-----------------------------------------------------------------------------
(* lib/architecture/topology.ts and signals.ts *)

Edge ==
  {"e_http", "e_api_produce", "e_cmd_consume", "e_worker_produce", "e_proj_consume",
   "e_proj_write", "e_proj_ledger", "e_ws_consume", "e_ws_push", "e_dlq",
   "e_outbox_flush", "e_outbox_produce", "e_tel_consume", "e_tel_produce"}

ASSUME DurAssumption == Dur \in [Edge -> Nat]

(* A cascade: its first hop, and the hops that follow each hop.  No edge   *)
(* occurs twice in one.                                                    *)
CommandFlow ==
  [first |-> "e_http",
   then |-> [e_http |-> {"e_api_produce"}, e_api_produce |-> {"e_cmd_consume"},
             e_cmd_consume |-> {}]]

TelemetryFlow ==
  [first |-> "e_outbox_flush",
   then |-> [e_outbox_flush |-> {"e_outbox_produce"}, e_outbox_produce |-> {"e_tel_consume"},
             e_tel_consume |-> {"e_tel_produce"}, e_tel_produce |-> {}]]

DeadFlow == [first |-> "e_dlq", then |-> [e_dlq |-> {}]]

EventFlow ==
  [first |-> "e_worker_produce",
   then |-> [e_worker_produce |-> {"e_proj_consume", "e_ws_consume"},
             e_proj_consume |-> {"e_proj_write"}, e_proj_write |-> {},
             e_ws_consume |-> {"e_ws_push"}, e_ws_push |-> {}]]

(* A structural event goes on to the ledger. *)
StructuralFlow ==
  [first |-> "e_worker_produce",
   then |-> [e_worker_produce |-> {"e_proj_consume", "e_ws_consume"},
             e_proj_consume |-> {"e_proj_write"}, e_proj_write |-> {"e_proj_ledger"},
             e_proj_ledger |-> {}, e_ws_consume |-> {"e_ws_push"}, e_ws_push |-> {}]]

Flows == [command |-> CommandFlow, telemetry |-> TelemetryFlow, dead |-> DeadFlow,
          event |-> EventFlow, structural |-> StructuralFlow]

(* The edges travelled after an edge of a flow. *)
Beyond(then) ==
  LET beyond[e \in DOMAIN then] == UNION {{x} \union beyond[x] : x \in then[e]}
  IN  beyond
After == [f \in DOMAIN Flows |-> Beyond(Flows[f].then)]

TickTypes == {"RESPONDER_MOVED", "FIRE_INTENSITY_CHANGED"}

Structural ==
  {"MISSION_CREATED", "FIRE_CREATED", "RESPONDER_CREATED", "MOUNTAIN_PLACED",
   "MOUNTAIN_REMOVED", "RESPONDER_DISPATCHED", "RESPONDER_PATH_ASSIGNED",
   "FIRE_EXTINGUISHED", "MISSION_CONTROL_MOVED", "MISSION_RESET"}

(* The cascades an event starts, in order. *)
EventFlows(type) ==
  <<IF type \in Structural THEN "structural" ELSE "event">>
  \o (IF type = "ROUTE_NOT_FOUND" THEN <<"dead">> ELSE << >>)
  \o (IF type \in {"RESPONDER_RECONNECTED", "RESPONDER_POSITION_RECONCILED"}
      THEN <<"telemetry">> ELSE << >>)
-----------------------------------------------------------------------------
(* The engine *)

NewEngine == [traffic |-> [packets |-> << >>, due |-> [e \in Edge |-> 0]], glow |-> 0,
          loop |-> [raf |-> FALSE, frames |-> 0], since |-> Coalesce, buffering |-> 0,
          connection |-> "connecting"]

Ensure(loop) == IF loop.raf THEN loop ELSE [raf |-> TRUE, frames |-> loop.frames + 1]

BumpNode(g) == [g EXCEPT !.glow = Max({@, NodeGlow}), !.loop = Ensure(@)]
BumpEdge(g) == [g EXCEPT !.glow = Max({@, EdgeGlow}), !.loop = Ensure(@)]

ActiveOn(packets, e) == Cardinality({i \in DOMAIN packets : packets[i].edge = e})
Skips(packets, e) == Dur[e] = 0 \/ ActiveOn(packets, e) >= MaxPerEdge

Packets(f, edges) == SetToSeq({[flow |-> f, edge |-> e, age |-> 0] : e \in edges})

(* Fault: a saturated edge ends the cascade. *)
MadeOrDropped(packets, f, e) == {e}

(* The hops that spawning one makes: the hop, and past an edge a packet    *)
(* cannot travel the hops after it at once.                                *)
Made(packets, f, e) ==
  LET hops == {e} \union After[f][e]
  IN  {x \in hops : \A a \in hops : x \in After[f][a] => Skips(packets, a)}

WithHop(traffic, f, e) ==
  LET made == Made(traffic.packets, f, e)
  IN  [packets |-> traffic.packets
                   \o Packets(f, {x \in made : ~Skips(traffic.packets, x)}),
       due |-> [x \in Edge |-> traffic.due[x] - (IF x \in made THEN 1 ELSE 0)]]

Hops(f, edges) == {[flow |-> f, edge |-> e] : e \in edges}
Spawn(g, hop) == [BumpEdge(g) EXCEPT !.traffic = WithHop(@, hop.flow, hop.edge)]

(* A cascade starts: its hops are due. *)
Start(g, f) ==
  Spawn([g EXCEPT !.traffic.due =
           [e \in Edge |-> @[e] + (IF e \in DOMAIN Flows[f].then THEN 1 ELSE 0)]],
        [flow |-> f, edge |-> Flows[f].first])

(* The packets that have landed are taken out, newest first. *)
Landed(p) == p.age >= Dur[p.edge]
Part(parts, p) ==
  IF Landed(p) THEN [parts EXCEPT !.done = <<p>> \o @]
  ELSE [parts EXCEPT !.packets = Append(@, p)]
Parted(packets) == FoldLeft(Part, [done |-> << >>, packets |-> << >>], packets)
Done(g) == Parted(g.traffic.packets).done

(* They start the hops after them. *)
Land(g, p) ==
  FoldLeft(Spawn, BumpNode(BumpEdge(g)), SetToSeq(Hops(p.flow, Flows[p.flow].then[p.edge])))

Landings(g, done) ==
  FoldLeft(Land, [g EXCEPT !.traffic.packets = Parted(@).packets], done)

(* Fault: the loop does not suspend itself. *)
AgainAlways(g, done) == [g EXCEPT !.loop = [raf |-> TRUE, frames |-> @.frames + 1]]

(* Another frame is asked for while there is something to animate. *)
Again(g, done) ==
  LET busy == g.traffic.packets # << >> \/ g.glow > 0 \/ done # << >>
  IN  [g EXCEPT !.loop = [raf |-> busy, frames |-> @.frames + (IF busy THEN 1 ELSE 0)]]

(* tick: while it runs the handle of its own frame still counts. *)
Ran(g) == [g EXCEPT !.loop.frames = @ - 1]

(* Fault: the frame that runs is forgotten first, so that the hops it      *)
(* starts request another.                                                 *)
TickRearmed(g) == Again(Landings([Ran(g) EXCEPT !.loop.raf = FALSE], Done(g)), Done(g))

Tick(g) == Again(Landings(Ran(g), Done(g)), Done(g))

Command(g) ==
  IF g.connection = "closed" THEN g
  ELSE Start(BumpNode(g), "command")

(* A tick event too soon after another warms the lanes only. *)
Warms(g, type) == type \in TickTypes /\ g.since < Coalesce

BufferCount(n, type) ==
  CASE type = "SIGNAL_LOST" -> n + 1
    [] type = "RESPONDER_RECONNECTED" -> 0
    [] OTHER -> n

EventOf(g, type) ==
  LET counted == [g EXCEPT !.buffering = BufferCount(@, type)]
      swept == [counted EXCEPT !.since = IF type \in TickTypes THEN 0 ELSE @]
  IN  IF g.connection = "closed" THEN g
      ELSE IF Warms(g, type) THEN BumpEdge(BumpNode(counted))
      ELSE FoldLeft(Start, BumpNode(swept), EventFlows(type))

Dispose(g) == [g EXCEPT !.loop = [raf |-> FALSE, frames |-> @.frames - (IF @.raf THEN 1 ELSE 0)]]
-----------------------------------------------------------------------------
(* The hook *)

VARIABLES
  engine,
  mounted,
  replaying,   \* the replay controller is not idle
  primed,      \* a first batch of events has been skipped
  signals

engineVars == <<engine, mounted, replaying, primed, signals>>

EngineInit == engine = NewEngine /\ mounted = TRUE /\ replaying = FALSE /\ primed = FALSE /\ signals = 0

Signals(n) == mounted /\ signals + n <= MaxSignals /\ signals' = signals + n

(* activityBus.emitCommand *)
Ping ==
  /\ Signals(1) /\ engine' = Command(engine)
  /\ UNCHANGED <<mounted, replaying, primed>>

(* Events newer than the last head seen: the last few are animated, but    *)
(* not the first batch and not during a replay.                            *)
Arrive(fresh) ==
  /\ Signals(Len(fresh)) /\ primed' = TRUE
  /\ engine' = IF replaying \/ ~primed THEN engine
               ELSE FoldLeft(EventOf, engine,
                             SubSeq(fresh, Len(fresh) + 1 - Min({MaxFresh, Len(fresh)}), Len(fresh)))
  /\ UNCHANGED <<mounted, replaying>>

ReplayStep(type) ==
  /\ replaying /\ Signals(1) /\ engine' = EventOf(engine, type)
  /\ UNCHANGED <<mounted, replaying, primed>>

SetReplaying(b) ==
  /\ mounted /\ replaying' = b
  /\ UNCHANGED <<engine, mounted, primed, signals>>

SetConnection(c) ==
  /\ mounted /\ engine' = [engine EXCEPT !.connection = c]
  /\ UNCHANGED <<mounted, replaying, primed, signals>>

Unmount ==
  /\ mounted /\ mounted' = FALSE /\ engine' = Dispose(engine)
  /\ UNCHANGED <<replaying, primed, signals>>

Mount ==
  /\ ~mounted /\ mounted' = TRUE /\ engine' = NewEngine
  /\ replaying' = FALSE /\ primed' = FALSE
  /\ UNCHANGED signals

Frame ==
  /\ engine.loop.frames > 0 /\ engine' = Tick(engine)
  /\ UNCHANGED <<mounted, replaying, primed, signals>>

Aged(p) == [p EXCEPT !.age = Min({@ + 1, Dur[p.edge]})]

(* A unit of time, as far as anything in the engine can tell. *)
Pass ==
  /\ mounted
  /\ engine' = [engine EXCEPT
       !.traffic.packets = [i \in DOMAIN @ |-> Aged(@[i])],
       !.glow = IF @ = 0 THEN 0 ELSE @ - 1,
       !.since = Min({@ + 1, Coalesce})]
  /\ engine' # engine
  /\ UNCHANGED <<mounted, replaying, primed, signals>>

Batches == {<<t>> : t \in EventTypes} \union (EventTypes \X EventTypes)

Signal ==
  \/ Ping
  \/ \E fresh \in Batches : Arrive(fresh)
  \/ \E type \in EventTypes : ReplayStep(type)

EngineNext ==
  \/ Signal \/ Frame \/ Pass \/ Mount \/ Unmount
  \/ \E b \in BOOLEAN : SetReplaying(b)
  \/ \E c \in {"connecting", "closed"} : SetConnection(c)

EngineSpec == EngineInit /\ [][EngineNext]_engineVars

(* Time passes, and a browser runs the frames it is asked for: weak        *)
(* fairness of Frame, with the condition under which it has an effect      *)
(* written out.                                                            *)
NoFrame == engine.loop.frames = 0 \/ Tick(engine) = engine
FramesRun == []<>NoFrame \/ []<><<Frame>>_engineVars

EngineFairSpec == EngineSpec /\ FramesRun /\ WF_engineVars(Pass)
-----------------------------------------------------------------------------
(* As long as a packet travels or anything glows a frame is coming, and    *)
(* never more than one: the landing of a packet inside a frame does not    *)
(* start a second loop, and a frame never reaches an unmounted engine.     *)
OneLoop ==
  /\ engine.loop.frames = IF engine.loop.raf THEN 1 ELSE 0
  /\ mounted /\ (engine.traffic.packets # << >> \/ engine.glow > 0) => engine.loop.raf
  /\ ~mounted => engine.loop.frames = 0

(* Every hop of every cascade is made exactly once: a hop not yet made is  *)
(* one that a packet under way will start, also past saturated edges.      *)
EveryHopOnce ==
  \A e \in Edge :
    engine.traffic.due[e] = Quantify(DOMAIN engine.traffic.packets, LAMBDA i :
      e \in After[engine.traffic.packets[i].flow][engine.traffic.packets[i].edge])

(* When signals cease every cascade runs out and the loop suspends itself. *)
Still == engine.loop.frames = 0 /\ (mounted => engine.traffic.packets = << >>)
EventuallyStill == <>[][~Signal]_engineVars => <>[]Still
=============================================================================
