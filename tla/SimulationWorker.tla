-------------------------- MODULE SimulationWorker --------------------------
(***************************************************************************)
(* workers/simulation_worker.py: the loop that carries out the commands of *)
(* mission.commands.v1 and the tick task beside it, between their awaits.  *)
(* There is one worker process; it may be killed anywhere, and what it     *)
(* knows of a mission is then rebuilt from the read model.                 *)
(*                                                                         *)
(* A mission and what handle_command and run_tick do to it are constants:  *)
(* World and Simulation say what they are.  The mission here is what its   *)
(* events tell of it: moves in the dark and local logs, which none tells   *)
(* and a kill loses, are Simulation's.  A command is known by its place in *)
(* the partition.  An event is a record of its body, the command it        *)
(* carries out (0 for a tick) and whether it is that command's last.       *)
(***************************************************************************)
EXTENDS Integers, Sequences, FiniteSets, FiniteSetsExt, SequencesExt

CONSTANTS Command,
          World,            \* missions in memory
          Body,             \* bodies of events
          FirstWorld,       \* the mission before any event
          Handle(_, _),     \* handle_command: the bodies of its events
          TickBodies(_),    \* run_tick: the bodies of its events
          Apply(_, _),      \* a mission after an event
          MaxCommands,      \* bound: commands sent
          MaxFaults         \* bound: kills of the worker, calls that fail

ASSUME WorldAssumption ==
  /\ FirstWorld \in World
  /\ \A w \in World : /\ \A b \in Body : Apply(w, b) \in World
                      /\ \A c \in Command : Handle(w, c) \in Seq(Body)
                      /\ TickBodies(w) \in Seq(Body)
(* handle_command comes to nothing only where the mission, the responder   *)
(* or the fire is missing, and neither its own events nor a tick's remove  *)
(* any of them.                                                            *)
ASSUME StandingAssumption ==
  \A w, v \in World, c \in Command :
    Handle(w, c) # << >> =>
      \A b \in Range(Handle(v, c)) \union Range(TickBodies(v)) : Handle(Apply(w, b), c) # << >>
ASSUME BoundsAssumption == MaxCommands \in Nat /\ MaxFaults \in Nat

VARIABLES
  commands,    \* mission.commands.v1
  offset,      \* the committed offset of simulation-workers
  ledger,      \* the commands with a row in processed_messages
  dead,        \* the commands sent to the dead letter topic
  events,      \* mission.events.v1
  projected,   \* those the projector had folded in at the last restart
  pc,          \* where the consumer is
  position,    \* the command it has fetched
  world,       \* the mission in memory
  pending,     \* events the mission has gone through but not yet published
  astray,      \* the mission in memory is not what the log tells (history)
  strayed,     \* it has been astray before (history)
  faults       \* kills and failures so far

broker == <<commands, offset, dead, events>>
tables == <<ledger, projected>>
memory == <<pc, position, world, pending>>
history == <<astray, strayed>>
vars == <<broker, tables, memory, history, faults>>

PC == {"poll", "check", "publish", "dead", "commit", "down"}

(* A mission after events with these bodies. *)
Fold(mission, bodies) ==
  LET after[i \in 0 .. Len(bodies)] ==
        IF i = 0 THEN mission ELSE Apply(after[i - 1], bodies[i])
  IN  after[Len(bodies)]

Bodies(es) == [i \in DOMAIN es |-> es[i].body]

Batch(k, bodies) ==
  [i \in DOMAIN bodies |-> [command |-> k, last |-> i = Len(bodies), body |-> bodies[i]]]

Strays(b) == astray' = b /\ strayed' = (strayed \/ b)

OfConsumer == {i \in DOMAIN pending : pending[i].command # 0}
OfTick == {i \in DOMAIN pending : pending[i].command = 0}

Init ==
  /\ commands = << >> /\ offset = 0 /\ ledger = {} /\ dead = {}
  /\ events = << >> /\ projected = 0
  /\ pc = "poll" /\ position = 0 /\ world = FirstWorld /\ pending = << >>
  /\ astray = FALSE /\ strayed = FALSE
  /\ faults = 0
-----------------------------------------------------------------------------
(* The API *)

Send(c) ==
  /\ Len(commands) < MaxCommands
  /\ commands' = Append(commands, c)
  /\ UNCHANGED <<offset, dead, events, tables, memory, history, faults>>
-----------------------------------------------------------------------------
(* _consume *)

(* Fault: the offset is committed as the command is fetched. *)
FetchCommits ==
  /\ pc = "poll" /\ position < Len(commands)
  /\ position' = position + 1 /\ offset' = position' /\ pc' = "check"
  /\ UNCHANGED <<commands, dead, events, tables, world, pending, history, faults>>

Fetch ==
  /\ pc = "poll" /\ position < Len(commands)
  /\ position' = position + 1 /\ pc' = "check"
  /\ UNCHANGED <<broker, tables, world, pending, history, faults>>

(* Fault: the offset of a command handled before is not committed. *)
AlreadyProcessedUncommitted ==
  /\ pc = "check" /\ position \in ledger
  /\ pc' = "poll"
  /\ UNCHANGED <<broker, tables, position, world, pending, history, faults>>

AlreadyProcessed ==
  /\ pc = "check" /\ position \in ledger
  /\ pc' = "commit"
  /\ UNCHANGED <<broker, tables, position, world, pending, history, faults>>

(* Faults: the ledger is not consulted, or is written first. *)
HandleCommandUnchecked ==
  /\ pc = "check"
  /\ LET bodies == Handle(world, commands[position])
     IN  world' = Fold(world, bodies) /\ pending' = pending \o Batch(position, bodies)
  /\ pc' = "publish"
  /\ UNCHANGED <<broker, tables, position, history, faults>>

HandleCommandMarked ==
  /\ pc = "check" /\ position \notin ledger
  /\ LET bodies == Handle(world, commands[position])
     IN  world' = Fold(world, bodies) /\ pending' = pending \o Batch(position, bodies)
  /\ pc' = "publish" /\ ledger' = ledger \union {position}
  /\ UNCHANGED <<broker, projected, position, history, faults>>

(* handle_command changes the mission before any of its events is sent. *)
HandleCommand ==
  /\ pc = "check" /\ position \notin ledger
  /\ LET bodies == Handle(world, commands[position])
     IN  world' = Fold(world, bodies) /\ pending' = pending \o Batch(position, bodies)
  /\ pc' = "publish"
  /\ UNCHANGED <<broker, tables, position, history, faults>>

(* An event is appended; one that overtakes an older event of the other    *)
(* task leaves the log in an order the mission did not go through.         *)
PublishPending(i) ==
  /\ events' = Append(events, pending[i])
  /\ pending' = RemoveAt(pending, i)
  /\ Strays(astray \/ i > 1)
  /\ UNCHANGED <<commands, offset, dead, tables, pc, position, world, faults>>

PublishEvent ==
  /\ pc = "publish" /\ OfConsumer # {}
  /\ PublishPending(Min(OfConsumer))

MarkProcessed ==
  /\ pc = "publish" /\ OfConsumer = {}
  /\ ledger' = ledger \union {position} /\ pc' = "commit"
  /\ UNCHANGED <<broker, projected, position, world, pending, history, faults>>

DeadLetter ==
  /\ pc = "dead"
  /\ dead' = dead \union {position} /\ pc' = "commit"
  /\ UNCHANGED <<commands, offset, events, tables, position, world, pending, history, faults>>

Commit ==
  /\ pc = "commit"
  /\ offset' = position /\ pc' = "poll"
  /\ UNCHANGED <<commands, dead, events, tables, position, world, pending, history, faults>>

Consume ==
  \/ Fetch \/ AlreadyProcessed \/ HandleCommand \/ PublishEvent \/ MarkProcessed
  \/ DeadLetter \/ Commit
-----------------------------------------------------------------------------
(* _tick: the task sleeps again once all its events are published. *)

RunTick ==
  /\ pc # "down" /\ OfTick = {}
  /\ LET bodies == TickBodies(world)
     IN  world' = Fold(world, bodies) /\ pending' = pending \o Batch(0, bodies)
  /\ UNCHANGED <<broker, tables, pc, position, history, faults>>

PublishTickEvent ==
  /\ pc # "down" /\ OfTick # {}
  /\ PublishPending(Min(OfTick))
-----------------------------------------------------------------------------
(* What goes wrong *)

Fault == faults < MaxFaults /\ faults' = faults + 1

CheckFails ==
  /\ Fault /\ pc = "check"
  /\ pc' = "dead"
  /\ UNCHANGED <<broker, tables, position, world, pending, history>>

(* What is pending without the consumer's events, which stand together. *)
TickPending ==
  SubSeq(pending, 1, Min(OfConsumer) - 1) \o SubSeq(pending, Max(OfConsumer) + 1, Len(pending))

(* A send that fails may have been appended.  What is left of the command  *)
(* is not sent, though the mission has gone through it.                    *)
PublishFails(appended) ==
  LET i == Min(OfConsumer)
  IN  /\ Fault /\ pc = "publish" /\ OfConsumer # {}
      /\ events' = IF appended THEN Append(events, pending[i]) ELSE events
      /\ pending' = TickPending
      /\ Strays(astray \/ ~appended \/ i > 1 \/ OfConsumer # {i})
      /\ pc' = "dead"
      /\ UNCHANGED <<commands, offset, dead, tables, position, world>>

(* A transaction that fails may have been committed. *)
MarkFails(committed) ==
  /\ Fault /\ pc = "publish" /\ OfConsumer = {}
  /\ ledger' = IF committed THEN ledger \union {position} ELSE ledger
  /\ pc' = "dead"
  /\ UNCHANGED <<broker, projected, position, world, pending, history>>

(* A kill, or an error of the tick task, of the dead letter or of the      *)
(* commit, which end the process.                                          *)
Crash ==
  /\ Fault /\ pc # "down"
  /\ pc' = "down" /\ world' = FirstWorld /\ pending' = << >>
  /\ UNCHANGED <<broker, tables, position, history>>

(* Fault: the missions are not rebuilt. *)
RestartAfresh ==
  /\ pc = "down"
  /\ pc' = "poll" /\ position' = offset
  /\ projected' \in projected .. Len(events)
  /\ world' = FirstWorld
  /\ Strays(projected' < Len(events))
  /\ UNCHANGED <<broker, ledger, pending, faults>>

(* rehydrate, from what the projector has folded in by now, then the       *)
(* consumer starts at the committed offset.                                *)
Restart ==
  /\ pc = "down"
  /\ pc' = "poll" /\ position' = offset
  /\ projected' \in projected .. Len(events)
  /\ world' = Fold(FirstWorld, Bodies(SubSeq(events, 1, projected')))
  /\ Strays(projected' < Len(events))
  /\ UNCHANGED <<broker, ledger, pending, faults>>

Fails ==
  \/ CheckFails \/ Crash
  \/ \E b \in BOOLEAN : PublishFails(b) \/ MarkFails(b)
-----------------------------------------------------------------------------
Next ==
  \/ \E c \in Command : Send(c)
  \/ Consume \/ RunTick \/ PublishTickEvent \/ Fails \/ Restart

Spec == Init /\ [][Next]_vars

(* A live consumer goes on, a dead process is restarted by docker.         *)
FairSpec == Spec /\ WF_vars(Consume) /\ WF_vars(Restart)
-----------------------------------------------------------------------------
(* The worker commits no offset before what it covers is settled, in the   *)
(* ledger or in the dead letters, and carries commands out in their order, *)
(* whatever is killed in between: also the repeated part of a command      *)
(* comes before anything of the next.                                      *)
Settled == ledger \union dead
SettledInOrder ==
  /\ 1 .. offset \subseteq Settled
  /\ \A i, j \in DOMAIN events :
       i < j /\ events[j].command # 0 => events[i].command <= events[j].command

(* What is true of "a redelivery doesn't re-emit": a command whose ledger  *)
(* row is committed emits no more.  One killed before it does.             *)
Emitted(k) == {i \in DOMAIN events : events[i].command = k}
LedgeredNotRepeated == [][\A k \in ledger : Emitted(k)' = Emitted(k)]_vars

(* The last events of a command in the ledger are all there, also when a   *)
(* kill cut an earlier attempt short, unless the mission in memory has     *)
(* been astray: its second attempt can then come to nothing, and half of   *)
(* the command stands.                                                     *)
LedgeredIsWhole ==
  ~strayed =>
    \A k \in ledger : Emitted(k) # {} => events[Max(Emitted(k))].last

(* The mission in memory is what the events tell, those of repeated and    *)
(* cut commands included, except after an event overtook another, a send   *)
(* failed or a restart was ahead of the projector; a restart behind which  *)
(* nothing is left to project puts it right.                               *)
LogTellsWorld ==
  pc # "down" /\ ~astray => world = Fold(FirstWorld, Bodies(events \o pending))

(* Every command is settled for good in the end. *)
EventuallySettled == \A k \in 1 .. MaxCommands : k <= Len(commands) ~> k <= offset
=============================================================================
