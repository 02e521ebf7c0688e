------------------------------ MODULE Projector ------------------------------
(***************************************************************************)
(* The consumer loop of workers/projector_worker.py with the idempotency   *)
(* ledger of services/idempotency.py: the processes of the consumer group  *)
(* state-projectors read one partition of mission.events.v1, apply each    *)
(* event and its ledger row in one transaction, then commit the offset.    *)
(*                                                                         *)
(* A message id is a fresh uuid, so it is represented by the position of   *)
(* the event in the partition.  The read model is left to the constants    *)
(* Apply and Accepts: Accepts(m, b) is FALSE when the handler of b raises  *)
(* or a constraint of the database refuses its rows.                       *)
(***************************************************************************)
EXTENDS Naturals, Sequences

CONSTANTS Workers,          \* processes of the group (one, or more in a rebalance)
          None,             \* no process owns the partition
          Body,             \* event bodies
          Model,            \* values of the read model
          EmptyModel,       \* the read model of an empty log
          Apply(_, _),      \* the read model after a handler
          Accepts(_, _),    \* the handler and the constraints accept the event
          MaxLog,           \* bound: events published
          MaxCrashes,       \* bound: processes killed from outside
          MaxRebalances     \* bound: partition taken from a live process

ASSUME NoneAssumption == None \notin Workers
ASSUME BoundsAssumption == MaxLog \in Nat /\ MaxCrashes \in Nat /\ MaxRebalances \in Nat
ASSUME EmptyModelAssumption == EmptyModel \in Model
ASSUME ApplyAssumption ==
  \A m \in Model, b \in Body : Accepts(m, b) => Apply(m, b) \in Model

VARIABLES
  log,          \* the partition of mission.events.v1
  offset,       \* the group's committed offset
  owner,        \* the process the coordinator has given the partition to
  ledger,       \* processed_messages: ids seen
  history,      \* mission_events: ids of the rows, in insertion order
  model,        \* the current-state tables
  pc,           \* where each process is in its loop
  position,     \* messages each process has fetched
  staged,       \* the current-state tables as each open session would write them
  crashes,      \* processes killed so far
  rebalances    \* partitions taken from a live process so far

vars == <<log, offset, owner, ledger, history, model, pc, position, staged,
          crashes, rebalances>>

tables == <<ledger, history, model>>      \* Postgres
broker == <<log, offset, owner>>          \* Kafka
budget == <<crashes, rebalances>>

PC == {"down", "joining", "poll", "check", "apply", "txn", "offset"}

Init ==
  /\ log = << >> /\ offset = 0 /\ owner = None
  /\ ledger = {} /\ history = << >> /\ model = EmptyModel
  /\ pc = [w \in Workers |-> "joining"]
  /\ position = [w \in Workers |-> 0]
  /\ staged = [w \in Workers |-> EmptyModel]
  /\ crashes = 0 /\ rebalances = 0

(* The simulation and telemetry workers append to the partition. *)
Publish(b) ==
  /\ Len(log) < MaxLog
  /\ log' = Append(log, b)
  /\ UNCHANGED <<offset, owner, tables, pc, position, staged, budget>>

(* Fault: the process resumes at the end of the partition. *)
AssignLatest(w) ==
  /\ pc[w] = "joining" /\ owner \in {None, w}
  /\ owner' = w
  /\ pc' = [pc EXCEPT ![w] = "poll"]
  /\ position' = [position EXCEPT ![w] = Len(log)]
  /\ UNCHANGED <<log, offset, tables, staged, budget>>

(* The coordinator gives the partition to a process that has joined, which *)
(* resumes from the committed offset.  A live owner that loses it is not   *)
(* told: it goes on with what it holds until its offset commit is refused. *)
Assign(w) ==
  /\ pc[w] = "joining" /\ owner # w
  /\ IF owner = None \/ pc[owner] = "down"
     THEN UNCHANGED rebalances
     ELSE rebalances < MaxRebalances /\ rebalances' = rebalances + 1
  /\ owner' = w
  /\ pc' = [pc EXCEPT ![w] = "poll"]
  /\ position' = [position EXCEPT ![w] = offset]
  /\ UNCHANGED <<log, offset, tables, staged, crashes>>

(* Fault: the consumer commits offsets by itself as it fetches. *)
FetchAutoCommits(w) ==
  /\ pc[w] = "poll" /\ position[w] < Len(log)
  /\ position' = [position EXCEPT ![w] = @ + 1]
  /\ offset' = position[w] + 1
  /\ pc' = [pc EXCEPT ![w] = "check"]
  /\ UNCHANGED <<log, owner, tables, staged, budget>>

(* async for msg in consumer *)
Fetch(w) ==
  /\ pc[w] = "poll" /\ position[w] < Len(log)
  /\ position' = [position EXCEPT ![w] = @ + 1]
  /\ pc' = [pc EXCEPT ![w] = "check"]
  /\ UNCHANGED <<broker, tables, staged, budget>>

(* if not await already_processed(db, event["id"], GROUP) *)
AlreadyProcessed(w) ==
  /\ pc[w] = "check"
  /\ pc' = [pc EXCEPT ![w] = IF position[w] \in ledger THEN "offset" ELSE "apply"]
  /\ UNCHANGED <<broker, tables, position, staged, budget>>

(* await apply_event(db, event): the rows are staged on the session. *)
ApplyEvent(w) ==
  /\ pc[w] = "apply" /\ Accepts(model, log[position[w]])
  /\ staged' = [staged EXCEPT ![w] = Apply(model, log[position[w]])]
  /\ pc' = [pc EXCEPT ![w] = "txn"]
  /\ UNCHANGED <<broker, tables, position, budget>>

(* Fault: the error is swallowed and the message skipped. *)
ApplyEventSkips(w) ==
  /\ pc[w] = "apply" /\ ~Accepts(model, log[position[w]])
  /\ pc' = [pc EXCEPT ![w] = "offset"]
  /\ UNCHANGED <<broker, tables, position, staged, budget>>

(* The handler, or the flush of its rows, raises: nothing catches it, the  *)
(* session is rolled back and the process exits.                           *)
ApplyEventRaises(w) ==
  /\ pc[w] = "apply" /\ ~Accepts(model, log[position[w]])
  /\ pc' = [pc EXCEPT ![w] = "down"]
  /\ UNCHANGED <<broker, tables, position, staged, budget>>

(* Faults: message_id is not unique, or the ledger row is not written. *)
CommitWithoutUnique(w) ==
  /\ pc[w] = "txn"
  /\ model' = staged[w]
  /\ history' = Append(history, position[w])
  /\ ledger' = ledger \union {position[w]}
  /\ pc' = [pc EXCEPT ![w] = "offset"]
  /\ UNCHANGED <<broker, position, staged, budget>>

CommitWithoutMark(w) ==
  /\ pc[w] = "txn" /\ position[w] \notin ledger
  /\ model' = staged[w]
  /\ history' = Append(history, position[w])
  /\ pc' = [pc EXCEPT ![w] = "offset"]
  /\ UNCHANGED <<broker, ledger, position, staged, budget>>

(* mark_processed and db.commit(): state, history and ledger in one txn. *)
CommitTransaction(w) ==
  /\ pc[w] = "txn" /\ position[w] \notin ledger
  /\ model' = staged[w]
  /\ history' = Append(history, position[w])
  /\ ledger' = ledger \union {position[w]}
  /\ pc' = [pc EXCEPT ![w] = "offset"]
  /\ UNCHANGED <<broker, position, staged, budget>>

(* The unique message_id refuses a second row: rollback, process exits. *)
LedgerConflict(w) ==
  /\ pc[w] = "txn" /\ position[w] \in ledger
  /\ pc' = [pc EXCEPT ![w] = "down"]
  /\ UNCHANGED <<broker, tables, position, staged, budget>>

(* Fault: the broker takes the commit of a process it has evicted. *)
CommitOffsetUnfenced(w) ==
  /\ pc[w] = "offset"
  /\ offset' = position[w]
  /\ pc' = [pc EXCEPT ![w] = "poll"]
  /\ UNCHANGED <<log, owner, tables, position, staged, budget>>

(* await consumer.commit() *)
CommitOffset(w) ==
  /\ pc[w] = "offset" /\ owner = w
  /\ offset' = position[w]
  /\ pc' = [pc EXCEPT ![w] = "poll"]
  /\ UNCHANGED <<log, owner, tables, position, staged, budget>>

(* A process that lost the partition has its commit refused and exits. *)
CommitOffsetFenced(w) ==
  /\ pc[w] = "offset" /\ owner # w
  /\ pc' = [pc EXCEPT ![w] = "down"]
  /\ UNCHANGED <<broker, tables, position, staged, budget>>

(* Between messages, a heartbeat tells the process that it has been evicted. *)
Rejoin(w) ==
  /\ pc[w] = "poll" /\ owner # w
  /\ pc' = [pc EXCEPT ![w] = "joining"]
  /\ UNCHANGED <<broker, tables, position, staged, budget>>

Crash(w) ==
  /\ pc[w] # "down" /\ crashes < MaxCrashes
  /\ crashes' = crashes + 1
  /\ pc' = [pc EXCEPT ![w] = "down"]
  /\ UNCHANGED <<broker, tables, position, staged, rebalances>>

(* restart: unless-stopped *)
Restart(w) ==
  /\ pc[w] = "down"
  /\ owner' = IF owner = w THEN None ELSE owner
  /\ pc' = [pc EXCEPT ![w] = "joining"]
  /\ UNCHANGED <<log, offset, tables, position, staged, budget>>

Loop(w) ==
  \/ Fetch(w) \/ AlreadyProcessed(w) \/ ApplyEvent(w) \/ ApplyEventRaises(w)
  \/ CommitTransaction(w) \/ LedgerConflict(w)
  \/ CommitOffset(w) \/ CommitOffsetFenced(w) \/ Rejoin(w)

Next ==
  \/ \E b \in Body : Publish(b)
  \/ \E w \in Workers : Loop(w) \/ Assign(w) \/ Crash(w) \/ Restart(w)

Spec == Init /\ [][Next]_vars

(* A live process keeps running its loop, a stopped one is restarted by    *)
(* the container runtime and an unowned partition is assigned.  Nothing    *)
(* makes events come or processes crash.                                   *)
Fairness ==
  /\ \A w \in Workers : WF_vars(Loop(w)) /\ WF_vars(Restart(w))
  /\ WF_vars(\E w \in Workers : Assign(w))

FairSpec == Spec /\ Fairness
-----------------------------------------------------------------------------
(* Every variable has its type. *)
TypeOK ==
  /\ log \in Seq(Body) /\ Len(log) <= MaxLog
  /\ offset \in Nat
  /\ owner \in Workers \union {None}
  /\ ledger \subseteq Nat
  /\ history \in Seq(Nat)
  /\ model \in Model
  /\ pc \in [Workers -> PC]
  /\ position \in [Workers -> Nat]
  /\ staged \in [Workers -> Model]
  /\ crashes \in 0 .. MaxCrashes
  /\ rebalances \in 0 .. MaxRebalances

(* The rows of mission_events are the first events of the log, in log      *)
(* order and without a repeat, and the ledger holds exactly their ids: no  *)
(* crash, redelivery or rebalance loses, repeats or reorders an event.     *)
ExactlyOnceInOrder ==
  /\ Len(history) <= Len(log)
  /\ history = [i \in 1 .. Len(history) |-> i]
  /\ ledger = 1 .. Len(history)

(* The offset is only committed after the transaction: a restart never     *)
(* resumes past an event whose rows were not written.                      *)
OffsetBehindLedger == offset <= Len(history)

(* A session that can still commit holds the effect of its event on the    *)
(* current tables: no concurrent process can make it write a stale row.    *)
NoLostUpdate ==
  \A w \in Workers :
    pc[w] = "txn" /\ position[w] \notin ledger =>
      /\ position[w] = Len(history) + 1
      /\ staged[w] = Apply(model, log[position[w]])

(* The committed offset never goes back, whoever commits it: a process     *)
(* that lost the partition cannot rewind the new owner.                    *)
OffsetNeverRewinds == [][offset' >= offset]_vars

(* The projector is the exactly-once fold of its log. *)
Abstract == INSTANCE AppliedLog WITH applied <- Len(history)
ImplementsAppliedLog == Abstract!Spec

(* Every event is eventually applied, unless it or one before it is one    *)
(* the handlers or the tables refuse.                                      *)
Poisoned(i) == \E j \in 1 .. i : j \in 1 .. Len(log) /\ ~Accepts(model, log[j])
EventuallyApplied ==
  \A i \in 1 .. MaxLog : i <= Len(log) ~> (Len(history) >= i \/ Poisoned(i))
=============================================================================
