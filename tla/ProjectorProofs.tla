--------------------------- MODULE ProjectorProofs ---------------------------
(***************************************************************************)
(* Proofs about Projector for any number of processes, any read model and  *)
(* any bounds: its types, exactly-once application in log order, no lost   *)
(* update, an offset that never rewinds, and the refinement of AppliedLog. *)
(***************************************************************************)
EXTENDS Projector, TLAPS

(* Where a process may be in the log, given what has been applied: it      *)
(* never holds an event beyond the next one to apply, and between messages *)
(* everything it fetched has been applied.                                 *)
Progress(w) ==
  /\ pc[w] \in {"poll", "offset"} => position[w] <= Len(history)
  /\ pc[w] \in {"check", "apply", "txn"} =>
       position[w] \in 1 .. Len(log) /\ position[w] <= Len(history) + 1
  /\ pc[w] = "txn" /\ position[w] \notin ledger =>
       /\ staged[w] = Apply(model, log[position[w]])
       /\ Accepts(model, log[position[w]])

(* The owner resumed from the committed offset and has only moved forward. *)
OwnerAhead ==
  \A w \in Workers : owner = w =>
    pc[w] # "joining" /\ (pc[w] # "down" => offset <= position[w])

Inductive ==
  /\ TypeOK
  /\ ExactlyOnceInOrder
  /\ OffsetBehindLedger
  /\ \A w \in Workers : Progress(w)
  /\ OwnerAhead

USE NoneAssumption, BoundsAssumption, EmptyModelAssumption, ApplyAssumption
-----------------------------------------------------------------------------
LEMMA InitInductive == Init => Inductive
  BY DEF Init, Inductive, TypeOK, ExactlyOnceInOrder, OffsetBehindLedger,
         Progress, OwnerAhead, PC

LEMMA PublishInductive ==
  ASSUME Inductive, NEW b \in Body, Publish(b)
  PROVE  Inductive'
<1>1. log' \in Seq(Body) /\ Len(log') = Len(log) + 1
  BY DEF Publish, Inductive, TypeOK
<1>2. \A i \in 1 .. Len(log) : log'[i] = log[i]
  BY DEF Publish, Inductive, TypeOK
<1>3. TypeOK'
  BY <1>1 DEF Publish, Inductive, TypeOK, tables, budget
<1>4. ExactlyOnceInOrder' /\ OffsetBehindLedger' /\ OwnerAhead'
  BY <1>1 DEF Publish, Inductive, TypeOK, tables, budget, ExactlyOnceInOrder,
              OffsetBehindLedger, OwnerAhead
<1>5. ASSUME NEW w \in Workers
      PROVE  Progress(w)'
  BY <1>1, <1>2 DEF Publish, Inductive, TypeOK, tables, budget, Progress
<1> QED BY <1>3, <1>4, <1>5 DEF Inductive

(* All actions but three touch one process and leave the log, the tables   *)
(* and the offset alone; then only that process's own facts are in doubt.  *)
LEMMA LocalStep ==
  ASSUME Inductive, NEW w \in Workers,
         UNCHANGED <<log, offset, tables>>,
         \A v \in Workers \ {w} :
           /\ pc'[v] = pc[v] /\ position'[v] = position[v] /\ staged'[v] = staged[v]
           /\ owner' = v => owner = v,
         TypeOK', Progress(w)',
         owner' = w => pc'[w] # "joining" /\ (pc'[w] # "down" => offset <= position'[w])
  PROVE  Inductive'
<1>1. ExactlyOnceInOrder' /\ OffsetBehindLedger'
  BY DEF Inductive, tables, ExactlyOnceInOrder, OffsetBehindLedger
<1>2. ASSUME NEW v \in Workers \ {w}
      PROVE  Progress(v)'
  BY DEF Inductive, tables, Progress
<1>3. OwnerAhead'
  BY DEF Inductive, OwnerAhead
<1> QED BY <1>1, <1>2, <1>3 DEF Inductive

LEMMA AssignInductive ==
  ASSUME Inductive, NEW w \in Workers, Assign(w)
  PROVE  Inductive'
<1>1. TypeOK'
  BY DEF Assign, Inductive, TypeOK, PC, tables, broker, budget
<1>2. Progress(w)'
  BY DEF Assign, Inductive, TypeOK, tables, broker, budget, OffsetBehindLedger, Progress
<1>3. owner' = w => pc'[w] # "joining" /\ (pc'[w] # "down" => offset <= position'[w])
  BY DEF Assign, Inductive, TypeOK, tables, broker, budget, OwnerAhead
<1> QED BY <1>1, <1>2, <1>3, LocalStep DEF Assign, Inductive, TypeOK, tables, broker, budget

LEMMA FetchInductive ==
  ASSUME Inductive, NEW w \in Workers, Fetch(w)
  PROVE  Inductive'
<1>1. TypeOK'
  BY DEF Fetch, Inductive, TypeOK, PC, tables, broker, budget
<1>2. Progress(w)'
  BY DEF Fetch, Inductive, TypeOK, tables, broker, budget, Progress
<1>3. owner' = w => pc'[w] # "joining" /\ (pc'[w] # "down" => offset <= position'[w])
  BY DEF Fetch, Inductive, TypeOK, tables, broker, budget, OwnerAhead
<1> QED BY <1>1, <1>2, <1>3, LocalStep DEF Fetch, Inductive, TypeOK, tables, broker, budget

LEMMA AlreadyProcessedInductive ==
  ASSUME Inductive, NEW w \in Workers, AlreadyProcessed(w)
  PROVE  Inductive'
<1>1. TypeOK'
  BY DEF AlreadyProcessed, Inductive, TypeOK, PC, tables, broker, budget
<1>2. Progress(w)'
  BY DEF AlreadyProcessed, Inductive, TypeOK, tables, broker, budget, ExactlyOnceInOrder, Progress
<1>3. owner' = w => pc'[w] # "joining" /\ (pc'[w] # "down" => offset <= position'[w])
  BY DEF AlreadyProcessed, Inductive, TypeOK, tables, broker, budget, OwnerAhead
<1> QED BY <1>1, <1>2, <1>3, LocalStep DEF AlreadyProcessed, Inductive, TypeOK, tables, broker, budget

LEMMA ApplyEventInductive ==
  ASSUME Inductive, NEW w \in Workers, ApplyEvent(w)
  PROVE  Inductive'
<1>1. TypeOK'
  <2>1. Apply(model, log[position[w]]) \in Model
    BY DEF ApplyEvent, Inductive, TypeOK, Progress
  <2> QED BY <2>1 DEF ApplyEvent, Inductive, TypeOK, PC, tables, broker, budget
<1>2. Progress(w)'
  BY DEF ApplyEvent, Inductive, TypeOK, tables, broker, budget, Progress
<1>3. owner' = w => pc'[w] # "joining" /\ (pc'[w] # "down" => offset <= position'[w])
  BY DEF ApplyEvent, Inductive, TypeOK, tables, broker, budget, OwnerAhead
<1> QED BY <1>1, <1>2, <1>3, LocalStep DEF ApplyEvent, Inductive, TypeOK, tables, broker, budget

LEMMA ApplyEventRaisesInductive ==
  ASSUME Inductive, NEW w \in Workers, ApplyEventRaises(w)
  PROVE  Inductive'
<1>1. TypeOK'
  BY DEF ApplyEventRaises, Inductive, TypeOK, PC, tables, broker, budget
<1>2. Progress(w)'
  BY DEF ApplyEventRaises, Inductive, TypeOK, tables, broker, budget, Progress
<1>3. owner' = w => pc'[w] # "joining" /\ (pc'[w] # "down" => offset <= position'[w])
  BY DEF ApplyEventRaises, Inductive, TypeOK, tables, broker, budget, OwnerAhead
<1> QED BY <1>1, <1>2, <1>3, LocalStep DEF ApplyEventRaises, Inductive, TypeOK, tables, broker, budget

LEMMA LedgerConflictInductive ==
  ASSUME Inductive, NEW w \in Workers, LedgerConflict(w)
  PROVE  Inductive'
<1>1. TypeOK'
  BY DEF LedgerConflict, Inductive, TypeOK, PC, tables, broker, budget
<1>2. Progress(w)'
  BY DEF LedgerConflict, Inductive, TypeOK, tables, broker, budget, Progress
<1>3. owner' = w => pc'[w] # "joining" /\ (pc'[w] # "down" => offset <= position'[w])
  BY DEF LedgerConflict, Inductive, TypeOK, tables, broker, budget, OwnerAhead
<1> QED BY <1>1, <1>2, <1>3, LocalStep DEF LedgerConflict, Inductive, TypeOK, tables, broker, budget

LEMMA CommitOffsetFencedInductive ==
  ASSUME Inductive, NEW w \in Workers, CommitOffsetFenced(w)
  PROVE  Inductive'
<1>1. TypeOK'
  BY DEF CommitOffsetFenced, Inductive, TypeOK, PC, tables, broker, budget
<1>2. Progress(w)'
  BY DEF CommitOffsetFenced, Inductive, TypeOK, tables, broker, budget, Progress
<1>3. owner' = w => pc'[w] # "joining" /\ (pc'[w] # "down" => offset <= position'[w])
  BY DEF CommitOffsetFenced, Inductive, TypeOK, tables, broker, budget, OwnerAhead
<1> QED BY <1>1, <1>2, <1>3, LocalStep DEF CommitOffsetFenced, Inductive, TypeOK, tables, broker, budget

LEMMA RejoinInductive ==
  ASSUME Inductive, NEW w \in Workers, Rejoin(w)
  PROVE  Inductive'
<1>1. TypeOK'
  BY DEF Rejoin, Inductive, TypeOK, PC, tables, broker, budget
<1>2. Progress(w)'
  BY DEF Rejoin, Inductive, TypeOK, tables, broker, budget, Progress
<1>3. owner' = w => pc'[w] # "joining" /\ (pc'[w] # "down" => offset <= position'[w])
  BY DEF Rejoin, Inductive, TypeOK, tables, broker, budget, OwnerAhead
<1> QED BY <1>1, <1>2, <1>3, LocalStep DEF Rejoin, Inductive, TypeOK, tables, broker, budget

LEMMA CrashInductive ==
  ASSUME Inductive, NEW w \in Workers, Crash(w)
  PROVE  Inductive'
<1>1. TypeOK'
  BY DEF Crash, Inductive, TypeOK, PC, tables, broker, budget
<1>2. Progress(w)'
  BY DEF Crash, Inductive, TypeOK, tables, broker, budget, Progress
<1>3. owner' = w => pc'[w] # "joining" /\ (pc'[w] # "down" => offset <= position'[w])
  BY DEF Crash, Inductive, TypeOK, tables, broker, budget, OwnerAhead
<1> QED BY <1>1, <1>2, <1>3, LocalStep DEF Crash, Inductive, TypeOK, tables, broker, budget

LEMMA RestartInductive ==
  ASSUME Inductive, NEW w \in Workers, Restart(w)
  PROVE  Inductive'
<1>1. TypeOK'
  BY DEF Restart, Inductive, TypeOK, PC, tables, broker, budget
<1>2. Progress(w)'
  BY DEF Restart, Inductive, TypeOK, tables, broker, budget, Progress
<1>3. owner' = w => pc'[w] # "joining" /\ (pc'[w] # "down" => offset <= position'[w])
  BY DEF Restart, Inductive, TypeOK, tables, broker, budget, OwnerAhead
<1> QED BY <1>1, <1>2, <1>3, LocalStep DEF Restart, Inductive, TypeOK, tables, broker, budget

(* The event committed is the next one: it is not in the ledger, and no    *)
(* process is further than one event past what has been applied.           *)
LEMMA CommitTransactionInductive ==
  ASSUME Inductive, NEW w \in Workers, CommitTransaction(w)
  PROVE  Inductive'
<1>1. position[w] = Len(history) + 1 /\ position[w] \in 1 .. Len(log)
  BY DEF CommitTransaction, Inductive, TypeOK, ExactlyOnceInOrder, Progress
<1>2. TypeOK'
  <2>1. /\ model' \in Model
        /\ ledger' \subseteq Nat
        /\ history' \in Seq(Nat)
    <3>1. position[w] \in Nat /\ staged[w] \in Model
      BY DEF Inductive, TypeOK
    <3>2. history' \in Seq(Nat)
      BY <3>1 DEF CommitTransaction, Inductive, TypeOK
    <3>3. ledger' \subseteq Nat
      BY <3>1 DEF CommitTransaction, Inductive, TypeOK
    <3> QED BY <3>1, <3>2, <3>3 DEF CommitTransaction
  <2>2. pc' \in [Workers -> PC]
    BY DEF CommitTransaction, Inductive, TypeOK, PC
  <2> QED BY <2>1, <2>2 DEF CommitTransaction, Inductive, TypeOK, broker, budget
<1>3. history' \in Seq(Nat) /\ Len(history') = Len(history) + 1
  BY DEF CommitTransaction, Inductive, TypeOK
<1>4. history' = [i \in 1 .. Len(history') |-> i]
  <2>1. \A i \in 1 .. Len(history') : history'[i] = i
    BY <1>1 DEF CommitTransaction, Inductive, TypeOK, ExactlyOnceInOrder
  <2> QED BY <2>1, <1>3
<1>5. ledger' = 1 .. Len(history')
  BY <1>1, <1>3 DEF CommitTransaction, Inductive, ExactlyOnceInOrder, TypeOK
<1>6. ExactlyOnceInOrder' /\ OffsetBehindLedger'
  BY <1>1, <1>3, <1>4, <1>5
     DEF CommitTransaction, Inductive, TypeOK, broker, ExactlyOnceInOrder, OffsetBehindLedger
<1>7. ASSUME NEW v \in Workers
      PROVE  Progress(v)'
  <2>1. position[v] \notin ledger => position[v] \in ledger' \/ pc'[v] # "txn"
    BY <1>1 DEF CommitTransaction, Inductive, TypeOK, ExactlyOnceInOrder, Progress
  <2> QED
    BY <2>1, <1>1, <1>3 DEF CommitTransaction, Inductive, TypeOK, broker, Progress
<1>8. OwnerAhead'
  BY DEF CommitTransaction, Inductive, TypeOK, broker, OwnerAhead
<1> QED BY <1>2, <1>6, <1>7, <1>8 DEF Inductive

(* Only the owner commits, and it is never behind the committed offset.    *)
LEMMA CommitOffsetInductive ==
  ASSUME Inductive, NEW w \in Workers, CommitOffset(w)
  PROVE  Inductive'
<1>1. TypeOK'
  BY DEF CommitOffset, Inductive, TypeOK, PC, tables, budget
<1>2. ExactlyOnceInOrder'
  BY DEF CommitOffset, Inductive, tables, ExactlyOnceInOrder
<1>3. OffsetBehindLedger'
  BY DEF CommitOffset, Inductive, tables, OffsetBehindLedger, Progress
<1>4. ASSUME NEW v \in Workers
      PROVE  Progress(v)'
  BY DEF CommitOffset, Inductive, TypeOK, tables, Progress
<1>5. OwnerAhead'
  BY DEF CommitOffset, Inductive, TypeOK, OwnerAhead
<1> QED BY <1>1, <1>2, <1>3, <1>4, <1>5 DEF Inductive

LEMMA StutterInductive ==
  ASSUME Inductive, UNCHANGED vars
  PROVE  Inductive'
  BY DEF Inductive, vars, TypeOK, ExactlyOnceInOrder, OffsetBehindLedger,
         Progress, OwnerAhead

LEMMA NextInductive ==
  ASSUME Inductive, [Next]_vars
  PROVE  Inductive'
<1>1. CASE \E b \in Body : Publish(b)
  BY <1>1, PublishInductive
<1>2. CASE \E w \in Workers : Loop(w)
  BY <1>2, FetchInductive, AlreadyProcessedInductive, ApplyEventInductive,
     ApplyEventRaisesInductive, CommitTransactionInductive, LedgerConflictInductive,
     CommitOffsetInductive, CommitOffsetFencedInductive, RejoinInductive DEF Loop
<1>3. CASE \E w \in Workers : Assign(w) \/ Crash(w) \/ Restart(w)
  BY <1>3, AssignInductive, CrashInductive, RestartInductive
<1>4. CASE UNCHANGED vars
  BY <1>4, StutterInductive
<1> QED BY <1>1, <1>2, <1>3, <1>4 DEF Next

LEMMA AlwaysInductive == Spec => []Inductive
<1>1. Init => Inductive
  BY InitInductive
<1>2. Inductive /\ [Next]_vars => Inductive'
  BY NextInductive
<1> QED BY <1>1, <1>2, PTL DEF Spec
-----------------------------------------------------------------------------
(* Type correctness of the projector loop. *)
THEOREM TypeCorrect == Spec => []TypeOK
<1>1. Inductive => TypeOK
  BY DEF Inductive
<1> QED BY <1>1, AlwaysInductive, PTL

(* Whatever is killed, redelivered or reassigned, the rows of              *)
(* mission_events are the first events of the log, once each, in order.    *)
THEOREM AppliedExactlyOnceInOrder == Spec => []ExactlyOnceInOrder
<1>1. Inductive => ExactlyOnceInOrder
  BY DEF Inductive
<1> QED BY <1>1, AlwaysInductive, PTL

(* No restart resumes past an event whose transaction did not commit.      *)
THEOREM OffsetNeverAhead == Spec => []OffsetBehindLedger
<1>1. Inductive => OffsetBehindLedger
  BY DEF Inductive
<1> QED BY <1>1, AlwaysInductive, PTL

(* A transaction that commits writes the effect of its event on the tables *)
(* as they are, though the ledger check and the reads came before.         *)
THEOREM NoUpdateLost == Spec => []NoLostUpdate
<1>1. Inductive => NoLostUpdate
  BY DEF Inductive, TypeOK, ExactlyOnceInOrder, Progress, NoLostUpdate
<1> QED BY <1>1, AlwaysInductive, PTL

(* An evicted process cannot rewind the offset its successor committed.    *)
THEOREM OffsetMonotone == Spec => OffsetNeverRewinds
<1>1. Inductive /\ [Next]_vars => [offset' >= offset]_vars
  <2> SUFFICES ASSUME Inductive, Next PROVE offset' >= offset
    BY DEF vars
  <2>1. CASE \E w \in Workers : CommitOffset(w)
    BY <2>1 DEF CommitOffset, Inductive, TypeOK, OwnerAhead
  <2>2. CASE ~\E w \in Workers : CommitOffset(w)
    <3>1. offset' = offset
      BY <2>2 DEF Next, Loop, Publish, Assign, Fetch, AlreadyProcessed, ApplyEvent,
        ApplyEventRaises, CommitTransaction, LedgerConflict, CommitOffsetFenced,
        Rejoin, Crash, Restart, broker
    <3> QED BY <3>1 DEF Inductive, TypeOK
  <2> QED BY <2>1, <2>2
<1> QED BY <1>1, AlwaysInductive, PTL DEF Spec, OffsetNeverRewinds

(* The projector implements AppliedLog: publishing appends, a committed    *)
(* transaction folds in the next event, and every other step stutters.     *)
THEOREM ProjectorImplementsAppliedLog == Spec => ImplementsAppliedLog
<1>1. Init => Abstract!Init
  BY DEF Init, Abstract!Init
<1>2. Inductive /\ [Next]_vars => [Abstract!Next]_Abstract!vars
  <2> SUFFICES ASSUME Inductive, [Next]_vars
               PROVE  [Abstract!Next]_Abstract!vars
    OBVIOUS
  <2>1. CASE \E b \in Body : Publish(b)
    BY <2>1 DEF Publish, tables, Abstract!Next, Abstract!Append1
  <2>2. CASE \E w \in Workers : CommitTransaction(w)
    <3>1. PICK w \in Workers : CommitTransaction(w)
      BY <2>2
    <3>2. position[w] = Len(history) + 1 /\ position[w] \in 1 .. Len(log)
      BY <3>1 DEF CommitTransaction, Inductive, TypeOK, ExactlyOnceInOrder, Progress
    <3>3. Len(history') = Len(history) + 1
      BY <3>1 DEF CommitTransaction, Inductive, TypeOK
    <3>4. Accepts(model, log[Len(history) + 1])
          /\ model' = Apply(model, log[Len(history) + 1])
      BY <3>1, <3>2 DEF CommitTransaction, Inductive, Progress
    <3>5. Len(history) < Len(log) /\ log' = log
      BY <3>1, <3>2 DEF CommitTransaction, Inductive, TypeOK, broker
    <3> QED BY <3>3, <3>4, <3>5 DEF Abstract!Next, Abstract!FoldNext
  <2>3. CASE UNCHANGED <<log, tables>>
    BY <2>3 DEF tables, Abstract!vars
  <2> QED
    BY <2>1, <2>2, <2>3 DEF Next, Loop, Assign, Fetch, AlreadyProcessed, ApplyEvent,
      ApplyEventRaises, LedgerConflict, CommitOffset, CommitOffsetFenced, Rejoin,
      Crash, Restart, broker, tables, vars
<1> QED BY <1>1, <1>2, AlwaysInductive, PTL DEF Spec, ImplementsAppliedLog, Abstract!Spec

=============================================================================
