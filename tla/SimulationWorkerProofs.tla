----------------------- MODULE SimulationWorkerProofs -----------------------
(***************************************************************************)
(* Proofs about SimulationWorker for any mission, any commands and any     *)
(* bounds: commands are settled in their order, one in the ledger is not   *)
(* carried out again, and the mission in memory is what the log tells.     *)
(***************************************************************************)
EXTENDS SimulationWorker, SequenceTheorems, TLAPS

-----------------------------------------------------------------------------
(* 1. Folds *)

W == INSTANCE FoldTheorems WITH Step <- Apply

(* A mission after bodies is a fold of FoldTheorems. *)
LEMMA FoldsAgree ==
  ASSUME NEW w, NEW bs
  PROVE  Fold(w, bs) = W!Fold(w, bs)
BY Zenon DEF Fold, W!Fold

(* A fold of bodies is a mission, and folding a concatenation is folding   *)
(* one part after the other.                                               *)
LEMMA FoldConcat ==
  ASSUME NEW w \in World, NEW bs \in Seq(Body), NEW cs \in Seq(Body)
  PROVE  Fold(w, bs) \in World /\ Fold(w, bs \o cs) = Fold(Fold(w, bs), cs)
<1>1. Fold(w, bs \o cs) = Fold(Fold(w, bs), cs)
  BY FoldsAgree, W!FoldConcat
<1>2. PICK g : W!Trace(g, w, bs)
  BY W!TraceExists
<1>3. Len(bs) \in Nat /\ Len(bs) \in 0 .. Len(bs)
  OBVIOUS
<1> DEFINE P == {i \in 0 .. Len(bs) : g[i] \in World}
<1>4. 0 \in P
  BY <1>2, <1>3 DEF W!Trace
<1>5. ASSUME NEW i \in 1 .. Len(bs), i - 1 \in P
      PROVE  i \in P
  <2>1. g[i] = Apply(g[i - 1], bs[i]) /\ g[i - 1] \in World /\ bs[i] \in Body
    BY <1>2, <1>5 DEF W!Trace
  <2> QED BY <2>1, WorldAssumption
<1>6. \A i \in 0 .. Len(bs) : i \in P
  <2> HIDE DEF P
  <2> QED BY <1>3, <1>4, <1>5, W!InductionUpTo
<1>7. Fold(w, bs) = g[Len(bs)]
  BY <1>2, FoldsAgree, W!FoldIsTrace
<1> QED BY <1>1, <1>3, <1>6, <1>7

LEMMA FoldEmpty ==
  ASSUME NEW w
  PROVE  Fold(w, << >>) = w
BY FoldsAgree, W!FoldEmpty

LEMMA FoldAppend ==
  ASSUME NEW w, NEW bs \in Seq(Body), NEW b \in Body
  PROVE  Fold(w, Append(bs, b)) = Apply(Fold(w, bs), b)
BY FoldsAgree, W!FoldAppend
-----------------------------------------------------------------------------
(* 2. Events *)

Event == [command : Nat, last : BOOLEAN, body : Body]

LEMMA BodiesConcat ==
  ASSUME NEW es \in Seq(Event), NEW fs \in Seq(Event)
  PROVE  /\ Bodies(es) \in Seq(Body)
         /\ Bodies(es \o fs) = Bodies(es) \o Bodies(fs)
<1>1. \A s \in Seq(Event) : /\ Bodies(s) \in Seq(Body) /\ Len(Bodies(s)) = Len(s)
                            /\ \A i \in 1 .. Len(s) : Bodies(s)[i] = s[i].body
  <2> SUFFICES ASSUME NEW s \in Seq(Event)
               PROVE  /\ Bodies(s) \in Seq(Body) /\ Len(Bodies(s)) = Len(s)
                      /\ \A i \in 1 .. Len(s) : Bodies(s)[i] = s[i].body
    OBVIOUS
  <2>1. Len(s) \in Nat /\ \A i \in 1 .. Len(s) : s[i] \in Event
    OBVIOUS
  <2>2. Bodies(s) = [i \in 1 .. Len(s) |-> s[i].body]
    BY LenProperties DEF Bodies
  <2>3. \A i \in 1 .. Len(s) : s[i].body \in Body
    BY <2>1 DEF Event
  <2> QED BY <2>1, <2>2, <2>3
<1>2. es \o fs \in Seq(Event) /\ Len(es \o fs) = Len(es) + Len(fs)
  OBVIOUS
<1>3. Bodies(es) \o Bodies(fs) \in Seq(Body) /\ Len(Bodies(es) \o Bodies(fs)) = Len(es) + Len(fs)
  BY <1>1
<1>4. ASSUME NEW i \in 1 .. Len(es) + Len(fs)
      PROVE  Bodies(es \o fs)[i] = (Bodies(es) \o Bodies(fs))[i]
  <2>1. Bodies(es \o fs)[i] = (es \o fs)[i].body
    BY <1>1, <1>2
  <2>2. (es \o fs)[i] = IF i <= Len(es) THEN es[i] ELSE fs[i - Len(es)]
    BY ConcatProperties
  <2>3. (Bodies(es) \o Bodies(fs))[i] =
          IF i <= Len(es) THEN Bodies(es)[i] ELSE Bodies(fs)[i - Len(es)]
    BY <1>1, ConcatProperties
  <2>4. CASE i <= Len(es)
    BY <1>1, <2>1, <2>2, <2>3, <2>4
  <2>5. CASE ~(i <= Len(es))
    <3>1. i - Len(es) \in 1 .. Len(fs)
      BY <2>5
    <3> QED BY <1>1, <2>1, <2>2, <2>3, <2>5, <3>1
  <2> QED BY <2>4, <2>5
<1>5. Bodies(es \o fs) \in Seq(Body) /\ Len(Bodies(es \o fs)) = Len(es) + Len(fs)
  BY <1>1, <1>2
<1>6. Bodies(es \o fs) = Bodies(es) \o Bodies(fs)
  BY <1>3, <1>4, <1>5, SeqEqual
<1> QED BY <1>1, <1>6

LEMMA BatchType ==
  ASSUME NEW k \in Nat, NEW bs \in Seq(Body)
  PROVE  /\ Batch(k, bs) \in Seq(Event) /\ Bodies(Batch(k, bs)) = bs
         /\ \A i \in DOMAIN Batch(k, bs) : Batch(k, bs)[i].command = k
<1>1. /\ Batch(k, bs) \in Seq(Event) /\ Len(Batch(k, bs)) = Len(bs)
      /\ \A i \in 1 .. Len(bs) : Batch(k, bs)[i].command = k /\ Batch(k, bs)[i].body = bs[i]
  <2>1. Len(bs) \in Nat /\ \A i \in 1 .. Len(bs) : bs[i] \in Body
    OBVIOUS
  <2> DEFINE E(i) == [command |-> k, last |-> i = Len(bs), body |-> bs[i]]
  <2>2. Batch(k, bs) = [i \in 1 .. Len(bs) |-> E(i)]
    BY LenProperties DEF Batch
  <2>3. \A i \in 1 .. Len(bs) : E(i) \in Event /\ E(i).command = k /\ E(i).body = bs[i]
    BY <2>1 DEF Event
  <2> HIDE DEF E
  <2> QED BY <2>1, <2>2, <2>3
<1>2. /\ Bodies(Batch(k, bs)) \in Seq(Body) /\ Len(Bodies(Batch(k, bs))) = Len(bs)
      /\ \A i \in 1 .. Len(bs) : Bodies(Batch(k, bs))[i] = bs[i]
  BY <1>1 DEF Bodies
<1>3. Bodies(Batch(k, bs)) = bs
  BY <1>2, SeqEqual
<1> QED BY <1>1, <1>3

(* The elements of an event log with an event removed are among its own,   *)
(* and with the first of them removed it is its tail.                      *)
LEMMA Removed ==
  ASSUME NEW es \in Seq(Event), NEW i \in 1 .. Len(es)
  PROVE  /\ RemoveAt(es, i) \in Seq(Event)
         /\ \A j \in DOMAIN RemoveAt(es, i) : \E k \in DOMAIN es : RemoveAt(es, i)[j] = es[k]
         /\ i = 1 => <<es[1]>> \o RemoveAt(es, i) = es
<1> DEFINE a == SubSeq(es, 1, i - 1)
           b == SubSeq(es, i + 1, Len(es))
<1>1. /\ a \in Seq(Event) /\ Len(a) = i - 1 /\ \A j \in 1 .. i - 1 : a[j] = es[j]
      /\ b \in Seq(Event) /\ Len(b) = Len(es) - i
      /\ \A j \in 1 .. Len(es) - i : b[j] = es[i + j]
  OBVIOUS
<1>2. RemoveAt(es, i) = a \o b
  BY DEF RemoveAt
<1> HIDE DEF a, b
<1>3. /\ a \o b \in Seq(Event) /\ DOMAIN (a \o b) = 1 .. Len(es) - 1
      /\ \A j \in 1 .. Len(es) - 1 : (a \o b)[j] = IF j < i THEN es[j] ELSE es[j + 1]
  BY <1>1
<1>4. \A j \in DOMAIN (a \o b) : \E k \in DOMAIN es : (a \o b)[j] = es[k]
  <2>1. \A j \in 1 .. Len(es) - 1 : j \in DOMAIN es /\ j + 1 \in DOMAIN es
    OBVIOUS
  <2> QED BY <1>3, <2>1
<1>5. CASE i = 1
  <2>1. <<es[1]>> \o (a \o b) \in Seq(Event) /\ Len(<<es[1]>> \o (a \o b)) = Len(es)
    BY <1>3
  <2>2. \A j \in 1 .. Len(es) : (<<es[1]>> \o (a \o b))[j] = es[j]
    <3>1. <<es[1]>> \in Seq(Event) /\ Len(<<es[1]>>) = 1 /\ Len(a \o b) = Len(es) - 1
      BY <1>3
    <3>2. \A j \in 1 .. Len(es) :
            (<<es[1]>> \o (a \o b))[j] = IF j <= 1 THEN <<es[1]>>[j] ELSE (a \o b)[j - 1]
      BY <1>3, <3>1, ConcatProperties
    <3> SUFFICES ASSUME NEW j \in 1 .. Len(es)
                 PROVE  (<<es[1]>> \o (a \o b))[j] = es[j]
      OBVIOUS
    <3>3. CASE j = 1
      <4>1. (<<es[1]>> \o (a \o b))[1] = <<es[1]>>[1]
        BY <3>2, <3>3
      <4> QED BY <3>3, <4>1
    <3>4. CASE j # 1
      <4>0. ~(j <= 1)
        BY <3>4
      <4>1. (<<es[1]>> \o (a \o b))[j] = (a \o b)[j - 1]
        BY <3>2, <4>0, Zenon
      <4>2. j - 1 \in 1 .. Len(es) - 1 /\ (j - 1) + 1 = j /\ ~(j - 1 < i)
        BY <1>5, <3>4
      <4>3. (a \o b)[j - 1] = es[(j - 1) + 1]
        BY <1>3, <4>2
      <4> QED BY <4>1, <4>2, <4>3
    <3> QED BY <3>3, <3>4
  <2>3. <<es[1]>> \o (a \o b) = es
    BY <2>1, <2>2, SeqEqual
  <2> QED BY <1>2, <1>3, <1>4, <2>3
<1>6. CASE i # 1
  BY <1>2, <1>3, <1>4, <1>6
<1> QED BY <1>5, <1>6

LEMMA Extremes ==
  ASSUME NEW n \in Nat, NEW S \in SUBSET (1 .. n), S # {}
  PROVE  /\ Min(S) \in S /\ \A p \in S : Min(S) <= p
         /\ Max(S) \in S /\ \A p \in S : p <= Max(S)
<1>1. S \in SUBSET Nat
  OBVIOUS
<1>2. \E q \in S : \A p \in S : q <= p
  BY <1>1, W!Least
<1>3. \E q \in S : \A p \in S : q >= p
  <2> DEFINE T == {n - p : p \in S}
  <2>1. T \in SUBSET Nat /\ T # {}
    <3>1. \A p \in S : n - p \in Nat
      OBVIOUS
    <3>2. PICK p \in S : TRUE
      OBVIOUS
    <3> QED BY <3>1, <3>2
  <2>2. PICK t \in T : \A u \in T : t <= u
    BY <2>1, W!Least
  <2>3. PICK q \in S : t = n - q
    OBVIOUS
  <2>4. ASSUME NEW p \in S
        PROVE  q >= p
    <3>1. n - p \in T /\ n - q <= n - p
      BY <2>2, <2>3
    <3> QED BY <3>1
  <2> QED BY <2>4
<1>4. Min(S) \in S /\ \A p \in S : Min(S) <= p
  BY <1>2 DEF Min
<1>5. Max(S) \in S /\ \A p \in S : Max(S) >= p
  BY <1>3 DEF Max
<1> QED BY <1>1, <1>4, <1>5
-----------------------------------------------------------------------------
(* 3. The invariant *)

Typed ==
  /\ commands \in Seq(Command) /\ events \in Seq(Event) /\ pending \in Seq(Event)
  /\ offset \in Nat /\ position \in Nat /\ ledger \subseteq Nat \ {0} /\ dead \subseteq Nat
  /\ projected \in 0 .. Len(events)
  /\ pc \in PC /\ world \in World /\ astray \in BOOLEAN

(* The consumer is at the committed offset or one command beyond it. *)
Placed ==
  /\ offset <= position /\ position <= Len(commands)
  /\ pc = "poll" => position = offset
  /\ pc \in {"check", "publish", "dead", "commit"} => position = offset + 1

Covered ==
  /\ 1 .. offset \subseteq Settled
  /\ pc = "commit" => position \in Settled
  /\ pc = "publish" => position \notin ledger

(* What is pending of a command is of the one being published, and nothing *)
(* beyond that has been.                                                   *)
Ordered ==
  /\ \A i \in DOMAIN pending :
       pending[i].command # 0 => pc = "publish" /\ pending[i].command = position
  /\ \A i \in DOMAIN events : events[i].command <= offset + 1
  /\ \A i, j \in DOMAIN events :
       i < j /\ events[j].command # 0 => events[i].command <= events[j].command

Told ==
  /\ pc = "down" => pending = << >>
  /\ LogTellsWorld

Inductive == Typed /\ Placed /\ Covered /\ Ordered /\ Told

LEMMA InitInductive == Init => Inductive
<1> SUFFICES ASSUME Init PROVE Inductive
  OBVIOUS
<1>1. events = << >> /\ pending = << >> /\ commands = << >> /\ world = FirstWorld
  BY DEF Init
<1>2. << >> \in Seq(Command) /\ << >> \in Seq(Event) /\ Len(<< >>) = 0 /\ DOMAIN << >> = {}
  OBVIOUS
<1>3. Typed
  <2>1. /\ commands \in Seq(Command) /\ events \in Seq(Event) /\ pending \in Seq(Event)
        /\ offset \in Nat /\ position \in Nat /\ projected \in 0 .. Len(events)
    BY <1>1, <1>2 DEF Init
  <2>2. /\ ledger \subseteq Nat \ {0} /\ dead \subseteq Nat
        /\ pc \in PC /\ world \in World /\ astray \in BOOLEAN
    BY WorldAssumption DEF Init, PC
  <2> QED BY <2>1, <2>2 DEF Typed
<1>4. Placed
  BY <1>1, <1>2 DEF Init, Placed
<1>5. Covered
  BY DEF Init, Covered
<1>6. Ordered
  BY <1>1, <1>2 DEF Ordered
<1>7. Told
  <2>1. events \o pending = << >> /\ Bodies(<< >>) = << >>
    BY <1>1 DEF Bodies
  <2>2. Fold(FirstWorld, << >>) = FirstWorld
    BY FoldEmpty, WorldAssumption
  <2> QED BY <1>1, <2>1, <2>2 DEF Told, LogTellsWorld
<1> QED BY <1>3, <1>4, <1>5, <1>6, <1>7 DEF Inductive

(* The mission goes through the events of a command or of a tick. *)
LEMMA Applied ==
  ASSUME Inductive, NEW k \in Nat, NEW bs \in Seq(Body), pc # "down",
         world' = Fold(world, bs), pending' = pending \o Batch(k, bs),
         events' = events, astray' = astray, pc' # "down"
  PROVE  /\ world' \in World /\ pending' \in Seq(Event)
         /\ \A i \in DOMAIN pending' : pending'[i].command = k
                                     \/ \E j \in DOMAIN pending : pending'[i] = pending[j]
         /\ Told'
<1>1. /\ Batch(k, bs) \in Seq(Event) /\ Bodies(Batch(k, bs)) = bs
      /\ \A i \in DOMAIN Batch(k, bs) : Batch(k, bs)[i].command = k
  BY BatchType
<1>2. world \in World /\ pending \in Seq(Event) /\ events \in Seq(Event)
  BY DEF Inductive, Typed
<1>3. world' \in World
  BY <1>2, FoldConcat, EmptySeq
<1>4. pending' \in Seq(Event)
  BY <1>1, <1>2
<1>5. \A i \in DOMAIN pending' : \/ pending'[i].command = k
                                \/ \E j \in DOMAIN pending : pending'[i] = pending[j]
  <2> SUFFICES ASSUME NEW i \in DOMAIN pending'
               PROVE  \/ pending'[i].command = k
                      \/ \E j \in DOMAIN pending : pending'[i] = pending[j]
    OBVIOUS
  <2>1. i \in 1 .. Len(pending) + Len(Batch(k, bs))
    BY <1>1, <1>2, ConcatProperties, LenProperties
  <2>2. pending'[i] = IF i <= Len(pending) THEN pending[i]
                      ELSE Batch(k, bs)[i - Len(pending)]
    BY <1>1, <1>2, <2>1, ConcatProperties
  <2>3. CASE i <= Len(pending)
    <3>1. i \in DOMAIN pending
      BY <1>2, <2>1, <2>3
    <3> QED BY <2>2, <2>3, <3>1
  <2>4. CASE ~(i <= Len(pending))
    <3>1. i - Len(pending) \in DOMAIN Batch(k, bs)
      BY <1>1, <1>2, <2>1, <2>4
    <3> QED BY <1>1, <2>2, <2>4, <3>1
  <2> QED BY <2>3, <2>4
<1>6. ASSUME ~astray
      PROVE  world' = Fold(FirstWorld, Bodies(events \o pending'))
  <2>1. world = Fold(FirstWorld, Bodies(events \o pending))
    BY <1>6 DEF Inductive, Told, LogTellsWorld
  <2>2. events \o pending' = (events \o pending) \o Batch(k, bs)
    BY <1>1, <1>2, ConcatAssociative, SMTT(60)
  <2>3. events \o pending \in Seq(Event)
    BY <1>2
  <2>4. /\ Bodies(events \o pending) \in Seq(Body)
        /\ Bodies((events \o pending) \o Batch(k, bs)) = Bodies(events \o pending) \o bs
    BY <1>1, <2>3, BodiesConcat
  <2>5. Fold(FirstWorld, Bodies(events \o pending) \o bs)
          = Fold(Fold(FirstWorld, Bodies(events \o pending)), bs)
    BY <2>4, FoldConcat, WorldAssumption
  <2> QED BY <2>1, <2>2, <2>4, <2>5
<1>7. Told'
  BY <1>6 DEF Told, LogTellsWorld
<1> QED BY <1>3, <1>4, <1>5, <1>7
-----------------------------------------------------------------------------
(* 4. Steps *)

LEMMA SendInductive ==
  ASSUME Inductive, NEW c \in Command, Send(c)
  PROVE  Inductive'
<1>1. commands' \in Seq(Command) /\ Len(commands') = Len(commands) + 1
  BY DEF Inductive, Typed, Send
<1>2. Typed'
  BY <1>1 DEF Inductive, Typed, Send, tables, memory, history
<1>3. Placed'
  BY <1>1 DEF Inductive, Typed, Placed, Send, tables, memory, history
<1>4. Covered' /\ Ordered' /\ Told'
  BY DEF Inductive, Covered, Settled, Ordered, Told, LogTellsWorld, Send, tables, memory,
         history
<1> QED BY <1>2, <1>3, <1>4 DEF Inductive

LEMMA FetchInductive ==
  ASSUME Inductive, Fetch
  PROVE  Inductive'
<1>1. Typed'
  BY DEF Inductive, Typed, PC, Fetch, broker, tables, history
<1>2. Placed'
  BY DEF Inductive, Typed, Placed, Fetch, broker, tables, history
<1>3. Covered' /\ Ordered' /\ Told'
  BY DEF Inductive, Covered, Settled, Ordered, Told, LogTellsWorld, Fetch, broker, tables,
         history
<1> QED BY <1>1, <1>2, <1>3 DEF Inductive

LEMMA AlreadyProcessedInductive ==
  ASSUME Inductive, AlreadyProcessed
  PROVE  Inductive'
<1>1. Typed' /\ Placed'
  BY DEF Inductive, Typed, Placed, PC, AlreadyProcessed, broker, tables, history
<1>2. Covered' /\ Ordered' /\ Told'
  BY DEF Inductive, Covered, Settled, Ordered, Told, LogTellsWorld, AlreadyProcessed, broker,
         tables, history
<1> QED BY <1>1, <1>2 DEF Inductive

LEMMA HandleCommandInductive ==
  ASSUME Inductive, HandleCommand
  PROVE  Inductive'
<1> DEFINE bs == Handle(world, commands[position])
<1>1. position \in Nat /\ position # 0 /\ bs \in Seq(Body)
  <2>1. position \in 1 .. Len(commands) /\ commands[position] \in Command /\ world \in World
    BY DEF Inductive, Typed, Placed, HandleCommand
  <2> QED BY <2>1, WorldAssumption
<1>2. /\ pc = "check" /\ position \notin ledger /\ pc' = "publish"
      /\ world' = Fold(world, bs) /\ pending' = pending \o Batch(position, bs)
      /\ UNCHANGED <<broker, tables, position, history, faults>>
  BY DEF HandleCommand
<1> HIDE DEF bs
<1>3. events' = events /\ astray' = astray
  BY <1>2 DEF broker, history
<1>4. /\ world' \in World /\ pending' \in Seq(Event)
      /\ \A i \in DOMAIN pending' : \/ pending'[i].command = position
                                   \/ \E j \in DOMAIN pending : pending'[i] = pending[j]
      /\ Told'
  BY <1>1, <1>2, <1>3, Applied
<1>5. Typed' /\ Placed' /\ Covered'
  BY <1>2, <1>4 DEF Inductive, Typed, Placed, Covered, Settled, PC, broker, tables, history
<1>6. Ordered'
  BY <1>2, <1>4 DEF Inductive, Ordered, broker, tables, history
<1> QED BY <1>4, <1>5, <1>6 DEF Inductive

LEMMA RunTickInductive ==
  ASSUME Inductive, RunTick
  PROVE  Inductive'
<1> DEFINE bs == TickBodies(world)
<1>1. bs \in Seq(Body)
  BY WorldAssumption DEF Inductive, Typed
<1>2. /\ pc # "down" /\ pc' = pc
      /\ world' = Fold(world, bs) /\ pending' = pending \o Batch(0, bs)
      /\ UNCHANGED <<broker, tables, position, history, faults>>
  BY DEF RunTick
<1> HIDE DEF bs
<1>3. events' = events /\ astray' = astray
  BY <1>2 DEF broker, history
<1>4. /\ world' \in World /\ pending' \in Seq(Event)
      /\ \A i \in DOMAIN pending' : \/ pending'[i].command = 0
                                   \/ \E j \in DOMAIN pending : pending'[i] = pending[j]
      /\ Told'
  BY <1>1, <1>2, <1>3, Applied
<1>5. Typed' /\ Placed' /\ Covered'
  BY <1>2, <1>4 DEF Inductive, Typed, Placed, Covered, Settled, PC, broker, tables, history
<1>6. Ordered'
  BY <1>2, <1>4 DEF Inductive, Ordered, broker, tables, history
<1> QED BY <1>4, <1>5, <1>6 DEF Inductive

LEMMA MarkProcessedInductive ==
  ASSUME Inductive, MarkProcessed
  PROVE  Inductive'
<1>1. Typed' /\ Placed'
  BY DEF Inductive, Typed, Placed, PC, MarkProcessed, broker, history
<1>2. Covered'
  BY DEF Inductive, Covered, Settled, MarkProcessed, broker, history
<1>3. Ordered'
  BY DEF Inductive, Ordered, MarkProcessed, OfConsumer, broker, history
<1>4. Told'
  BY DEF Inductive, Told, LogTellsWorld, MarkProcessed, broker, history
<1> QED BY <1>1, <1>2, <1>3, <1>4 DEF Inductive

LEMMA DeadLetterInductive ==
  ASSUME Inductive, DeadLetter
  PROVE  Inductive'
<1>1. Typed' /\ Placed'
  BY DEF Inductive, Typed, Placed, PC, DeadLetter, tables, history
<1>2. Covered' /\ Ordered' /\ Told'
  BY DEF Inductive, Covered, Settled, Ordered, Told, LogTellsWorld, DeadLetter, tables, history
<1> QED BY <1>1, <1>2 DEF Inductive

LEMMA CommitInductive ==
  ASSUME Inductive, Commit
  PROVE  Inductive'
<1>1. Typed' /\ Placed'
  BY DEF Inductive, Typed, Placed, PC, Commit, tables, history
<1>2. Covered'
  <2>1. \A k \in 1 .. offset' : k \in 1 .. offset \/ k = position
    BY DEF Inductive, Typed, Placed, Commit
  <2> QED BY <2>1 DEF Inductive, Covered, Settled, Commit, tables, history
<1>3. Ordered'
  <2>1. \A i \in DOMAIN events : events[i].command <= offset' + 1
    <3>1. offset' = offset + 1 /\ offset \in Nat
      BY DEF Inductive, Typed, Placed, Commit
    <3>2. \A i \in DOMAIN events : events[i].command \in Nat
      <4>1. events \in Seq(Event) /\ DOMAIN events = 1 .. Len(events)
        BY LenProperties DEF Inductive, Typed
      <4>2. \A i \in 1 .. Len(events) : events[i] \in Event
        BY <4>1, ElementOfSeq
      <4> QED BY <4>1, <4>2 DEF Event
    <3> QED BY <3>1, <3>2 DEF Inductive, Ordered
  <2> QED BY <2>1 DEF Inductive, Ordered, Commit, tables, history
<1>4. Told'
  BY DEF Inductive, Told, LogTellsWorld, Commit, tables, history
<1> QED BY <1>1, <1>2, <1>3, <1>4 DEF Inductive

LEMMA CheckFailsInductive ==
  ASSUME Inductive, CheckFails
  PROVE  Inductive'
<1>1. Typed' /\ Placed'
  BY DEF Inductive, Typed, Placed, PC, CheckFails, broker, tables, history
<1>2. Covered' /\ Ordered' /\ Told'
  BY DEF Inductive, Covered, Settled, Ordered, Told, LogTellsWorld, CheckFails, broker, tables,
         history
<1> QED BY <1>1, <1>2 DEF Inductive

LEMMA MarkFailsInductive ==
  ASSUME Inductive, NEW b \in BOOLEAN, MarkFails(b)
  PROVE  Inductive'
<1>1. Typed' /\ Placed'
  BY DEF Inductive, Typed, Placed, PC, MarkFails, broker, history
<1>2. Covered'
  BY DEF Inductive, Covered, Settled, MarkFails, broker, history
<1>3. Ordered'
  BY DEF Inductive, Ordered, MarkFails, OfConsumer, broker, history
<1>4. Told'
  BY DEF Inductive, Told, LogTellsWorld, MarkFails, broker, history
<1> QED BY <1>1, <1>2, <1>3, <1>4 DEF Inductive

LEMMA CrashInductive ==
  ASSUME Inductive, Crash
  PROVE  Inductive'
<1>1. pending' = << >> /\ << >> \in Seq(Event) /\ DOMAIN << >> = {}
  BY DEF Crash
<1>2. Typed' /\ Placed'
  BY <1>1, WorldAssumption DEF Inductive, Typed, Placed, PC, Crash, broker, tables, history
<1>3. Covered' /\ Ordered' /\ Told'
  BY <1>1 DEF Inductive, Covered, Settled, Ordered, Told, LogTellsWorld, Crash, broker, tables,
              history
<1> QED BY <1>2, <1>3 DEF Inductive

LEMMA RestartInductive ==
  ASSUME Inductive, Restart
  PROVE  Inductive'
<1> DEFINE known == SubSeq(events, 1, projected')
<1>1. events \in Seq(Event) /\ projected' \in 0 .. Len(events) /\ known \in Seq(Event)
  BY DEF Inductive, Typed, Restart
<1>2. world' = Fold(FirstWorld, Bodies(known)) /\ astray' = (projected' < Len(events))
  BY DEF Restart, Strays
<1> HIDE DEF known
<1>3. world' \in World
  <2>1. Bodies(known) \in Seq(Body)
    BY <1>1, BodiesConcat
  <2> QED BY <1>2, <2>1, FoldConcat, WorldAssumption
<1>4. Typed' /\ Placed'
  BY <1>1, <1>2, <1>3 DEF Inductive, Typed, Placed, PC, Restart, broker
<1>5. Covered' /\ Ordered'
  BY DEF Inductive, Told, Covered, Settled, Ordered, Restart, broker
<1>6. Told'
  <2>1. pending' = << >> /\ events' = events
    BY DEF Inductive, Told, Restart, broker
  <2>2. ASSUME ~astray'
        PROVE  known = events' \o pending'
    <3>0. ~(projected' < Len(events))
      BY <1>2, <2>2, Zenon
    <3>1. projected' = Len(events)
      BY <1>1, <3>0
    <3>2. known = events
      BY <1>1, <3>1, SubSeqFull DEF known
    <3> QED BY <1>1, <2>1, <3>2, ConcatEmptySeq
  <2> QED BY <1>2, <2>1, <2>2 DEF Told, LogTellsWorld
<1> QED BY <1>4, <1>5, <1>6 DEF Inductive

(* An event of those pending is appended: it is of the command being       *)
(* published, which is the furthest yet, or of a tick.                     *)
LEMMA Appended ==
  ASSUME Inductive, NEW i \in DOMAIN pending, events' = Append(events, pending[i])
  PROVE  /\ events' \in Seq(Event) /\ Len(events') = Len(events) + 1
         /\ events' = events \o <<pending[i]>>
         /\ \A j \in DOMAIN events' : events'[j].command <= offset + 1
         /\ \A j, k \in DOMAIN events' :
              j < k /\ events'[k].command # 0 => events'[j].command <= events'[k].command
<1> DEFINE e == pending[i]
<1>1. /\ e \in Event /\ events \in Seq(Event) /\ Len(events) \in Nat
      /\ DOMAIN events = 1 .. Len(events) /\ offset \in Nat
  <2>1. events \in Seq(Event) /\ pending \in Seq(Event) /\ offset \in Nat
    BY DEF Inductive, Typed
  <2>2. i \in 1 .. Len(pending)
    BY <2>1, LenProperties
  <2> QED BY <2>1, <2>2, ElementOfSeq, LenProperties
<1>2. e.command \in Nat /\ (e.command = 0 \/ e.command = offset + 1)
  BY <1>1 DEF Inductive, Ordered, Placed, Event
<1> HIDE DEF e
<1>3. events' = Append(events, e)
  BY DEF e
<1>4. /\ events' \in Seq(Event) /\ Len(events') = Len(events) + 1
      /\ events' = events \o <<e>>
  BY <1>1, <1>3, AppendProperties, AppendIsConcat
<1>5. /\ DOMAIN events' = 1 .. Len(events) + 1
      /\ \A j \in 1 .. Len(events) : events'[j] = events[j]
      /\ events'[Len(events) + 1] = e
  BY <1>1, <1>3, <1>4, AppendProperties, LenProperties
<1>6. \A j \in 1 .. Len(events) + 1 : j \in 1 .. Len(events) \/ j = Len(events) + 1
  BY <1>1
<1>7. \A j \in 1 .. Len(events) : events[j].command <= offset + 1
  BY <1>1 DEF Inductive, Ordered
<1>8. \A j \in DOMAIN events' : events'[j].command <= offset + 1
  BY <1>1, <1>2, <1>5, <1>6, <1>7
<1>9. ASSUME NEW j \in DOMAIN events', NEW k \in DOMAIN events', j < k, events'[k].command # 0
      PROVE  events'[j].command <= events'[k].command
  <2>1. j \in 1 .. Len(events)
    BY <1>1, <1>5, <1>9
  <2>2. CASE k \in 1 .. Len(events)
    BY <1>1, <1>5, <1>9, <2>1, <2>2 DEF Inductive, Ordered
  <2>3. CASE k = Len(events) + 1
    BY <1>2, <1>5, <1>7, <1>9, <2>1, <2>3
  <2> QED BY <1>5, <1>6, <2>2, <2>3
<1> QED BY <1>4, <1>8, <1>9 DEF e

LEMMA PublishPendingInductive ==
  ASSUME Inductive, NEW i \in DOMAIN pending, PublishPending(i), pc # "down"
  PROVE  Inductive'
<1>1. /\ events' = Append(events, pending[i]) /\ pending' = RemoveAt(pending, i)
      /\ (~astray' => ~astray /\ ~(i > 1))
      /\ UNCHANGED <<commands, offset, dead, tables, pc, position, world, faults>>
  BY DEF PublishPending, Strays
<1>2. /\ events' \in Seq(Event) /\ Len(events') = Len(events) + 1
      /\ events' = events \o <<pending[i]>>
      /\ \A j \in DOMAIN events' : events'[j].command <= offset + 1
      /\ \A j, k \in DOMAIN events' :
           j < k /\ events'[k].command # 0 => events'[j].command <= events'[k].command
  BY <1>1, Appended
<1>3. /\ events \in Seq(Event) /\ pending \in Seq(Event) /\ i \in 1 .. Len(pending)
      /\ Len(events) \in Nat
  BY LenProperties DEF Inductive, Typed
<1>4. /\ pending' \in Seq(Event)
      /\ \A j \in DOMAIN pending' : \E k \in DOMAIN pending : pending'[j] = pending[k]
      /\ i = 1 => <<pending[1]>> \o pending' = pending
  BY <1>1, <1>3, Removed
<1>5. Typed'
  <2>1. projected' \in 0 .. Len(events')
    BY <1>1, <1>2, <1>3 DEF Inductive, Typed, tables
  <2>2. astray' \in BOOLEAN
    BY DEF Inductive, Typed, PublishPending, Strays
  <2> QED BY <1>1, <1>2, <1>4, <2>1, <2>2 DEF Inductive, Typed, tables
<1>6. Placed' /\ Covered'
  BY <1>1 DEF Inductive, Placed, Covered, Settled, tables
<1>7. Ordered'
  BY <1>1, <1>2, <1>4 DEF Inductive, Ordered
<1>8. Told'
  <2>1. ASSUME ~astray'
        PROVE  events' \o pending' = events \o pending
    <3>1. i = 1
      BY <1>1, <1>3, <2>1
    <3>2. <<pending[1]>> \in Seq(Event)
      BY <1>3, <3>1, ElementOfSeq
    <3>3. (events \o <<pending[1]>>) \o pending' = events \o (<<pending[1]>> \o pending')
      BY <1>3, <1>4, <3>2, ConcatAssociative, SMTT(60)
    <3> QED BY <1>2, <1>4, <3>1, <3>3
  <2> QED BY <1>1, <2>1 DEF Inductive, Told, LogTellsWorld
<1> QED BY <1>5, <1>6, <1>7, <1>8 DEF Inductive

(* The pending events of a task are found at either end of its places. *)
LEMMA FirstOfTask ==
  ASSUME Inductive
  PROVE  /\ OfConsumer # {} => /\ Min(OfConsumer) \in OfConsumer
                               /\ \A j \in OfConsumer : Min(OfConsumer) <= j
                               /\ Max(OfConsumer) \in OfConsumer
                               /\ \A j \in OfConsumer : j <= Max(OfConsumer)
         /\ OfTick # {} => Min(OfTick) \in OfTick
         /\ DOMAIN pending = 1 .. Len(pending)
<1>1. Len(pending) \in Nat /\ DOMAIN pending = 1 .. Len(pending)
  BY LenProperties DEF Inductive, Typed
<1>2. OfConsumer \in SUBSET (1 .. Len(pending)) /\ OfTick \in SUBSET (1 .. Len(pending))
  BY <1>1 DEF OfConsumer, OfTick
<1> QED BY <1>1, <1>2, Extremes

LEMMA PublishEventInductive ==
  ASSUME Inductive, PublishEvent
  PROVE  Inductive'
<1>1. Min(OfConsumer) \in DOMAIN pending
  BY FirstOfTask DEF PublishEvent, OfConsumer
<1> QED BY <1>1, PublishPendingInductive DEF PublishEvent

LEMMA PublishTickEventInductive ==
  ASSUME Inductive, PublishTickEvent
  PROVE  Inductive'
<1>1. Min(OfTick) \in DOMAIN pending
  BY FirstOfTask DEF PublishTickEvent, OfTick
<1> QED BY <1>1, PublishPendingInductive DEF PublishTickEvent

(* What is left when the consumer's events are taken out. *)
LEMMA Withdrawn ==
  ASSUME Inductive, OfConsumer # {}
  PROVE  /\ TickPending \in Seq(Event)
         /\ \A j \in DOMAIN TickPending : TickPending[j].command = 0
         /\ OfConsumer = {1} => <<pending[1]>> \o TickPending = pending
<1> DEFINE lo == Min(OfConsumer)
           hi == Max(OfConsumer)
           n == Len(pending)
           a == SubSeq(pending, 1, lo - 1)
           b == SubSeq(pending, hi + 1, n)
<1>1. /\ lo \in OfConsumer /\ hi \in OfConsumer /\ DOMAIN pending = 1 .. n
      /\ \A j \in OfConsumer : lo <= j /\ j <= hi
  BY FirstOfTask
<1>2. pending \in Seq(Event) /\ n \in Nat /\ lo \in 1 .. n /\ hi \in 1 .. n
  BY <1>1 DEF Inductive, Typed, OfConsumer
<1>3. TickPending = a \o b
  BY DEF TickPending
<1> HIDE DEF lo, hi, n
<1>4. /\ a \in Seq(Event) /\ Len(a) = lo - 1 /\ \A j \in 1 .. lo - 1 : a[j] = pending[j]
      /\ b \in Seq(Event) /\ Len(b) = n - hi /\ \A j \in 1 .. n - hi : b[j] = pending[hi + j]
  BY <1>2 DEF n
<1> HIDE DEF a, b
<1>5. /\ a \o b \in Seq(Event) /\ DOMAIN (a \o b) = 1 .. (lo - 1) + (n - hi)
      /\ \A j \in 1 .. (lo - 1) + (n - hi) :
           (a \o b)[j] = IF j <= lo - 1 THEN a[j] ELSE b[j - (lo - 1)]
  <2>1. a \o b \in Seq(Event) /\ Len(a \o b) = (lo - 1) + (n - hi)
    <3>1. Len(a \o b) = Len(a) + Len(b) /\ a \o b \in Seq(Event)
      BY <1>4, ConcatProperties
    <3> QED BY <1>4, <3>1
  <2>2. DOMAIN (a \o b) = 1 .. Len(a \o b)
    BY <2>1, LenProperties
  <2>3. \A j \in 1 .. Len(a) + Len(b) :
          (a \o b)[j] = IF j <= Len(a) THEN a[j] ELSE b[j - Len(a)]
    BY <1>4, ConcatProperties
  <2> QED BY <1>4, <2>1, <2>2, <2>3
<1>6. ASSUME NEW j \in DOMAIN (a \o b)
      PROVE  (a \o b)[j].command = 0
  <2>1. CASE j <= lo - 1
    <3>1. (a \o b)[j] = pending[j] /\ j \in 1 .. n /\ ~(lo <= j)
      BY <1>2, <1>4, <1>5, <2>1
    <3> QED BY <1>1, <3>1 DEF OfConsumer
  <2>2. CASE ~(j <= lo - 1)
    <3> DEFINE k == hi + (j - (lo - 1))
    <3>1. j - (lo - 1) \in 1 .. n - hi
      BY <1>2, <1>5, <2>2
    <3>2. (a \o b)[j] = pending[k]
      BY <1>4, <1>5, <2>2, <3>1
    <3>3. k \in 1 .. n /\ ~(k <= hi)
      BY <1>2, <3>1
    <3> HIDE DEF k
    <3> QED BY <1>1, <3>2, <3>3 DEF OfConsumer
  <2> QED BY <2>1, <2>2
<1>7. ASSUME OfConsumer = {1}
      PROVE  <<pending[1]>> \o (a \o b) = pending
  <2>1. lo = 1 /\ hi = 1
    BY <1>1, <1>7
  <2>2. RemoveAt(pending, 1) = a \o b
    BY <1>2, <2>1 DEF RemoveAt, a, b, n
  <2>3. 1 \in 1 .. Len(pending)
    BY <1>2, <2>1 DEF n
  <2> QED BY <1>2, <2>2, <2>3, Removed
<1> QED BY <1>3, <1>5, <1>6, <1>7

LEMMA PublishFailsInductive ==
  ASSUME Inductive, NEW appended \in BOOLEAN, PublishFails(appended)
  PROVE  Inductive'
<1> DEFINE i == Min(OfConsumer)
<1>1. /\ pc = "publish" /\ OfConsumer # {} /\ pc' = "dead"
      /\ events' = IF appended THEN Append(events, pending[i]) ELSE events
      /\ pending' = TickPending
      /\ (~astray' => ~astray /\ appended /\ ~(i > 1) /\ OfConsumer = {i})
      /\ UNCHANGED <<commands, offset, dead, tables, position, world>>
  BY DEF PublishFails, Strays
<1>2. i \in DOMAIN pending /\ DOMAIN pending = 1 .. Len(pending)
  BY <1>1, FirstOfTask DEF OfConsumer
<1>3. astray' \in BOOLEAN
  BY DEF Inductive, Typed, PublishFails, Strays
<1> HIDE DEF i
<1>4. events \in Seq(Event) /\ pending \in Seq(Event) /\ Len(events) \in Nat
  BY LenProperties DEF Inductive, Typed
<1>5. /\ pending' \in Seq(Event) /\ \A j \in DOMAIN pending' : pending'[j].command = 0
      /\ OfConsumer = {1} => <<pending[1]>> \o pending' = pending
  BY <1>1, Withdrawn
<1>6. /\ events' \in Seq(Event) /\ Len(events) <= Len(events')
      /\ Len(events') \in Nat
      /\ appended => events' = events \o <<pending[i]>>
      /\ \A j \in DOMAIN events' : events'[j].command <= offset + 1
      /\ \A j, k \in DOMAIN events' :
           j < k /\ events'[k].command # 0 => events'[j].command <= events'[k].command
  <2>1. CASE appended
    <3>1. events' = Append(events, pending[i])
      BY <1>1, <2>1
    <3> QED BY <1>2, <1>4, <3>1, Appended
  <2>2. CASE ~appended
    BY <1>1, <1>4, <2>2 DEF Inductive, Ordered
  <2> QED BY <2>1, <2>2
<1>7. Typed'
  <2>1. projected' \in 0 .. Len(events')
    BY <1>1, <1>4, <1>6 DEF Inductive, Typed, tables
  <2> QED BY <1>1, <1>3, <1>5, <1>6, <2>1 DEF Inductive, Typed, PC, tables
<1>8. Placed' /\ Covered'
  BY <1>1 DEF Inductive, Placed, Covered, Settled, tables
<1>9. Ordered'
  BY <1>1, <1>5, <1>6 DEF Inductive, Ordered
<1>10. Told'
  <2>1. ASSUME ~astray'
        PROVE  events' \o pending' = events \o pending
    <3>0. appended /\ OfConsumer = {i} /\ ~(i > 1)
      BY <1>1, <2>1, Zenon
    <3>1. i = 1
      BY <1>2, <3>0
    <3>2. <<pending[1]>> \in Seq(Event)
      BY <1>2, <1>4, <3>1, ElementOfSeq
    <3>3. (events \o <<pending[1]>>) \o pending' = events \o (<<pending[1]>> \o pending')
      BY <1>4, <1>5, <3>2, ConcatAssociative
    <3> QED BY <1>5, <1>6, <3>0, <3>1, <3>3
  <2>2. ~astray' => ~astray
    BY <1>1
  <2> QED BY <1>1, <2>1, <2>2 DEF Inductive, Told, LogTellsWorld
<1> QED BY <1>7, <1>8, <1>9, <1>10 DEF Inductive

-----------------------------------------------------------------------------
(* 5. What follows *)

LEMMA NextInductive ==
  ASSUME Inductive, [Next]_vars
  PROVE  Inductive'
<1>1. CASE \E c \in Command : Send(c)
  BY <1>1, SendInductive
<1>2. CASE Consume
  BY <1>2, FetchInductive, AlreadyProcessedInductive, HandleCommandInductive,
     PublishEventInductive, MarkProcessedInductive, DeadLetterInductive, CommitInductive
     DEF Consume
<1>3. CASE RunTick
  BY <1>3, RunTickInductive
<1>4. CASE PublishTickEvent
  BY <1>4, PublishTickEventInductive
<1>5. CASE Fails
  BY <1>5, CheckFailsInductive, CrashInductive, PublishFailsInductive, MarkFailsInductive DEF Fails
<1>6. CASE Restart
  BY <1>6, RestartInductive
<1>7. CASE UNCHANGED vars
  BY <1>7 DEF Inductive, Typed, Placed, Covered, Settled, Ordered, Told, LogTellsWorld, vars,
              broker, tables, memory, history
<1> QED BY <1>1, <1>2, <1>3, <1>4, <1>5, <1>6, <1>7 DEF Next

LEMMA SpecInductive == Spec => []Inductive
<1>1. Init => Inductive
  BY InitInductive
<1>2. Inductive /\ [Next]_vars => Inductive'
  BY NextInductive
<1> QED BY <1>1, <1>2, PTL DEF Spec

(* Whatever is killed or fails, no offset is committed before the commands *)
(* it covers are settled, and no event of a command stands in the log      *)
(* after one of a later command (_consume: publish, then ledger, then      *)
(* commit).                                                                *)
THEOREM CommandsSettledInOrder == Spec => []SettledInOrder
<1>1. Inductive => SettledInOrder
  BY DEF Inductive, Covered, Ordered, SettledInOrder
<1> QED BY <1>1, SpecInductive, PTL

(* Only a command being published, or a tick, appends an event: what was   *)
(* emitted for any other stands as it is.                                  *)
LEMMA EmitsOfTask ==
  ASSUME Inductive, NEW i \in DOMAIN pending, events' = Append(events, pending[i]),
         NEW k, k # pending[i].command
  PROVE  Emitted(k)' = Emitted(k)
<1>1. /\ events \in Seq(Event) /\ pending \in Seq(Event) /\ Len(events) \in Nat
      /\ DOMAIN events = 1 .. Len(events) /\ i \in 1 .. Len(pending)
  BY LenProperties DEF Inductive, Typed
<1>2. pending[i] \in Event
  BY <1>1, ElementOfSeq
<1>3. /\ events' \in Seq(Event) /\ Len(events') = Len(events) + 1
      /\ \A j \in 1 .. Len(events) : events'[j] = events[j]
      /\ events'[Len(events) + 1] = pending[i]
  BY <1>1, <1>2, AppendProperties
<1>4. DOMAIN events' = 1 .. Len(events) + 1
  BY <1>3, LenProperties
<1>5. ASSUME NEW j \in 1 .. Len(events) + 1
      PROVE  events'[j].command = k <=> j \in 1 .. Len(events) /\ events[j].command = k
  <2>1. CASE j \in 1 .. Len(events)
    BY <1>3, <2>1
  <2>2. CASE j = Len(events) + 1
    BY <1>1, <1>3, <2>2
  <2> QED BY <1>1, <2>1, <2>2
<1>6. \A j \in 1 .. Len(events) : j \in 1 .. Len(events) + 1
  BY <1>1
<1> QED BY <1>1, <1>4, <1>5, <1>6 DEF Emitted

(* A command whose ledger row is committed emits nothing more, whatever is *)
(* redelivered (already_processed before handle_command).                  *)
THEOREM LedgeredEmitsNoMore == Spec => LedgeredNotRepeated
<1>1. ASSUME Inductive, [Next]_vars
      PROVE  \A k \in ledger : Emitted(k)' = Emitted(k)
  <2> SUFFICES ASSUME NEW k \in ledger
               PROVE  Emitted(k)' = Emitted(k)
    OBVIOUS
  <2>1. k # 0 /\ (pc = "publish" => k # position)
    BY <1>1 DEF Inductive, Typed, Covered
  <2>2. \A i \in DOMAIN pending : k # pending[i].command
    BY <1>1, <2>1 DEF Inductive, Ordered
  <2>3. CASE events' = events
    BY <2>3 DEF Emitted
  <2>4. ASSUME NEW i \in DOMAIN pending, events' = Append(events, pending[i])
        PROVE  Emitted(k)' = Emitted(k)
    BY <1>1, <2>2, <2>4, EmitsOfTask
  <2>5. CASE PublishEvent
    <3>1. Min(OfConsumer) \in DOMAIN pending
      BY <1>1, <2>5, FirstOfTask DEF PublishEvent, OfConsumer
    <3> QED BY <2>4, <2>5, <3>1 DEF PublishEvent, PublishPending
  <2>6. CASE PublishTickEvent
    <3>1. Min(OfTick) \in DOMAIN pending
      BY <1>1, <2>6, FirstOfTask DEF PublishTickEvent, OfTick
    <3> QED BY <2>4, <2>6, <3>1 DEF PublishTickEvent, PublishPending
  <2>7. ASSUME NEW b \in BOOLEAN, PublishFails(b)
        PROVE  Emitted(k)' = Emitted(k)
    <3>1. Min(OfConsumer) \in DOMAIN pending
      BY <1>1, <2>7, FirstOfTask DEF PublishFails, OfConsumer
    <3>2. CASE b
      BY <2>4, <2>7, <3>1, <3>2 DEF PublishFails
    <3>3. CASE ~b
      BY <2>3, <2>7, <3>3 DEF PublishFails
    <3> QED BY <3>2, <3>3
  <2>8. CASE (\E c \in Command : Send(c)) \/ RunTick \/ Restart \/ UNCHANGED vars
    BY <2>3, <2>8 DEF Send, RunTick, Restart, vars, broker
  <2>9. CASE Fetch \/ AlreadyProcessed \/ HandleCommand \/ MarkProcessed \/ DeadLetter \/ Commit
    BY <2>3, <2>9 DEF Fetch, AlreadyProcessed, HandleCommand, MarkProcessed, DeadLetter, Commit,
                      broker
  <2>10. CASE CheckFails \/ Crash \/ \E b \in BOOLEAN : MarkFails(b)
    BY <2>3, <2>10 DEF CheckFails, Crash, MarkFails, broker
  <2> QED BY <1>1, <2>5, <2>6, <2>7, <2>8, <2>9, <2>10 DEF Next, Consume, Fails
<1>2. Inductive /\ [Next]_vars => [\A k \in ledger : Emitted(k)' = Emitted(k)]_vars
  BY <1>1
<1> QED BY <1>2, SpecInductive, PTL DEF Spec, LedgeredNotRepeated

(* A worker that has not been astray holds the mission its log tells, of   *)
(* any mission and any handlers (handle_command and run_tick before their  *)
(* events, rehydrate after a kill).                                        *)
THEOREM WorldIsTold == Spec => []LogTellsWorld
<1>1. Inductive => LogTellsWorld
  BY DEF Inductive, Told
<1> QED BY <1>1, SpecInductive, PTL

-----------------------------------------------------------------------------
(* 6. A command in the ledger is whole *)

(* The mission the log tells. *)
After(es) == Fold(FirstWorld, Bodies(es))

(* Once there is an event of a command, the command still comes to         *)
(* something on the mission the log tells from there on.                   *)
Stands(es, k, c) ==
  \A n \in 0 .. Len(es) :
    (\E i \in 1 .. n : es[i].command = k) => Handle(After(SubSeq(es, 1, n)), c) # << >>

(* The last event there is of a command is its last. *)
Whole(es, k) ==
  \A m \in DOMAIN es :
    es[m].command = k /\ (\A i \in DOMAIN es : es[i].command = k => i <= m) => es[m].last

(* What is left of a command that was cut short can be carried out again:  *)
(* on the log, and on any part of it that a kill leaves, it stands.        *)
Kept ==
  /\ strayed \in BOOLEAN /\ (astray => strayed)
  /\ \A i \in DOMAIN events : events[i].command <= Len(commands)
  /\ ~strayed =>
       /\ \A k \in DOMAIN commands :
            k = offset + 1 => Stands(events \o pending, k, commands[k])
       /\ pc = "publish" => Whole(events \o pending, position)
       /\ \A k \in ledger : Whole(events, k)

LEMMA AfterConcat ==
  ASSUME NEW es \in Seq(Event), NEW fs \in Seq(Event)
  PROVE  After(es) \in World /\ After(es \o fs) = Fold(After(es), Bodies(fs))
<1>1. /\ Bodies(es) \in Seq(Body) /\ Bodies(fs) \in Seq(Body)
      /\ Bodies(es \o fs) = Bodies(es) \o Bodies(fs)
  BY BodiesConcat
<1> QED BY <1>1, FoldConcat, WorldAssumption DEF After

LEMMA AfterAppend ==
  ASSUME NEW es \in Seq(Event), NEW e \in Event
  PROVE  After(Append(es, e)) = Apply(After(es), e.body)
<1>1. <<e>> \in Seq(Event) /\ Len(<<e>>) = 1 /\ <<e>>[1] = e /\ Append(es, e) = es \o <<e>>
  BY AppendIsConcat
<1>2. Bodies(<<e>>) = <<e.body>>
  <2>1. DOMAIN <<e>> = 1 .. 1 /\ \A i \in 1 .. 1 : i = 1
    OBVIOUS
  <2>2. Bodies(<<e>>) = [i \in 1 .. 1 |-> e.body]
    BY <2>1 DEF Bodies
  <2> QED BY <2>2
<1>3. After(Append(es, e)) = Fold(After(es), <<e.body>>)
  BY <1>1, <1>2, AfterConcat
<1>4. e.body \in Body
  BY DEF Event
<1>5. Fold(After(es), Append(<< >>, e.body)) = Apply(Fold(After(es), << >>), e.body)
  BY <1>4, EmptySeq, FoldAppend
<1>6. Append(<< >>, e.body) = <<e.body>>
  OBVIOUS
<1> QED BY <1>3, <1>5, <1>6, FoldEmpty

(* The events of a concatenation, and its beginnings. *)
LEMMA Joined ==
  ASSUME NEW es \in Seq(Event), NEW fs \in Seq(Event)
  PROVE  /\ es \o fs \in Seq(Event) /\ Len(es \o fs) = Len(es) + Len(fs)
         /\ Len(es) \in Nat /\ Len(fs) \in Nat
         /\ \A i \in 1 .. Len(es) : (es \o fs)[i] = es[i]
         /\ \A i \in 1 .. Len(fs) : (es \o fs)[Len(es) + i] = fs[i]
         /\ \A i \in 1 .. Len(es) + Len(fs) :
              i \in 1 .. Len(es) \/ \E j \in 1 .. Len(fs) : i = Len(es) + j
         /\ \A n \in 0 .. Len(es) : SubSeq(es \o fs, 1, n) = SubSeq(es, 1, n)
<1>1. /\ es \o fs \in Seq(Event) /\ Len(es \o fs) = Len(es) + Len(fs)
      /\ Len(es) \in Nat /\ Len(fs) \in Nat
      /\ \A i \in 1 .. Len(es) : (es \o fs)[i] = es[i]
      /\ \A i \in 1 .. Len(fs) : (es \o fs)[Len(es) + i] = fs[i]
  OBVIOUS
<1>2. ASSUME NEW i \in 1 .. Len(es) + Len(fs), i \notin 1 .. Len(es)
      PROVE  \E j \in 1 .. Len(fs) : i = Len(es) + j
  <2>1. i - Len(es) \in 1 .. Len(fs) /\ i = Len(es) + (i - Len(es))
    BY <1>1, <1>2
  <2> QED BY <2>1
<1>3. ASSUME NEW n \in 0 .. Len(es)
      PROVE  SubSeq(es \o fs, 1, n) = SubSeq(es, 1, n)
  <2> DEFINE all == es \o fs
  <2>1. \A i \in 1 .. n : i \in 1 .. Len(es)
    BY <1>1
  <2>2. /\ SubSeq(all, 1, n) \in Seq(Event) /\ Len(SubSeq(all, 1, n)) = n
        /\ \A i \in 1 .. n : SubSeq(all, 1, n)[i] = all[i]
    <3>1. all \in Seq(Event) /\ n <= Len(all) /\ n \in Nat
      BY <1>1
    <3> HIDE DEF all
    <3> QED BY <3>1
  <2>3. /\ SubSeq(es, 1, n) \in Seq(Event) /\ Len(SubSeq(es, 1, n)) = n
        /\ \A i \in 1 .. n : SubSeq(es, 1, n)[i] = es[i]
    BY <1>1
  <2>4. \A i \in 1 .. n : SubSeq(all, 1, n)[i] = SubSeq(es, 1, n)[i]
    BY <1>1, <2>1, <2>2, <2>3
  <2> HIDE DEF all
  <2>5. SubSeq(all, 1, n) = SubSeq(es, 1, n)
    BY <2>2, <2>3, <2>4, SeqEqual
  <2> QED BY <2>5 DEF all
<1> QED BY <1>1, <1>2, <1>3

(* A beginning of a log stands where the log does. *)
LEMMA StandsBefore ==
  ASSUME NEW es \in Seq(Event), NEW fs \in Seq(Event), NEW k, NEW c, Stands(es \o fs, k, c)
  PROVE  Stands(es, k, c)
<1> SUFFICES ASSUME NEW n \in 0 .. Len(es), NEW i \in 1 .. n, es[i].command = k
             PROVE  Handle(After(SubSeq(es, 1, n)), c) # << >>
  BY DEF Stands
<1>1. n \in 0 .. Len(es \o fs) /\ i \in 1 .. Len(es)
  BY Joined
<1>2. SubSeq(es \o fs, 1, n) = SubSeq(es, 1, n) /\ (es \o fs)[i] = es[i]
  BY <1>1, Joined
<1> QED BY <1>1, <1>2 DEF Stands

(* A batch that takes nothing from a command that stands leaves it so: one *)
(* of its own events or of a tick's.                                       *)
LEMMA StandsAfter ==
  ASSUME NEW es \in Seq(Event), NEW k \in Nat, NEW c, NEW j \in Nat, NEW bs \in Seq(Body),
         Stands(es, k, c), j = k => Handle(After(es), c) # << >>,
         \A w \in World, i \in 1 .. Len(bs) :
           Handle(w, c) # << >> => Handle(Apply(w, bs[i]), c) # << >>
  PROVE  Stands(es \o Batch(j, bs), k, c)
<1> DEFINE fs == Batch(j, bs)
           all == es \o fs
           P == {n \in Nat : Handle(After(SubSeq(all, 1, Len(es) + n)), c) # << >>}
<1>1. /\ fs \in Seq(Event) /\ Bodies(fs) = bs /\ \A i \in DOMAIN fs : fs[i].command = j
      /\ DOMAIN fs = 1 .. Len(fs) /\ DOMAIN bs = 1 .. Len(bs) /\ Len(fs) = Len(bs)
      /\ \A i \in 1 .. Len(fs) : fs[i].body = bs[i]
  <2>1. /\ fs \in Seq(Event) /\ Bodies(fs) = bs /\ \A i \in DOMAIN fs : fs[i].command = j
    BY BatchType
  <2>2. DOMAIN fs = DOMAIN bs
    BY DEF Batch
  <2> HIDE DEF fs
  <2>3. DOMAIN fs = 1 .. Len(fs) /\ DOMAIN bs = 1 .. Len(bs) /\ Len(fs) \in Nat /\ Len(bs) \in Nat
    BY <2>1, LenProperties
  <2>4. \A i \in DOMAIN fs : Bodies(fs)[i] = fs[i].body
    BY DEF Bodies
  <2>5. Len(fs) = Len(bs)
    <3>1. 1 .. Len(fs) = 1 .. Len(bs)
      BY <2>2, <2>3, Zenon
    <3>2. ASSUME NEW m \in Nat, NEW n \in Nat, 1 .. m = 1 .. n
          PROVE  m = n
      <4>1. (m # 0 => m \in 1 .. m) /\ (n # 0 => n \in 1 .. n)
        OBVIOUS
      <4>2. (m # 0 => m \in 1 .. n) /\ (n # 0 => n \in 1 .. m)
        BY <3>2, <4>1, Zenon
      <4> QED BY <4>2
    <3> QED BY <2>3, <3>1, <3>2
  <2> QED BY <2>1, <2>3, <2>4, <2>5
<1> HIDE DEF fs
<1>2. /\ all \in Seq(Event) /\ Len(all) = Len(es) + Len(fs)
      /\ Len(es) \in Nat /\ Len(fs) \in Nat
      /\ \A i \in 1 .. Len(es) : all[i] = es[i]
      /\ \A i \in 1 .. Len(fs) : all[Len(es) + i] = fs[i]
      /\ \A i \in 1 .. Len(es) + Len(fs) :
           i \in 1 .. Len(es) \/ \E q \in 1 .. Len(fs) : i = Len(es) + q
      /\ \A n \in 0 .. Len(es) : SubSeq(all, 1, n) = SubSeq(es, 1, n)
  BY <1>1, Joined
<1> HIDE DEF all
<1>3. SubSeq(all, 1, Len(es)) = es
  BY <1>2, SubSeqFull
<1>4. ASSUME 0 \in P
      PROVE  \A n \in 0 .. Len(fs) : n \in P
  <2>1. ASSUME NEW n \in 1 .. Len(fs), n - 1 \in P
        PROVE  n \in P
    <3> DEFINE m == Len(es) + (n - 1)
    <3>1. m \in Nat /\ m + 1 = Len(es) + n /\ m + 1 \in 1 .. Len(all) /\ n \in Nat
      BY <1>2
    <3>2. SubSeq(all, 1, m + 1) = Append(SubSeq(all, 1, m), all[m + 1])
      <4>0. m + 1 <= Len(all)
        BY <3>1, <1>2
      <4> HIDE DEF m
      <4> DEFINE a == SubSeq(all, 1, m + 1)
                 b == SubSeq(all, 1, m)
                 e == all[m + 1]
      <4>1. /\ a \in Seq(Event) /\ Len(a) = m + 1 /\ \A i \in 1 .. m + 1 : a[i] = all[i]
            /\ b \in Seq(Event) /\ Len(b) = m /\ \A i \in 1 .. m : b[i] = all[i]
        BY <1>2, <3>1, <4>0
      <4>2. e \in Event
        BY <1>2, <3>1
      <4> HIDE DEF a, b, e
      <4>3. /\ Append(b, e) \in Seq(Event) /\ Len(Append(b, e)) = m + 1
            /\ \A i \in 1 .. m : Append(b, e)[i] = b[i]
            /\ Append(b, e)[m + 1] = e
        BY <3>1, <4>1, <4>2, AppendProperties
      <4>4. \A i \in 1 .. m + 1 : i \in 1 .. m \/ i = m + 1
        BY <3>1
      <4>5. \A i \in 1 .. m + 1 : Append(b, e)[i] = a[i]
        BY <4>1, <4>3, <4>4 DEF e
      <4>6. a = Append(b, e)
        BY <4>1, <4>3, <4>5, SeqEqual
      <4> QED BY <4>6 DEF a, b, e
    <3>3. all[m + 1] = fs[n] /\ fs[n] \in Event /\ fs[n].body = bs[n]
      BY <1>1, <1>2, <3>1
    <3>4. SubSeq(all, 1, m) \in Seq(Event)
      <4> HIDE DEF m
      <4> QED BY <1>2, <3>1
    <3>5. After(SubSeq(all, 1, m + 1)) = Apply(After(SubSeq(all, 1, m)), bs[n])
      BY <3>2, <3>3, <3>4, AfterAppend
    <3>6. After(SubSeq(all, 1, m)) \in World
      BY <3>4, AfterConcat
    <3>7. Handle(After(SubSeq(all, 1, m)), c) # << >>
      BY <2>1
    <3>8. Handle(After(SubSeq(all, 1, m + 1)), c) # << >>
      BY <1>1, <3>5, <3>6, <3>7
    <3> QED BY <3>1, <3>8
  <2> HIDE DEF P
  <2> QED BY <1>2, <1>4, <2>1, W!InductionUpTo
<1>5. ASSUME NEW n \in 0 .. Len(all), NEW i \in 1 .. n, all[i].command = k
      PROVE  Handle(After(SubSeq(all, 1, n)), c) # << >>
  <2>1. CASE n \in 0 .. Len(es)
    <3>1. i \in 1 .. Len(es) /\ es[i].command = k /\ SubSeq(all, 1, n) = SubSeq(es, 1, n)
      BY <1>2, <1>5, <2>1
    <3> QED BY <2>1, <3>1 DEF Stands
  <2>2. CASE n \notin 0 .. Len(es)
    <3>1. Handle(After(es), c) # << >>
      <4>1. CASE i \in 1 .. Len(es)
        <5>1. Len(es) \in 0 .. Len(es) /\ es[i].command = k /\ SubSeq(es, 1, Len(es)) = es
          BY <1>2, <1>3, <1>5, <4>1
        <5> QED BY <4>1, <5>1 DEF Stands
      <4>2. CASE i \notin 1 .. Len(es)
        <5>0. i \in 1 .. Len(es) + Len(fs)
          BY <1>2
        <5>1. PICK q \in 1 .. Len(fs) : i = Len(es) + q
          BY <1>2, <4>2, <5>0, Zenon
        <5>2. j = k
          BY <1>1, <1>2, <1>5, <5>1, ZenonT(60)
        <5> QED BY <5>2
      <4> QED BY <4>1, <4>2
    <3>2. 0 \in P
      <4>1. Len(es) + 0 = Len(es)
        BY <1>2
      <4> QED BY <1>3, <3>1, <4>1
    <3>3. n - Len(es) \in 0 .. Len(fs) /\ n = Len(es) + (n - Len(es))
      BY <1>2, <2>2
    <3>4. n - Len(es) \in P
      BY <1>4, <3>2, <3>3
    <3> QED BY <3>3, <3>4
  <2> QED BY <2>1, <2>2
<1>6. Stands(all, k, c)
  BY <1>5 DEF Stands
<1> QED BY <1>6 DEF all, fs


(* Events of others, after it, leave a command as whole as it is. *)
LEMMA WholeBeside ==
  ASSUME NEW es \in Seq(Event), NEW fs \in Seq(Event), NEW k,
         \A i \in DOMAIN fs : fs[i].command # k
  PROVE  Whole(es \o fs, k) <=> Whole(es, k)
<1> DEFINE all == es \o fs
<1>1. /\ DOMAIN all = 1 .. Len(es) + Len(fs) /\ DOMAIN es = 1 .. Len(es)
      /\ DOMAIN fs = 1 .. Len(fs) /\ Len(es) \in Nat /\ Len(fs) \in Nat
      /\ \A i \in 1 .. Len(es) : all[i] = es[i]
      /\ \A i \in 1 .. Len(fs) : all[Len(es) + i] = fs[i]
      /\ \A i \in 1 .. Len(es) + Len(fs) :
           i \in 1 .. Len(es) \/ \E j \in 1 .. Len(fs) : i = Len(es) + j
  BY Joined, LenProperties
<1> HIDE DEF all
<1>2. \A i : i \in DOMAIN all /\ all[i].command = k <=> i \in DOMAIN es /\ es[i].command = k
  <2> SUFFICES ASSUME NEW i
               PROVE  i \in DOMAIN all /\ all[i].command = k
                        <=> i \in DOMAIN es /\ es[i].command = k
    OBVIOUS
  <2>1. CASE i \in 1 .. Len(es)
    <3>1. i \in 1 .. Len(es) + Len(fs)
      BY <1>1, <2>1
    <3> QED BY <1>1, <2>1, <3>1, Zenon
  <2>2. CASE i \notin 1 .. Len(es)
    <3>1. ASSUME i \in DOMAIN all
          PROVE  all[i].command # k
      <4>1. PICK j \in 1 .. Len(fs) : i = Len(es) + j
        BY <1>1, <2>2, <3>1, Zenon
      <4> QED BY <1>1, <4>1, Zenon
    <3> QED BY <1>1, <2>2, <3>1, Zenon
  <2> QED BY <2>1, <2>2
<1>3. \A m \in DOMAIN es : all[m] = es[m]
  BY <1>1
<1>4. Whole(all, k) <=> Whole(es, k)
  BY <1>2, <1>3, Zenon DEF Whole
<1> QED BY <1>4 DEF all

(* A batch brings its own last event. *)
LEMMA WholeBatch ==
  ASSUME NEW es \in Seq(Event), NEW k \in Nat, NEW bs \in Seq(Body), bs # << >>
  PROVE  Whole(es \o Batch(k, bs), k)
<1> DEFINE fs == Batch(k, bs)
           all == es \o fs
<1>1. fs \in Seq(Event) /\ DOMAIN fs = DOMAIN bs /\ \A i \in DOMAIN fs : fs[i].command = k
  BY BatchType DEF Batch
<1>2. Len(bs) \in DOMAIN bs
  <2>1. Len(bs) \in Nat /\ DOMAIN bs = 1 .. Len(bs) /\ Len(bs) # 0
    BY LenProperties, EmptySeq
  <2> QED BY <2>1
<1>3. fs[Len(bs)].last
  BY <1>2 DEF Batch
<1>4. \A i \in DOMAIN bs : i <= Len(bs)
  BY LenProperties
<1> HIDE DEF fs
<1>5. /\ DOMAIN all = 1 .. Len(es) + Len(fs) /\ DOMAIN fs = 1 .. Len(fs)
      /\ Len(es) \in Nat /\ Len(fs) \in Nat
      /\ \A i \in 1 .. Len(fs) : all[Len(es) + i] = fs[i]
      /\ \A i \in 1 .. Len(es) + Len(fs) :
           i \in 1 .. Len(es) \/ \E j \in 1 .. Len(fs) : i = Len(es) + j
  BY <1>1, Joined, LenProperties
<1> HIDE DEF all
<1> DEFINE last == Len(es) + Len(bs)
<1>6. Len(bs) \in 1 .. Len(fs) /\ Len(bs) \in Nat
  BY <1>1, <1>2, <1>5
<1>7. last \in DOMAIN all /\ all[last] = fs[Len(bs)] /\ all[last].command = k
  <2>1. last \in DOMAIN all
    BY <1>5, <1>6
  <2>2. all[last] = fs[Len(bs)]
    BY <1>5, <1>6
  <2>3. fs[Len(bs)].command = k
    BY <1>1, <1>2
  <2> QED BY <2>1, <2>2, <2>3
<1>8. \A i \in DOMAIN all : i <= last
  <2> SUFFICES ASSUME NEW i \in DOMAIN all PROVE i <= last
    OBVIOUS
  <2>1. CASE i \in 1 .. Len(es)
    BY <1>5, <1>6, <2>1
  <2>2. CASE i \notin 1 .. Len(es)
    <3>1. PICK j \in 1 .. Len(fs) : i = Len(es) + j
      BY <1>5, <2>2, Zenon
    <3>2. j <= Len(bs)
      BY <1>1, <1>4, <1>5
    <3> QED BY <1>5, <1>6, <3>1, <3>2
  <2> QED BY <2>1, <2>2
<1>9. last \in Nat /\ DOMAIN all \subseteq Nat
  BY <1>5, <1>6
<1> HIDE DEF last
<1>10. ASSUME NEW m \in DOMAIN all, all[m].command = k,
              \A i \in DOMAIN all : all[i].command = k => i <= m
       PROVE  all[m].last
  <2>1. last <= m /\ m <= last /\ m \in Nat
    BY <1>7, <1>8, <1>9, <1>10
  <2>2. m = last
    BY <1>9, <2>1
  <2> QED BY <1>3, <1>7, <2>2
<1>11. Whole(all, k)
  BY <1>10 DEF Whole
<1> QED BY <1>11 DEF all, fs

(* A command without events is whole. *)
LEMMA WholeNone ==
  ASSUME NEW es, NEW k, \A i \in DOMAIN es : es[i].command # k
  PROVE  Whole(es, k)
BY DEF Whole


LEMMA InitKept == Init => Kept
<1> SUFFICES ASSUME Init PROVE Kept
  OBVIOUS
<1>1. /\ events = << >> /\ commands = << >> /\ ledger = {} /\ pc = "poll"
      /\ astray = FALSE /\ strayed = FALSE
  BY DEF Init
<1>2. DOMAIN << >> = {}
  OBVIOUS
<1> QED BY <1>1, <1>2 DEF Kept

(* What there is, published or pending: of no command beyond the next. *)
LEMMA Logged ==
  ASSUME Inductive
  PROVE  /\ events \in Seq(Event) /\ pending \in Seq(Event) /\ events \o pending \in Seq(Event)
         /\ offset \in Nat /\ position \in Nat /\ commands \in Seq(Command)
         /\ DOMAIN events = 1 .. Len(events) /\ DOMAIN pending = 1 .. Len(pending)
         /\ Len(events) \in Nat /\ Len(pending) \in Nat
         /\ \A i \in DOMAIN pending : pending[i] \in Event
         /\ \A i \in DOMAIN (events \o pending) : (events \o pending)[i].command <= offset + 1
<1>1. /\ events \in Seq(Event) /\ pending \in Seq(Event)
      /\ offset \in Nat /\ position \in Nat /\ commands \in Seq(Command)
  BY DEF Inductive, Typed
<1>2. /\ events \o pending \in Seq(Event)
      /\ DOMAIN events = 1 .. Len(events) /\ DOMAIN pending = 1 .. Len(pending)
      /\ Len(events) \in Nat /\ Len(pending) \in Nat
      /\ \A i \in DOMAIN pending : pending[i] \in Event
  BY <1>1, ElementOfSeq, LenProperties
<1>3. \A i \in DOMAIN events : events[i].command <= offset + 1
  BY DEF Inductive, Ordered
<1>4. \A i \in DOMAIN pending : pending[i].command <= offset + 1
  <2> SUFFICES ASSUME NEW i \in DOMAIN pending PROVE pending[i].command <= offset + 1
    OBVIOUS
  <2>1. pending[i].command = 0 \/ pending[i].command = offset + 1
    BY DEF Inductive, Ordered, Placed
  <2> QED BY <1>1, <2>1
<1>5. ASSUME NEW i \in DOMAIN (events \o pending)
      PROVE  (events \o pending)[i].command <= offset + 1
  <2>1. i \in 1 .. Len(events) + Len(pending)
    BY <1>1, Joined, LenProperties
  <2>2. CASE i \in 1 .. Len(events)
    BY <1>1, <1>2, <1>3, <2>2, Joined
  <2>3. CASE i \notin 1 .. Len(events)
    <3>1. PICK j \in 1 .. Len(pending) : i = Len(events) + j
      BY <1>1, <2>1, <2>3, Joined
    <3>2. (events \o pending)[i] = pending[j]
      BY <1>1, <3>1, Joined
    <3> QED BY <1>2, <1>4, <3>2
  <2> QED BY <2>2, <2>3
<1> QED BY <1>1, <1>2, <1>5

(* A command of which there is nothing stands. *)
LEMMA StandsNone ==
  ASSUME NEW es \in Seq(Event), NEW k, NEW c, \A i \in DOMAIN es : es[i].command # k
  PROVE  Stands(es, k, c)
<1>1. DOMAIN es = 1 .. Len(es) /\ Len(es) \in Nat
  BY LenProperties
<1>2. \A n \in 0 .. Len(es) : \A i \in 1 .. n : i \in DOMAIN es
  BY <1>1
<1> QED BY <1>2 DEF Stands

(* Steps that leave log, commands and ledger alone. *)
LEMMA RestKept ==
  ASSUME Kept, events' = events, pending' = pending, commands' = commands, offset' = offset,
         ledger' = ledger, pc' = "publish" => pc = "publish" /\ position' = position,
         strayed' \in BOOLEAN, strayed => strayed', astray' => strayed'
  PROVE  Kept'
BY DEF Kept

LEMMA SendKept ==
  ASSUME Inductive, Kept, NEW c \in Command, Send(c)
  PROVE  Kept'
<1>1. /\ commands' = Append(commands, c)
      /\ UNCHANGED <<offset, dead, events, tables, memory, history, faults>>
  BY DEF Send
<1>2. /\ commands' \in Seq(Command) /\ Len(commands') = Len(commands) + 1
      /\ \A k \in 1 .. Len(commands) : commands'[k] = commands[k]
      /\ DOMAIN commands = 1 .. Len(commands) /\ DOMAIN commands' = 1 .. Len(commands) + 1
      /\ Len(commands) \in Nat
  BY <1>1, Logged, AppendProperties, LenProperties
<1>3. ASSUME ~strayed, NEW k \in DOMAIN commands', k = offset + 1
      PROVE  Stands(events \o pending, k, commands'[k])
  <2>1. CASE k \in DOMAIN commands
    BY <1>2, <1>3, <2>1 DEF Kept
  <2>2. CASE k \notin DOMAIN commands
    <3>1. offset + 1 = Len(commands) + 1
      BY <1>2, <1>3, <2>2
    <3>2. \A i \in DOMAIN events : events[i].command # k
      <4>1. \A i \in DOMAIN events : events[i].command <= Len(commands)
        BY DEF Kept
      <4> QED BY <1>2, <1>3, <3>1, <4>1
    <3>3. \A i \in DOMAIN pending : pending[i].command # k
      <4> SUFFICES ASSUME NEW i \in DOMAIN pending, pending[i].command = k PROVE FALSE
        OBVIOUS
      <4>1. k # 0
        BY <1>2, <1>3, <3>1
      <4>2. position = k
        BY <4>1 DEF Inductive, Ordered
      <4>3. position <= Len(commands)
        BY DEF Inductive, Placed
      <4> QED BY <1>2, <1>3, <3>1, <4>2, <4>3
    <3>4. \A i \in DOMAIN (events \o pending) : (events \o pending)[i].command # k
      <4> SUFFICES ASSUME NEW i \in DOMAIN (events \o pending)
                   PROVE  (events \o pending)[i].command # k
        OBVIOUS
      <4>1. i \in 1 .. Len(events) + Len(pending)
        BY Logged, Joined, LenProperties
      <4>2. CASE i \in 1 .. Len(events)
        BY <3>2, <4>2, Logged, Joined
      <4>3. CASE i \notin 1 .. Len(events)
        <5>1. PICK j \in 1 .. Len(pending) : i = Len(events) + j
          BY <4>1, <4>3, Logged, Joined
        <5>2. (events \o pending)[i] = pending[j]
          BY <5>1, Logged, Joined
        <5> QED BY <3>3, <5>2, Logged
      <4> QED BY <4>2, <4>3
    <3> QED BY <3>4, Logged, StandsNone
  <2> QED BY <2>1, <2>2
<1>4. \A i \in DOMAIN events : events[i].command <= Len(commands')
  <2>1. \A i \in DOMAIN events : events[i].command <= Len(commands)
    BY DEF Kept
  <2>2. \A i \in DOMAIN events : events[i].command \in Nat
    <3>1. \A i \in DOMAIN events : events[i] \in Event
      BY Logged, ElementOfSeq
    <3> QED BY <3>1 DEF Event
  <2> QED BY <1>2, <2>1, <2>2
<1> QED BY <1>1, <1>3, <1>4 DEF Kept, tables, memory, history


LEMMA CommitKept ==
  ASSUME Inductive, Kept, Commit
  PROVE  Kept'
<1>1. /\ offset' = offset + 1 /\ pc' = "poll"
      /\ UNCHANGED <<commands, dead, events, tables, position, world, pending, history, faults>>
  BY DEF Commit, Inductive, Placed
<1>2. ASSUME NEW k \in DOMAIN commands, k = offset' + 1
      PROVE  Stands(events \o pending, k, commands[k])
  <2> DEFINE log == events \o pending
  <2>1. \A i \in DOMAIN log : log[i].command <= offset + 1 /\ log[i].command \in Nat
    <3>1. \A i \in DOMAIN log : log[i] \in Event
      BY Logged, ElementOfSeq, LenProperties
    <3> QED BY <3>1, Logged DEF Event
  <2>2. log \in Seq(Event) /\ offset \in Nat
    BY Logged
  <2> HIDE DEF log
  <2>3. \A i \in DOMAIN log : log[i].command # k
    BY <1>1, <1>2, <2>1, <2>2
  <2>4. Stands(log, k, commands[k])
    BY <2>2, <2>3, StandsNone
  <2> QED BY <2>4 DEF log
<1> QED BY <1>1, <1>2 DEF Kept, tables, history

(* A command that comes to nothing has left nothing in the log; any other  *)
(* ends with its last event.                                               *)
LEMMA HandleCommandKept ==
  ASSUME Inductive, Kept, HandleCommand
  PROVE  Kept'
<1> DEFINE c == commands[position]
           bs == Handle(world, c)
           log == events \o pending
<1>1. /\ pc = "check" /\ pc' = "publish"
      /\ pending' = pending \o Batch(position, bs)
      /\ UNCHANGED <<broker, tables, position, history, faults>>
  BY DEF HandleCommand
<1>2. /\ position \in DOMAIN commands /\ position = offset + 1 /\ position \in Nat
      /\ c \in Command /\ world \in World
  <2>1. position \in 1 .. Len(commands) /\ position = offset + 1
    BY <1>1 DEF Inductive, Typed, Placed
  <2> QED BY <2>1, LenProperties DEF Inductive, Typed
<1>3. bs \in Seq(Body)
  BY <1>2, WorldAssumption
<1>4. ~astray => world = After(log)
  BY <1>1 DEF Inductive, Told, LogTellsWorld, After
<1>5. \A w \in World, i \in 1 .. Len(bs) :
        Handle(w, c) # << >> => Handle(Apply(w, bs[i]), c) # << >>
  <2> SUFFICES ASSUME NEW w \in World, NEW i \in 1 .. Len(bs), Handle(w, c) # << >>
               PROVE  Handle(Apply(w, bs[i]), c) # << >>
    OBVIOUS
  <2>1. bs[i] \in Range(Handle(world, c))
    BY <1>3, LenProperties DEF Range
  <2> QED BY <1>2, <2>1, StandingAssumption
<1> HIDE DEF c, bs
<1>6. log \in Seq(Event) /\ events' \o pending' = log \o Batch(position, bs)
  <2>1. Batch(position, bs) \in Seq(Event)
    BY <1>2, <1>3, BatchType
  <2> QED BY <1>1, <2>1, Logged, ConcatAssociative, SMTT(60) DEF broker
<1> HIDE DEF log
<1>7. ASSUME ~strayed
      PROVE  /\ Stands(log \o Batch(position, bs), position, c)
             /\ Whole(log \o Batch(position, bs), position)
  <2>1. Stands(log, position, c) /\ world = After(log)
    BY <1>2, <1>4, <1>7 DEF Kept, log, c
  <2>2. CASE bs = << >>
    <3>1. Batch(position, bs) = << >>
      <4>1. Batch(position, bs) \in Seq(Event) /\ DOMAIN Batch(position, bs) = {}
        BY <1>2, <1>3, <2>2, BatchType DEF Batch
      <4> HIDE DEF bs
      <4> QED BY <4>1
    <3>2. log \o Batch(position, bs) = log
      BY <1>6, <3>1, ConcatEmptySeq
    <3>3. ASSUME NEW i \in DOMAIN log
          PROVE  log[i].command # position
      <4>1. Len(log) \in 0 .. Len(log) /\ i \in 1 .. Len(log) /\ SubSeq(log, 1, Len(log)) = log
        BY <1>6, LenProperties, SubSeqFull
      <4>2. Handle(After(log), c) = << >>
        BY <2>1, <2>2 DEF bs
      <4> QED BY <2>1, <4>1, <4>2 DEF Stands
    <3> QED BY <2>1, <3>2, <3>3, WholeNone
  <2>3. CASE bs # << >>
    <3>1. Handle(After(log), c) # << >>
      BY <2>1, <2>3 DEF bs
    <3> QED BY <1>2, <1>3, <1>5, <1>6, <2>1, <2>3, <3>1, StandsAfter, WholeBatch
  <2> QED BY <2>2, <2>3
<1>8. /\ commands' = commands /\ offset' = offset /\ events' = events /\ ledger' = ledger
      /\ position' = position /\ astray' = astray /\ strayed' = strayed
  BY <1>1 DEF broker, tables, history
<1>9. ASSUME ~strayed, NEW k \in DOMAIN commands, k = offset + 1
      PROVE  Stands(log \o Batch(position, bs), k, commands[k])
  BY <1>2, <1>7, <1>9 DEF c
<1> QED BY <1>1, <1>6, <1>7, <1>8, <1>9 DEF Kept

(* A tick takes nothing from a command that stands. *)
LEMMA RunTickKept ==
  ASSUME Inductive, Kept, RunTick
  PROVE  Kept'
<1> DEFINE bs == TickBodies(world)
           log == events \o pending
           fs == Batch(0, bs)
<1>1. /\ pc' = pc /\ pending' = pending \o fs
      /\ UNCHANGED <<broker, tables, pc, position, history, faults>>
  BY DEF RunTick
<1>2. world \in World /\ bs \in Seq(Body)
  BY WorldAssumption DEF Inductive, Typed
<1>3. \A c \in Command, w \in World, i \in 1 .. Len(bs) :
        Handle(w, c) # << >> => Handle(Apply(w, bs[i]), c) # << >>
  <2> SUFFICES ASSUME NEW c \in Command, NEW w \in World, NEW i \in 1 .. Len(bs),
                      Handle(w, c) # << >>
               PROVE  Handle(Apply(w, bs[i]), c) # << >>
    OBVIOUS
  <2>1. bs[i] \in Range(TickBodies(world))
    BY <1>2, LenProperties DEF Range
  <2> QED BY <1>2, <2>1, StandingAssumption
<1> HIDE DEF bs
<1>4. fs \in Seq(Event) /\ \A i \in DOMAIN fs : fs[i].command = 0
  BY <1>2, BatchType
<1>5. log \in Seq(Event) /\ events' \o pending' = log \o fs
  <2> HIDE DEF fs
  <2>1. events' = events /\ pending' = pending \o fs /\ fs \in Seq(Event)
    BY <1>1, <1>4 DEF broker
  <2>2. events \in Seq(Event) /\ pending \in Seq(Event) /\ events \o pending \in Seq(Event)
    BY Logged
  <2>3. events \o (pending \o fs) = (events \o pending) \o fs
    BY <2>1, <2>2, ConcatAssociative
  <2> QED BY <2>1, <2>2, <2>3
<1>6. /\ commands' = commands /\ offset' = offset /\ events' = events /\ ledger' = ledger
      /\ position' = position /\ astray' = astray /\ strayed' = strayed
  BY <1>1 DEF broker, tables, history
<1> HIDE DEF log
<1>7. ASSUME ~strayed, NEW k \in DOMAIN commands, k = offset + 1
      PROVE  Stands(log \o fs, k, commands[k])
  <2>1. Stands(log, k, commands[k])
    BY <1>7 DEF Kept, log
  <2>2. k \in Nat /\ k # 0 /\ commands[k] \in Command
    BY <1>7, Logged, ElementOfSeq, LenProperties
  <2> QED BY <1>2, <1>3, <1>5, <2>1, <2>2, StandsAfter
<1>8. ASSUME ~strayed, pc = "publish"
      PROVE  Whole(log \o fs, position)
  <2>1. Whole(log, position)
    BY <1>8 DEF Kept, log
  <2>2. position # 0
    BY <1>8, Logged DEF Inductive, Placed
  <2> HIDE DEF fs
  <2>3. \A i \in DOMAIN fs : fs[i].command # position
    BY <1>4, <2>2
  <2> QED BY <1>4, <1>5, <2>1, <2>3, WholeBeside
<1> QED BY <1>1, <1>5, <1>6, <1>7, <1>8 DEF Kept

(* The ledger takes a command whose events are all published. *)
LEMMA MarkKept ==
  ASSUME Inductive, Kept, pc = "publish", OfConsumer = {}, pc' # "publish",
         ledger' \subseteq ledger \union {position},
         UNCHANGED <<broker, pending, history>>
  PROVE  Kept'
<1>1. \A i \in DOMAIN pending : pending[i].command = 0
  BY DEF OfConsumer
<1>2. position # 0
  BY Logged DEF Inductive, Placed
<1>3. ASSUME ~strayed
      PROVE  Whole(events, position)
  <2>1. Whole(events \o pending, position)
    BY <1>3 DEF Kept
  <2>2. \A i \in DOMAIN pending : pending[i].command # position
    BY <1>1, <1>2
  <2> QED BY <2>1, <2>2, Logged, WholeBeside
<1> QED BY <1>3 DEF Kept, broker, history

LEMMA CrashKept ==
  ASSUME Inductive, Kept, Crash
  PROVE  Kept'
<1>1. pending' = << >> /\ pc' = "down" /\ UNCHANGED <<broker, tables, position, history>>
  BY DEF Crash
<1>2. events' \o pending' = events
  BY <1>1, Logged, ConcatEmptySeq DEF broker
<1>3. ASSUME ~strayed, NEW k \in DOMAIN commands, k = offset + 1
      PROVE  Stands(events, k, commands[k])
  <2>1. Stands(events \o pending, k, commands[k])
    BY <1>3 DEF Kept
  <2> QED BY <2>1, Logged, StandsBefore
<1> QED BY <1>1, <1>2, <1>3 DEF Kept, broker, tables, history


(* An event that is appended is not of a command in the ledger. *)
LEMMA EmitsKept ==
  ASSUME Inductive, Kept, NEW i \in DOMAIN pending, events' = Append(events, pending[i])
  PROVE  /\ \A j \in DOMAIN events' : events'[j].command <= Len(commands)
         /\ ~strayed => \A k \in ledger : Whole(events', k)
<1> DEFINE e == pending[i]
<1>1. /\ e \in Event /\ <<e>> \in Seq(Event) /\ events' = events \o <<e>>
      /\ Len(<<e>>) = 1 /\ <<e>>[1] = e
  BY Logged, AppendIsConcat
<1>2. e.command # 0 => pc = "publish" /\ e.command = position
  BY DEF Inductive, Ordered
<1> HIDE DEF e
<1>3. /\ DOMAIN events' = 1 .. Len(events) + 1
      /\ \A j \in 1 .. Len(events) : events'[j] = events[j]
      /\ events'[Len(events) + 1] = e
      /\ \A j \in 1 .. Len(events) + 1 : j \in 1 .. Len(events) \/ j = Len(events) + 1
  BY <1>1, Logged, Joined, LenProperties
<1>4. e.command <= Len(commands)
  <2>1. position <= Len(commands) /\ 0 <= Len(commands)
    BY Logged, LenProperties DEF Inductive, Placed
  <2> QED BY <1>2, <2>1
<1>5. \A j \in DOMAIN events' : events'[j].command <= Len(commands)
  BY <1>3, <1>4, Logged DEF Kept
<1>6. ASSUME ~strayed, NEW k \in ledger
      PROVE  Whole(events', k)
  <2>1. k # 0 /\ (pc = "publish" => k # position)
    BY DEF Inductive, Typed, Covered
  <2>2. e.command # k
    BY <1>2, <2>1
  <2>3. \A j \in DOMAIN <<e>> : <<e>>[j].command # k
    <3>1. \A j \in DOMAIN <<e>> : j = 1
      BY <1>1, LenProperties
    <3> QED BY <1>1, <2>2, <3>1
  <2>4. Whole(events, k)
    BY <1>6 DEF Kept
  <2> QED BY <1>1, <2>3, <2>4, Logged, WholeBeside
<1> QED BY <1>5, <1>6

(* Published in its turn, an event only passes from one part to the other. *)
LEMMA InTurn ==
  ASSUME Inductive, 1 \in DOMAIN pending, NEW rest \in Seq(Event),
         <<pending[1]>> \o rest = pending
  PROVE  Append(events, pending[1]) \o rest = events \o pending
<1>1. <<pending[1]>> \in Seq(Event) /\ Append(events, pending[1]) = events \o <<pending[1]>>
  BY Logged, AppendIsConcat
<1>2. (events \o <<pending[1]>>) \o rest = events \o (<<pending[1]>> \o rest)
  BY <1>1, Logged, ConcatAssociative, SMTT(60)
<1> QED BY <1>1, <1>2

LEMMA PublishPendingKept ==
  ASSUME Inductive, Kept, NEW i \in DOMAIN pending, PublishPending(i)
  PROVE  Kept'
<1>1. /\ events' = Append(events, pending[i]) /\ pending' = RemoveAt(pending, i)
      /\ astray' = (astray \/ i > 1) /\ strayed' = (strayed \/ (astray \/ i > 1))
      /\ UNCHANGED <<commands, offset, dead, tables, pc, position, world, faults>>
  BY DEF PublishPending, Strays
<1>2. strayed' \in BOOLEAN /\ (astray' => strayed')
  BY <1>1, Zenon DEF Kept
<1>3. ASSUME ~strayed'
      PROVE  ~strayed /\ events' \o pending' = events \o pending
  <2>1. ~strayed /\ ~(i > 1)
    BY <1>1, <1>3, Zenon
  <2>2. i = 1
    BY <2>1, Logged
  <2>3. RemoveAt(pending, 1) \in Seq(Event) /\ <<pending[1]>> \o RemoveAt(pending, 1) = pending
    BY <2>2, Logged, Removed
  <2> QED BY <1>1, <2>1, <2>2, <2>3, InTurn
<1>4. /\ \A j \in DOMAIN events' : events'[j].command <= Len(commands)
      /\ ~strayed => \A k \in ledger : Whole(events', k)
  BY <1>1, EmitsKept
<1> QED BY <1>1, <1>2, <1>3, <1>4 DEF Kept, tables

LEMMA PublishFailsKept ==
  ASSUME Inductive, Kept, NEW appended \in BOOLEAN, PublishFails(appended)
  PROVE  Kept'
<1> DEFINE i == Min(OfConsumer)
           b == astray \/ ~appended \/ i > 1 \/ OfConsumer # {i}
<1>1. /\ OfConsumer # {} /\ pc' = "dead"
      /\ events' = IF appended THEN Append(events, pending[i]) ELSE events
      /\ pending' = TickPending /\ astray' = b /\ strayed' = (strayed \/ b)
      /\ UNCHANGED <<commands, offset, dead, tables, position, world>>
  BY DEF PublishFails, Strays
<1>2. strayed' \in BOOLEAN /\ (astray' => strayed')
  <2> HIDE DEF b
  <2> QED BY <1>1, Zenon DEF Kept
<1>3. i \in DOMAIN pending
  BY <1>1, FirstOfTask DEF OfConsumer
<1> HIDE DEF i
<1>4. ASSUME ~strayed'
      PROVE  ~strayed /\ events' \o pending' = events \o pending
  <2>1. ~strayed /\ appended /\ ~(i > 1) /\ OfConsumer = {i}
    BY <1>1, <1>4, Zenon
  <2>2. i = 1
    BY <1>3, <2>1, Logged
  <2>3. TickPending \in Seq(Event) /\ <<pending[1]>> \o TickPending = pending
    BY <1>1, <2>1, <2>2, Withdrawn
  <2> QED BY <1>1, <1>3, <2>1, <2>2, <2>3, InTurn
<1>5. /\ \A j \in DOMAIN events' : events'[j].command <= Len(commands)
      /\ ~strayed => \A k \in ledger : Whole(events', k)
  <2>1. CASE appended
    <3>1. events' = Append(events, pending[i])
      BY <1>1, <2>1
    <3> QED BY <1>3, <3>1, EmitsKept
  <2>2. CASE ~appended
    BY <1>1, <2>2 DEF Kept
  <2> QED BY <2>1, <2>2
<1> HIDE DEF b
<1> QED BY <1>1, <1>2, <1>4, <1>5 DEF Kept, tables

LEMMA NextKept ==
  ASSUME Inductive, Kept, [Next]_vars
  PROVE  Kept'
<1>1. CASE \E c \in Command : Send(c)
  BY <1>1, SendKept
<1>2. CASE Fetch \/ AlreadyProcessed \/ DeadLetter \/ CheckFails \/ UNCHANGED vars
  <2>1. strayed' = strayed /\ astray' = astray /\ strayed \in BOOLEAN /\ (astray => strayed)
    BY <1>2 DEF Fetch, AlreadyProcessed, DeadLetter, CheckFails, vars, history, Kept
  <2>2. /\ events' = events /\ pending' = pending /\ commands' = commands /\ offset' = offset
        /\ ledger' = ledger /\ (pc' = "publish" => pc = "publish" /\ position' = position)
    BY <1>2 DEF Fetch, AlreadyProcessed, DeadLetter, CheckFails, vars, broker, tables, memory
  <2> QED BY <2>1, <2>2, RestKept
<1>3. CASE HandleCommand
  BY <1>3, HandleCommandKept
<1>4. CASE PublishEvent
  <2>1. Min(OfConsumer) \in DOMAIN pending
    BY <1>4, FirstOfTask DEF PublishEvent, OfConsumer
  <2> QED BY <1>4, <2>1, PublishPendingKept DEF PublishEvent
<1>5. CASE PublishTickEvent
  <2>1. Min(OfTick) \in DOMAIN pending
    BY <1>5, FirstOfTask DEF PublishTickEvent, OfTick
  <2> QED BY <1>5, <2>1, PublishPendingKept DEF PublishTickEvent
<1>6. CASE MarkProcessed \/ \E b \in BOOLEAN : MarkFails(b)
  <2>1. /\ pc = "publish" /\ OfConsumer = {} /\ pc' # "publish"
        /\ ledger' \subseteq ledger \union {position}
        /\ UNCHANGED <<broker, pending, history>>
    BY <1>6 DEF MarkProcessed, MarkFails
  <2> QED BY <2>1, MarkKept
<1>7. CASE Commit
  BY <1>7, CommitKept
<1>8. CASE RunTick
  BY <1>8, RunTickKept
<1>9. CASE Crash
  BY <1>9, CrashKept
<1>10. CASE \E b \in BOOLEAN : PublishFails(b)
  BY <1>10, PublishFailsKept
<1>11. CASE Restart
  <2>1. /\ astray' = (projected' < Len(events)) /\ strayed' = (strayed \/ projected' < Len(events))
        /\ pc' = "poll" /\ UNCHANGED <<broker, ledger, pending, faults>>
    BY <1>11 DEF Restart, Strays
  <2>2. strayed' \in BOOLEAN /\ (strayed => strayed') /\ (astray' => strayed')
    BY <2>1, Zenon DEF Kept
  <2> QED BY <2>1, <2>2, RestKept DEF broker
<1> QED BY <1>1, <1>2, <1>3, <1>4, <1>5, <1>6, <1>7, <1>8, <1>9, <1>10, <1>11
    DEF Next, Consume, Fails

(* A command that has its ledger row has all the events of its last        *)
(* attempt in the log, whatever was killed before, unless the mission in   *)
(* memory has been astray (handle_command, publish_event for each event,   *)
(* mark_processed, and rehydrate after a kill).                            *)
THEOREM LedgeredCommandsAreWhole == Spec => []LedgeredIsWhole
<1>1. Inductive /\ Kept => LedgeredIsWhole
  <2> SUFFICES ASSUME Inductive, Kept, ~strayed, NEW k \in ledger, Emitted(k) # {}
               PROVE  events[Max(Emitted(k))].last
    BY DEF LedgeredIsWhole
  <2>1. Emitted(k) \in SUBSET (1 .. Len(events)) /\ Len(events) \in Nat
    BY Logged DEF Emitted
  <2>2. Max(Emitted(k)) \in Emitted(k) /\ \A p \in Emitted(k) : p <= Max(Emitted(k))
    BY <2>1, Extremes
  <2>3. Whole(events, k)
    BY DEF Kept
  <2> QED BY <2>2, <2>3 DEF Whole, Emitted
<1>2. Init => Kept
  BY InitKept
<1>3. Inductive /\ Inductive' /\ Kept /\ [Next]_vars => Kept'
  BY NextKept
<1> QED BY <1>1, <1>2, <1>3, SpecInductive, PTL DEF Spec
=============================================================================
