--------------------------- MODULE LiveFeedProofs ---------------------------
(***************************************************************************)
(* Proofs about LiveFeed for any missions, logs, visits and faults: the    *)
(* store never holds anything of a mission that is not the one on screen,  *)
(* and a console whose snapshot covers what was broadcast before it is as  *)
(* far as the server once it has received all that was sent to it.         *)
(***************************************************************************)
EXTENDS LiveFeed, TLAPS

F == INSTANCE FoldTheorems WITH Step <- Reduce

Progress(m) == 0 .. Len(Log[m])

SnapshotFrame(n, k) == [type |-> "snapshot", rows |-> n, recent |-> k]

FrameOf(m) ==
  {EventFrame(e) : e \in EventsOf(m)} \union {SnapshotFrame(n, k) : n, k \in Progress(m)}
-----------------------------------------------------------------------------
(* 1. The invariant *)

Typed ==
  /\ projected \in [Missions -> Nat] /\ \A m \in Missions : projected[m] \in Progress(m)
  /\ broadcast \in [Missions -> Nat] /\ \A m \in Missions : broadcast[m] \in Progress(m)
  /\ visits \in 0 .. MaxVisits /\ current \in 0 .. visits
  /\ load \in [Visits -> {"idle", "getting", "backoff", "ended"}]
  /\ link \in [Visits -> {"none", "connecting", "open", "retry", "closing", "closed"}]
  /\ peer \in [Visits -> {"none", "joined", "read", "live"}]
  /\ rows \in [Visits -> Nat] /\ covered \in [Visits -> BOOLEAN]
  /\ wire = [v \in Visits |-> wire[v]]
  /\ \A v \in Visits : /\ rows[v] \in Progress(mission[v])
                       /\ wire[v] \in Seq(FrameOf(mission[v]))

(* Only the visit whose page is mounted has a socket, and only once its    *)
(* loader is done; the server's end goes with it.                          *)
Placed ==
  \A v \in Visits :
    /\ v > visits => load[v] = "idle"
    /\ load[v] # "ended" => link[v] = "none"
    /\ link[v] \in {"connecting", "open", "retry"} => v = current
    /\ peer[v] # "none" => link[v] = "open"
    /\ peer[v] = "none" => wire[v] = << >>
    /\ covered[v] => peer[v] = "live"

(* What is in the store is of the mission of the page. *)
Kept ==
  IF current = 0 THEN store = Empty
  ELSE LET m == mission[current]
       IN  /\ store.state # NoState => store.state \in State(m)
           /\ store.events \in Seq(EventsOf(m))

(* The events broadcast before those behind the i-th frame on the wire;    *)
(* and that the frames behind it are the events after them.                *)
Sent(v, i) == broadcast[mission[v]] - (Len(wire[v]) - i)

Coming(v, i) ==
  /\ Sent(v, i) \in Nat
  /\ \A j \in i + 1 .. Len(wire[v]) :
       /\ Sent(v, j) \in DOMAIN Log[mission[v]]
       /\ wire[v][j] = EventFrame(Log[mission[v]][Sent(v, j)])

(* The snapshot is on the wire, with all that it does not cover behind it. *)
Awaiting(v, i) ==
  /\ i \in DOMAIN wire[v] /\ wire[v][i] = SnapshotFrame(rows[v], rows[v])
  /\ Sent(v, i) <= rows[v] /\ rows[v] <= Sent(v, i) + MaxRecent
  /\ Coming(v, i)

(* The snapshot was received: the store is at the further of what was sent *)
(* and what the snapshot held, and its log stops the events in between.    *)
Further(a, b) == IF a > b THEN a ELSE b

Reached(v) ==
  LET log == Log[mission[v]]
      head == Further(Sent(v, 0), rows[v])
  IN  /\ Coming(v, 0)
      /\ store.state = After(mission[v], head)
      /\ \A i \in DOMAIN store.events : \E k \in 1 .. head : store.events[i] = log[k]
      /\ \A k \in Sent(v, 0) + 1 .. rows[v] : \E i \in DOMAIN store.events :
           store.events[i] = log[k]

InStep == \A v \in Visits : covered[v] => Reached(v) \/ \E i \in DOMAIN wire[v] : Awaiting(v, i)

Inductive == Typed /\ Placed /\ Kept /\ InStep
-----------------------------------------------------------------------------
(* 2. What the store does with events and snapshots *)

(* A fold of the store is one of FoldTheorems. *)
LEMMA FoldsAgree ==
  ASSUME NEW s, NEW es
  PROVE  Fold(s, es) = F!Fold(s, es)
BY Zenon DEF Fold, F!Fold

(* The event after the first n takes the mission one step further. *)
LEMMA AfterNext ==
  ASSUME NEW m \in Missions, NEW n \in 0 .. Len(Log[m]), n < Len(Log[m])
  PROVE  After(m, n + 1) = Reduce(After(m, n), Log[m][n + 1])
<1> DEFINE log == Log[m]
           T == EventsOf(m)
<1>1. log \in Seq(T) /\ n \in Nat /\ n + 1 \in 1 .. Len(log)
  BY LogAssumption
<1> HIDE DEF log, T
<1>2. SubSeq(log, 1, n) \in Seq(T) /\ log[n + 1] \in T
  BY <1>1
<1>3. SubSeq(log, 1, n + 1) = Append(SubSeq(log, 1, n), log[n + 1])
  BY <1>1
<1>4. F!Fold(FirstMission(m), Append(SubSeq(log, 1, n), log[n + 1]))
        = Reduce(F!Fold(FirstMission(m), SubSeq(log, 1, n)), log[n + 1])
  BY <1>2, F!FoldAppend
<1> QED BY <1>3, <1>4, FoldsAgree DEF After, log

LEMMA AfterNone ==
  ASSUME NEW m \in Missions
  PROVE  After(m, 0) = FirstMission(m)
<1>1. SubSeq(Log[m], 1, 0) = << >>
  BY LogAssumption
<1>2. F!Fold(FirstMission(m), << >>) = FirstMission(m)
  BY F!FoldEmpty
<1> QED BY <1>1, <1>2, FoldsAgree DEF After

(* No event takes a mission out of its states. *)
LEMMA AfterIsState ==
  ASSUME NEW m \in Missions, NEW n \in Progress(m)
  PROVE  After(m, n) \in State(m)
<1> DEFINE P == {i \in Progress(m) : After(m, i) \in State(m)}
<1>1. Log[m] \in Seq(EventsOf(m)) /\ Len(Log[m]) \in Nat /\ n \in Nat
  BY LogAssumption DEF Progress
<1>2. 0 \in P
  BY <1>1, AfterNone, StateAssumption DEF Progress
<1>3. ASSUME NEW i \in 1 .. n, i - 1 \in P
      PROVE  i \in P
  <2>1. /\ i - 1 \in 0 .. Len(Log[m]) /\ i - 1 < Len(Log[m]) /\ (i - 1) + 1 = i
        /\ i \in DOMAIN Log[m] /\ i \in Progress(m)
    BY <1>1 DEF Progress
  <2>2. After(m, i) = Reduce(After(m, i - 1), Log[m][i])
    BY <2>1, AfterNext
  <2>3. After(m, i - 1) \in State(m) /\ Log[m][i] \in EventsOf(m)
    BY <1>1, <1>3, <2>1
  <2> QED BY <2>1, <2>2, <2>3, StateAssumption
<1> HIDE DEF P
<1>4. \A i \in 0 .. n : i \in P
  BY <1>1, <1>2, <1>3, F!InductionUpTo
<1>5. n \in P
  BY <1>1, <1>4
<1> QED BY <1>5 DEF P

(* The events a snapshot brings: of the first n, the latest. *)
LEMMA RecentEvents ==
  ASSUME NEW m \in Missions, NEW n \in Progress(m)
  PROVE  /\ Recent(m, n) \in Seq(EventsOf(m))
         /\ \A i \in DOMAIN Recent(m, n) : \E k \in 1 .. n : Recent(m, n)[i] = Log[m][k]
         /\ \A k \in 1 .. n : n < k + MaxRecent =>
              \E i \in DOMAIN Recent(m, n) : Recent(m, n)[i] = Log[m][k]
<1> DEFINE size == IF n < MaxRecent THEN n ELSE MaxRecent
           log == Log[m]
<1>1. /\ log \in Seq(EventsOf(m)) /\ n \in Nat /\ n <= Len(log) /\ MaxRecent \in Nat
      /\ size \in Nat /\ size <= n
  BY LogAssumption, LimitsAssumption DEF Progress
<1>2. /\ Recent(m, n) = [i \in 1 .. size |-> log[n + 1 - i]]
      /\ DOMAIN Recent(m, n) = 1 .. size
  BY Zenon DEF Recent
<1>3. \A i \in 1 .. size : n + 1 - i \in 1 .. n /\ log[n + 1 - i] \in EventsOf(m)
  BY <1>1
<1>4. ASSUME NEW k \in 1 .. n, n < k + MaxRecent
      PROVE  n + 1 - k \in 1 .. size /\ n + 1 - (n + 1 - k) = k
  BY <1>1, <1>4
<1> HIDE DEF size, log
<1>5. Recent(m, n) \in Seq(EventsOf(m))
  BY <1>1, <1>2, <1>3
<1>6. \A i \in DOMAIN Recent(m, n) : \E k \in 1 .. n : Recent(m, n)[i] = log[k]
  BY <1>2, <1>3
<1>7. \A k \in 1 .. n : n < k + MaxRecent => \E i \in DOMAIN Recent(m, n) : Recent(m, n)[i] = log[k]
  BY <1>2, <1>4
<1> QED BY <1>5, <1>6, <1>7 DEF log

(* The log shown after an event: it and what was there, cut at the end. *)
LEMMA NewestEvents ==
  ASSUME NEW T, NEW e \in T, NEW es \in Seq(T)
  PROVE  /\ Newest(<<e>> \o es) \in Seq(T)
         /\ \A i \in DOMAIN Newest(<<e>> \o es) :
              \/ Newest(<<e>> \o es)[i] = e
              \/ \E j \in DOMAIN es : Newest(<<e>> \o es)[i] = es[j]
<1> DEFINE all == <<e>> \o es
           n == IF Len(all) > MaxEvents THEN MaxEvents ELSE Len(all)
<1>1. /\ all \in Seq(T) /\ Len(all) = Len(es) + 1 /\ all[1] = e
      /\ \A i \in 2 .. Len(all) : i - 1 \in DOMAIN es /\ all[i] = es[i - 1]
  OBVIOUS
<1>2. n \in Nat /\ n <= Len(all) /\ Len(all) \in Nat
  BY <1>1, MaxEventsAssumption
<1>3. Newest(all) = SubSeq(all, 1, n)
  BY Zenon DEF Newest
<1> HIDE DEF all, n
<1>4. /\ Newest(all) \in Seq(T) /\ DOMAIN Newest(all) = 1 .. n
      /\ \A i \in 1 .. n : Newest(all)[i] = all[i]
  BY <1>1, <1>2, <1>3
<1>5. \A i \in 1 .. n : i = 1 \/ i \in 2 .. Len(all)
  BY <1>2
<1>6. ASSUME NEW i \in DOMAIN Newest(all)
      PROVE  Newest(all)[i] = e \/ \E j \in DOMAIN es : Newest(all)[i] = es[j]
  BY <1>1, <1>4, <1>5
<1> QED BY <1>4, <1>6 DEF all
-----------------------------------------------------------------------------
(* 3. What an action must leave alone to keep each part *)

LEMMA StillKept ==
  ASSUME Kept, UNCHANGED <<store, current>>
  PROVE  Kept'
BY DEF Kept

LEMMA StillInStep ==
  ASSUME InStep, store' = store,
         \A v \in Visits : covered'[v] =>
           /\ covered[v] /\ wire'[v] = wire[v] /\ rows'[v] = rows[v]
           /\ broadcast'[mission[v]] = broadcast[mission[v]]
  PROVE  InStep'
<1> SUFFICES ASSUME NEW v \in Visits, covered'[v]
             PROVE  Reached(v)' \/ \E i \in DOMAIN wire'[v] : Awaiting(v, i)'
  BY DEF InStep
<1>1. /\ covered[v] /\ wire'[v] = wire[v] /\ rows'[v] = rows[v]
      /\ broadcast'[mission[v]] = broadcast[mission[v]]
  OBVIOUS
<1>2. \A i : Sent(v, i)' = Sent(v, i)
  BY <1>1 DEF Sent
<1>3. \A i : Coming(v, i)' = Coming(v, i)
  BY <1>1, <1>2 DEF Coming
<1>4. CASE Reached(v)
  BY <1>1, <1>2, <1>3, <1>4 DEF Reached
<1>5. ASSUME NEW i \in DOMAIN wire[v], Awaiting(v, i)
      PROVE  Awaiting(v, i)'
  BY <1>1, <1>2, <1>3, <1>5 DEF Awaiting
<1> QED BY <1>1, <1>4, <1>5 DEF InStep

(* A socket whose snapshot covers is the one of the mounted page. *)
LEMMA CoveredIsCurrent ==
  ASSUME Typed, Placed, NEW v \in Visits, covered[v]
  PROVE  v = current /\ peer[v] = "live" /\ link[v] = "open" /\ load[v] = "ended"
BY DEF Typed, Placed

LEMMA EmptySeq == \A S : << >> \in Seq(S)
OBVIOUS

LEMMA TailSeq ==
  ASSUME NEW S, NEW s \in Seq(S), s # << >>
  PROVE  Tail(s) \in Seq(S)
OBVIOUS

LEMMA Facts ==
  /\ Visits = 1 .. MaxVisits /\ MaxVisits \in Nat
  /\ \A v \in Visits : mission[v] \in Missions
  /\ \A m \in Missions : /\ Log[m] \in Seq(EventsOf(m)) /\ Len(Log[m]) \in Nat
                          /\ DOMAIN Log[m] = 1 .. Len(Log[m]) /\ 0 \in Progress(m)
BY MissionAssumption, LimitsAssumption, LogAssumption DEF Visits, Progress
-----------------------------------------------------------------------------
(* 4. The initial states, and the server *)

LEMMA InitInductive == Init => Inductive
<1> SUFFICES ASSUME Init PROVE Inductive
  OBVIOUS
<1>1. Typed
  BY Facts DEF Init, Typed
<1>2. Placed
  BY Facts DEF Init, Placed
<1>3. Kept
  BY DEF Init, Kept
<1>4. InStep
  BY DEF Init, InStep
<1> QED BY <1>1, <1>2, <1>3, <1>4 DEF Inductive

LEMMA ProjectInductive ==
  ASSUME Inductive, NEW m \in Missions, Project(m)
  PROVE  Inductive'
<1> USE DEF Inductive
<1>1. Typed'
  BY Facts DEF Typed, Project, page, loader, socket, Progress
<1>2. Placed'
  BY DEF Placed, Project, page, loader, socket
<1>3. Kept'
  BY StillKept DEF Project, page
<1>4. InStep'
  BY StillInStep DEF Project, socket
<1> QED BY <1>1, <1>2, <1>3, <1>4

(* The sockets of other missions see nothing of it; for those of this one  *)
(* the event goes behind what is on the wire.                              *)
LEMMA BroadcastInductive ==
  ASSUME Inductive, NEW m \in Missions, Broadcast(m)
  PROVE  Inductive'
<1> USE DEF Inductive
<1> DEFINE n == broadcast[m] + 1
           frame == EventFrame(Log[m][n])
<1>1. /\ n \in Progress(m) /\ n \in DOMAIN Log[m] /\ broadcast[m] \in Nat
      /\ broadcast' = [broadcast EXCEPT ![m] = n] /\ broadcast'[m] = n
      /\ frame \in FrameOf(m)
  BY Facts DEF Typed, Broadcast, Progress, FrameOf, EventsOf
<1>2. \A v \in Visits : wire'[v] = IF v \in Room(m) THEN Append(wire[v], frame) ELSE wire[v]
  BY <1>1 DEF Broadcast
<1> HIDE DEF n, frame
<1>3. Typed'
  <2>1. \A v \in Visits : wire'[v] \in Seq(FrameOf(mission[v]))
    <3> SUFFICES ASSUME NEW v \in Visits PROVE wire'[v] \in Seq(FrameOf(mission[v]))
      OBVIOUS
    <3>1. wire[v] \in Seq(FrameOf(mission[v]))
      BY DEF Typed
    <3>2. CASE v \in Room(m)
      <4>1. mission[v] = m /\ wire'[v] = Append(wire[v], frame)
        BY <1>2, <3>2 DEF Room
      <4> QED BY <1>1, <3>1, <4>1
    <3>3. CASE v \notin Room(m)
      BY <1>2, <3>1, <3>3
    <3> QED BY <3>2, <3>3
  <2>2. wire' = [v \in Visits |-> wire'[v]]
    BY DEF Broadcast
  <2>3. /\ broadcast' \in [Missions -> Nat]
        /\ \A k \in Missions : broadcast'[k] \in Progress(k)
    BY <1>1 DEF Typed, Progress
  <2> QED BY <2>1, <2>2, <2>3 DEF Typed, Broadcast, page, loader
<1>4. Placed'
  BY <1>2 DEF Placed, Broadcast, page, loader, Room
<1>5. Kept'
  BY StillKept DEF Broadcast, page
<1>6. ASSUME NEW v \in Visits, covered'[v]
      PROVE  Reached(v)' \/ \E i \in DOMAIN wire'[v] : Awaiting(v, i)'
  <2>1. /\ covered[v] /\ peer[v] = "live" /\ store' = store /\ rows' = rows
        /\ wire[v] \in Seq(FrameOf(mission[v])) /\ Len(wire[v]) \in Nat
        /\ mission[v] \in Missions
    BY <1>6, Facts, CoveredIsCurrent, SMTT(60) DEF Broadcast, Typed
  <2>2. CASE mission[v] # m
    <3>1. broadcast'[mission[v]] = broadcast[mission[v]] /\ wire'[v] = wire[v]
      BY <1>1, <1>2, <2>1, <2>2 DEF Typed, Room
    <3>2. \A i : Sent(v, i)' = Sent(v, i)
      BY <3>1 DEF Sent
    <3>3. \A i : Coming(v, i)' = Coming(v, i)
      BY <3>1, <3>2 DEF Coming
    <3>4. CASE Reached(v)
      BY <2>1, <3>1, <3>2, <3>3, <3>4 DEF Reached
    <3>5. ASSUME NEW i \in DOMAIN wire[v], Awaiting(v, i)
          PROVE  Awaiting(v, i)'
      BY <2>1, <3>1, <3>2, <3>3, <3>5 DEF Awaiting
    <3> QED BY <2>1, <3>1, <3>4, <3>5 DEF InStep
  <2>3. CASE mission[v] = m
    <3>1. wire'[v] = Append(wire[v], frame)
      BY <1>2, <2>1, <2>3 DEF Room
    <3>2. /\ Len(wire'[v]) = Len(wire[v]) + 1 /\ wire'[v][Len(wire[v]) + 1] = frame
          /\ \A j \in 1 .. Len(wire[v]) : wire'[v][j] = wire[v][j]
          /\ DOMAIN wire[v] = 1 .. Len(wire[v])
          /\ DOMAIN wire'[v] = 1 .. (Len(wire[v]) + 1)
      BY <2>1, <3>1
    <3>3. ASSUME NEW i \in Nat
          PROVE  Sent(v, i)' = Sent(v, i)
      <4>1. broadcast'[mission[v]] = broadcast[mission[v]] + 1 /\ broadcast[mission[v]] \in Nat
        BY <1>1, <2>3 DEF n
      <4>2. \A b, l \in Nat : (b + 1) - ((l + 1) - i) = b - (l - i)
        OBVIOUS
      <4> QED BY <2>1, <3>2, <4>1, <4>2, ZenonT(60) DEF Sent
    <3>4. ASSUME NEW j, j = Len(wire[v]) + 1
          PROVE  Sent(v, j)' = n
      <4>1. broadcast'[mission[v]] = n /\ n \in Nat
        BY <1>1, <2>3 DEF n
      <4>2. \A b, l \in Nat : b - ((l + 1) - (l + 1)) = b
        OBVIOUS
      <4> QED BY <2>1, <3>2, <3>4, <4>1, <4>2 DEF Sent
    <3>5. ASSUME NEW i \in 0 .. Len(wire[v]), Coming(v, i)
          PROVE  Coming(v, i)'
      <4>1. \A j \in i + 1 .. Len(wire'[v]) :
              j \in Nat /\ (j \in i + 1 .. Len(wire[v]) \/ j = Len(wire[v]) + 1)
        BY <2>1, <3>2
      <4>2. \A j \in i + 1 .. Len(wire[v]) : j \in 1 .. Len(wire[v])
        BY <2>1
      <4> QED BY <1>1, <2>3, <3>2, <3>3, <3>4, <3>5, <4>1, <4>2 DEF Coming, frame
    <3>6. CASE Reached(v)
      <4>1. 0 \in 0 .. Len(wire[v]) /\ Coming(v, 0)
        BY <2>1, <3>6 DEF Reached
      <4> QED BY <2>1, <3>3, <3>5, <3>6, <4>1 DEF Reached
    <3>7. ASSUME NEW i \in DOMAIN wire[v], Awaiting(v, i)
          PROVE  Awaiting(v, i)' /\ i \in DOMAIN wire'[v]
      <4>1. i \in 0 .. Len(wire[v]) /\ i \in Nat /\ i \in DOMAIN wire'[v]
        BY <2>1, <3>2
      <4> QED BY <2>1, <3>2, <3>3, <3>5, <3>7, <4>1 DEF Awaiting
    <3> QED BY <2>1, <3>6, <3>7 DEF InStep
  <2> QED BY <2>2, <2>3
<1>7. InStep'
  BY <1>6 DEF InStep
<1> QED BY <1>3, <1>4, <1>5, <1>7

LEMMA AcceptInductive ==
  ASSUME Inductive, NEW v \in Visits, Accept(v)
  PROVE  Inductive'
<1> USE DEF Inductive
<1>1. Typed'
  BY DEF Typed, Accept, server, page, loader
<1>2. Placed'
  BY DEF Typed, Placed, Accept, page, loader
<1>3. Kept'
  BY StillKept DEF Accept, page
<1>4. InStep'
  BY StillInStep DEF Accept, server
<1> QED BY <1>1, <1>2, <1>3, <1>4

(* The rows of a socket that is not live yet. *)
LEMMA ReadRowsInductive ==
  ASSUME Inductive, NEW v \in Visits, ReadRows(v)
  PROVE  Inductive'
<1> USE DEF Inductive
<1>1. mission[v] \in Missions /\ projected[mission[v]] \in Progress(mission[v])
  BY Facts DEF Typed
<1>2. Typed'
  BY <1>1 DEF Typed, ReadRows, server, page, loader
<1>3. Placed'
  BY DEF Typed, Placed, ReadRows, page, loader
<1>4. Kept'
  BY StillKept DEF ReadRows, page
<1>5. ASSUME NEW w \in Visits, covered'[w]
      PROVE  covered[w] /\ wire'[w] = wire[w] /\ rows'[w] = rows[w]
  BY <1>5 DEF Typed, Placed, ReadRows
<1>6. InStep'
  BY <1>5, StillInStep DEF ReadRows, server
<1> QED BY <1>2, <1>3, <1>4, <1>6

(* If the snapshot covers, it is now the last frame of the wire, with      *)
(* nothing behind it.                                                      *)
LEMMA SendSnapshotInductive ==
  ASSUME Inductive, NEW v \in Visits, SendSnapshot(v)
  PROVE  Inductive'
<1> USE DEF Inductive
<1> DEFINE m == mission[v]
           frame == SnapshotFrame(rows[v], projected[m])
<1>1. /\ m \in Missions /\ projected[m] \in Progress(m) /\ rows[v] \in Progress(m)
      /\ wire[v] \in Seq(FrameOf(m)) /\ broadcast[m] \in Nat /\ rows[v] \in Nat
      /\ peer[v] = "read"
  BY Facts DEF Typed, SendSnapshot
<1>2. frame \in FrameOf(m)
  BY <1>1 DEF FrameOf
<1>3. /\ wire' = [wire EXCEPT ![v] = Append(wire[v], frame)]
      /\ covered' = [covered EXCEPT ![v] = Covers(rows[v], projected[m], broadcast[m])]
  BY DEF SendSnapshot, SnapshotFrame
<1> HIDE DEF frame
<1>4. Typed'
  <2>1. wire' = [w \in Visits |-> wire'[w]]
    BY <1>3 DEF Typed
  <2>2. ASSUME NEW w \in Visits
        PROVE  wire'[w] \in Seq(FrameOf(mission[w]))
    <3>1. CASE w = v
      <4>1. wire'[w] = Append(wire[v], frame)
        BY <1>3, <3>1 DEF Typed
      <4> QED BY <1>1, <1>2, <3>1, <4>1
    <3>2. CASE w # v
      BY <1>3, <3>2 DEF Typed
    <3> QED BY <3>1, <3>2
  <2>3. covered' \in [Visits -> BOOLEAN]
    BY <1>3 DEF Typed, Covers
  <2> QED BY <2>1, <2>2, <2>3 DEF Typed, SendSnapshot, server, page, loader
<1>5. Placed'
  BY <1>3 DEF Typed, Placed, SendSnapshot, page, loader
<1>6. Kept'
  BY StillKept DEF SendSnapshot, page
<1>7. InStep'
  <2>1. CASE covered'[v]
    <3>1. projected[m] = rows[v] /\ broadcast[m] <= rows[v] /\ rows[v] <= broadcast[m] + MaxRecent
      BY <1>3, <2>1 DEF Typed, Covers
    <3> DEFINE wires == Append(wire[v], frame)
    <3>2. /\ wire'[v] = wires /\ Len(wires) \in DOMAIN wires /\ Len(wires) \in Nat
          /\ wires[Len(wires)] = frame
      BY <1>1, <1>2, <1>3 DEF Typed
    <3> HIDE DEF wires
    <3>3. PICK i : i = Len(wires)
      OBVIOUS
    <3>4. Sent(v, i)' = broadcast[m]
      BY <1>1, <3>2, <3>3 DEF Sent, SendSnapshot, server
    <3>5. Coming(v, i)'
      BY <1>1, <3>2, <3>3, <3>4 DEF Coming
    <3>6. Awaiting(v, i)' /\ i \in DOMAIN wire'[v]
      BY <3>1, <3>2, <3>3, <3>4, <3>5 DEF Awaiting, SendSnapshot, frame
    <3>7. \A w \in Visits : covered'[w] => w = v
      <4>1. v = current
        BY <1>1 DEF Typed, Placed
      <4>2. \A w \in Visits : w # v => covered'[w] = covered[w]
        BY <1>3 DEF Typed
      <4> QED BY <4>1, <4>2, CoveredIsCurrent
    <3> QED BY <3>6, <3>7 DEF InStep
  <2>2. CASE ~covered'[v]
    <3>1. ASSUME NEW w \in Visits, covered'[w]
          PROVE  covered[w] /\ wire'[w] = wire[w]
      BY <1>3, <2>2, <3>1 DEF Typed
    <3> QED BY <3>1, StillInStep DEF SendSnapshot, server
  <2> QED BY <2>1, <2>2
<1> QED BY <1>4, <1>5, <1>6, <1>7
-----------------------------------------------------------------------------
(* 5. The sockets *)

LEMMA DisconnectInductive ==
  ASSUME Inductive, NEW vs, Disconnect(vs), vs \subseteq Linked,
         UNCHANGED <<projected, store, page, loader>>, Typed',
         UNCHANGED broadcast \/ vs = Linked
  PROVE  Inductive'
<1> USE DEF Inductive
<1>1. Placed'
  BY DEF Typed, Placed, Disconnect, Linked, page, loader
<1>2. Kept'
  BY StillKept DEF page
<1>3. ASSUME NEW v \in Visits, covered'[v]
      PROVE  /\ covered[v] /\ wire'[v] = wire[v] /\ rows'[v] = rows[v]
             /\ broadcast'[mission[v]] = broadcast[mission[v]]
  <2>1. covered[v] /\ v \notin vs /\ wire'[v] = wire[v] /\ rows'[v] = rows[v]
    BY <1>3 DEF Disconnect
  <2>2. v \in Linked
    BY <2>1, CoveredIsCurrent DEF Linked
  <2> QED BY <2>1, <2>2
<1>4. InStep'
  BY <1>3, StillInStep
<1> QED BY <1>1, <1>2, <1>4

LEMMA DisconnectTyped ==
  ASSUME Typed, NEW vs, Disconnect(vs),
         UNCHANGED <<projected, store, page, loader>>,
         broadcast' \in [Missions -> Nat], \A m \in Missions : broadcast'[m] \in Progress(m)
  PROVE  Typed'
<1>1. \A v \in Visits : rows'[v] \in Progress(mission[v]) /\ rows'[v] \in Nat
  BY Facts DEF Typed, Disconnect
<1>2. ASSUME NEW v \in Visits
      PROVE  wire'[v] \in Seq(FrameOf(mission[v]))
  <2>1. wire'[v] = << >> \/ wire'[v] = wire[v]
    BY DEF Disconnect
  <2> QED BY <2>1, EmptySeq DEF Typed
<1> QED BY <1>1, <1>2 DEF Typed, Disconnect, page, loader

LEMMA DropInductive ==
  ASSUME Inductive, NEW v \in Visits, Drop(v) \/ ReadFails(v)
  PROVE  Inductive'
<1>1. Disconnect({v}) /\ UNCHANGED <<server, store, page, loader>>
  BY DEF Drop, ReadFails
<1>2. v \in Linked
  BY DEF Drop, ReadFails, Inductive, Typed, Placed, Linked
<1>3. Typed'
  BY <1>1, DisconnectTyped DEF Inductive, Typed, server
<1> QED BY <1>1, <1>2, <1>3, DisconnectInductive DEF server

LEMMA RestartInductive ==
  ASSUME Inductive, Restart
  PROVE  Inductive'
<1> USE DEF Inductive
<1>1. PICK m \in Missions : \E latest \in broadcast[m] .. Len(Log[m]) :
                             broadcast' = [broadcast EXCEPT ![m] = latest]
  BY DEF Restart
<1>2. broadcast' \in [Missions -> Nat] /\ \A k \in Missions : broadcast'[k] \in Progress(k)
  BY <1>1, Facts DEF Typed, Progress
<1>3. CASE Linked = {}
  <2>1. UNCHANGED <<projected, store, page, loader, socket>>
    BY <1>3 DEF Restart
  <2>2. \A v \in Visits : ~covered'[v]
    BY <1>3, <2>1, CoveredIsCurrent DEF Linked, socket
  <2>3. Typed'
    BY <1>2, <2>1 DEF Typed, page, loader, socket
  <2>4. Placed'
    BY <2>1 DEF Placed, page, loader, socket
  <2>5. Kept'
    BY <2>1, StillKept DEF page
  <2> QED BY <2>2, <2>3, <2>4, <2>5 DEF InStep
<1>4. CASE Linked # {}
  <2>1. Disconnect(Linked) /\ UNCHANGED <<projected, store, page, loader>>
    BY <1>4 DEF Restart
  <2>2. Typed'
    BY <1>2, <2>1, DisconnectTyped
  <2> QED BY <2>1, <2>2, DisconnectInductive
<1> QED BY <1>3, <1>4

LEMMA ReconnectInductive ==
  ASSUME Inductive, NEW v \in Visits, Reconnect(v)
  PROVE  Inductive'
<1> USE DEF Inductive
<1>1. Typed'
  BY DEF Typed, Reconnect, server, page, loader
<1>2. Placed'
  BY DEF Typed, Placed, Reconnect, page, loader
<1>3. Kept'
  BY StillKept DEF Reconnect, page
<1>4. InStep'
  BY StillInStep DEF Reconnect, server
<1> QED BY <1>1, <1>2, <1>3, <1>4

LEMMA ClosedInductive ==
  ASSUME Inductive, NEW v \in Visits, Closed(v)
  PROVE  Inductive'
<1> USE DEF Inductive
<1>1. Typed'
  BY DEF Typed, Closed, server, page, loader
<1>2. Placed'
  BY DEF Typed, Placed, Closed, page, loader
<1>3. Kept'
  BY StillKept DEF Closed, page
<1>4. InStep'
  BY StillInStep DEF Closed, server
<1> QED BY <1>1, <1>2, <1>3, <1>4
-----------------------------------------------------------------------------
(* 6. The page and its loader *)

LEMMA VisitInductive ==
  ASSUME Inductive, Visit
  PROVE  Inductive'
<1> USE DEF Inductive
<1>1. visits + 1 \in Visits /\ visits \in Nat
  BY Facts DEF Typed, Visit
<1>2. Typed'
  BY <1>1, Facts DEF Typed, Visit, server, socket
<1>3. Placed'
  <2> SUFFICES ASSUME NEW v \in Visits
               PROVE  /\ v > visits' => load'[v] = "idle"
                      /\ load'[v] # "ended" => link[v] = "none"
                      /\ link[v] \notin {"connecting", "open", "retry"}
    BY DEF Placed, Visit, socket
  <2>1. v \in Nat /\ v # 0 /\ link[v] \notin {"connecting", "open", "retry"}
    BY Facts DEF Placed, Visit
  <2>2. CASE v = visits + 1
    <3>1. link[v] = "none"
      BY <1>1, <2>2 DEF Placed
    <3> QED BY <1>1, <2>1, <2>2, <3>1 DEF Visit
  <2>3. CASE v # visits + 1
    <3>1. load'[v] = load[v] /\ visits' = visits + 1
      BY <2>3 DEF Typed, Visit
    <3>2. v > visits + 1 => v > visits
      BY <1>1, <2>1
    <3> QED BY <2>1, <3>1, <3>2 DEF Placed
  <2> QED BY <2>2, <2>3
<1>4. Kept'
  <2>1. store.state = NoState /\ store.events = << >>
    BY DEF Kept, Visit, Empty
  <2> QED BY <1>1, <2>1, EmptySeq DEF Kept, Visit
<1>5. InStep'
  BY StillInStep DEF Visit, server, socket
<1> QED BY <1>2, <1>3, <1>4, <1>5

LEMMA LeaveInductive ==
  ASSUME Inductive, Leave
  PROVE  Inductive'
<1> USE DEF Inductive
<1>1. current \in Visits
  BY Facts DEF Typed, Leave
<1>2. Typed'
  <2>1. ASSUME NEW v \in Visits
        PROVE  wire'[v] \in Seq(FrameOf(mission[v]))
    <3>1. wire'[v] = << >> \/ wire'[v] = wire[v]
      BY DEF Typed, Leave
    <3> QED BY <3>1, EmptySeq DEF Typed
  <2>2. /\ wire' = [v \in Visits |-> wire'[v]]
        /\ link' \in [Visits -> {"none", "connecting", "open", "retry", "closing", "closed"}]
        /\ \A v \in Visits : rows'[v] \in Progress(mission[v])
    BY <1>1, Facts DEF Typed, Leave
  <2> QED BY <1>1, <2>1, <2>2 DEF Typed, Leave, server, loader
<1>3. Placed'
  BY <1>1 DEF Typed, Placed, Leave, loader, Linked
<1>4. Kept'
  BY DEF Kept, Leave
<1>5. \A v \in Visits : ~covered'[v]
  BY <1>1, CoveredIsCurrent DEF Typed, Leave
<1> QED BY <1>2, <1>3, <1>4, <1>5 DEF InStep

(* A visit whose loader is not done has no socket, and when its page is    *)
(* the one mounted, no other visit has one.                                *)
LEMMA LoadedInductive ==
  ASSUME Inductive, NEW v \in Visits, Loaded(v)
  PROVE  Inductive'
<1> USE DEF Inductive
<1>1. /\ mission[v] \in Missions /\ projected[mission[v]] \in Progress(mission[v])
      /\ link[v] = "none"
  BY Facts DEF Typed, Placed, Loaded
<1>2. Typed'
  BY DEF Typed, Loaded, Subscribe, server, page
<1>3. Placed'
  BY DEF Typed, Placed, Loaded, Subscribe, page
<1>4. CASE v = current
  <2>1. store' = SetSnapshot(store, After(mission[v], projected[mission[v]]),
                             Recent(mission[v], projected[mission[v]]))
    BY <1>4 DEF Loaded
  <2>2. Kept'
    BY <1>1, <1>4, <2>1, AfterIsState, RecentEvents, Facts
    DEF Kept, SetSnapshot, Loaded, page
  <2>3. \A w \in Visits : ~covered'[w]
    BY <1>1, <1>4, CoveredIsCurrent DEF Loaded
  <2> QED BY <1>2, <1>3, <2>2, <2>3 DEF InStep
<1>5. CASE v # current
  <2>1. Kept'
    BY <1>5, StillKept DEF Loaded, page
  <2>2. InStep'
    BY <1>5, StillInStep DEF Loaded, server
  <2> QED BY <1>2, <1>3, <2>1, <2>2
<1> QED BY <1>4, <1>5

LEMMA LoadFailsInductive ==
  ASSUME Inductive, NEW v \in Visits, LoadFails(v)
  PROVE  Inductive'
<1> USE DEF Inductive
<1>1. link[v] = "none"
  BY DEF Placed, LoadFails
<1>2. attempts'[v] = MaxAttempts => ~(attempts'[v] < MaxAttempts)
  BY LimitsAssumption
<1>3. Typed'
  BY DEF Typed, LoadFails, Subscribe, server, page
<1>4. Placed'
  BY <1>1, <1>2 DEF Typed, Placed, LoadFails, Subscribe, page
<1>5. Kept'
  BY StillKept DEF LoadFails, page
<1>6. InStep'
  BY StillInStep DEF LoadFails, server
<1> QED BY <1>3, <1>4, <1>5, <1>6

LEMMA RetryInductive ==
  ASSUME Inductive, NEW v \in Visits, Retry(v)
  PROVE  Inductive'
<1> USE DEF Inductive
<1>1. Typed'
  BY DEF Typed, Retry, server, page, socket
<1>2. Placed'
  BY DEF Typed, Placed, Retry, page, socket
<1>3. Kept'
  BY StillKept DEF Retry, page
<1>4. InStep'
  BY StillInStep DEF Retry, server, socket
<1> QED BY <1>1, <1>2, <1>3, <1>4
-----------------------------------------------------------------------------
(* 7. A frame is received *)

LEMMA StoreAfterEvent ==
  ASSUME NEW T, NEW e \in T, store.events \in Seq(T), Applies(store, e),
         store' = ApplyEvent(store, e)
  PROVE  /\ store'.state = Reduce(store.state, e)
         /\ store'.events \in Seq(T)
         /\ \A i \in DOMAIN store'.events :
              store'.events[i] = e \/ \E j \in DOMAIN store.events : store'.events[i] = store.events[j]
<1>1. /\ store'.state = Reduce(store.state, e)
      /\ store'.events = Newest(<<e>> \o store.events)
  BY DEF ApplyEvent
<1> QED BY <1>1, NewestEvents

LEMMA StoreAfterSnapshot ==
  ASSUME NEW m \in Missions, NEW n \in Progress(m), NEW k \in Progress(m),
         store' = SetSnapshot(store, After(m, n), Recent(m, k))
  PROVE  store'.state = After(m, n) /\ store'.events = Recent(m, k)
BY DEF SetSnapshot

LEMMA FramesDiffer ==
  /\ \A n, k, e : SnapshotFrame(n, k) # EventFrame(e)
  /\ \A n, k, i, j : SnapshotFrame(n, k) = SnapshotFrame(i, j) => n = i /\ k = j
  /\ \A d, e : EventFrame(d) = EventFrame(e) => d = e
<1>1. \A n, k : SnapshotFrame(n, k).type = "snapshot" /\ SnapshotFrame(n, k).rows = n
              /\ SnapshotFrame(n, k).recent = k
  BY DEF SnapshotFrame
<1>2. \A e : EventFrame(e).type = "mission_event" /\ EventFrame(e).event = e
  BY DEF EventFrame
<1>3. ASSUME NEW n, NEW k, NEW e, SnapshotFrame(n, k) = EventFrame(e)
      PROVE  FALSE
  <2>1. "snapshot" # "mission_event"
    OBVIOUS
  <2> QED BY <1>1, <1>2, <1>3, <2>1
<1>4. ASSUME NEW n, NEW k, NEW i, NEW j, SnapshotFrame(n, k) = SnapshotFrame(i, j)
      PROVE  n = i /\ k = j
  BY <1>1, <1>4
<1>5. ASSUME NEW d, NEW e, EventFrame(d) = EventFrame(e)
      PROVE  d = e
  BY <1>2, <1>5
<1> QED BY <1>3, <1>4, <1>5

(* What the frame in front does to the store. *)
LEMMA ReceiveStore ==
  ASSUME Typed, NEW v \in Visits, Receive(v)
  PROVE  \/ \E n, k \in Progress(mission[v]) :
              /\ wire[v][1] = SnapshotFrame(n, k)
              /\ store' = SetSnapshot(store, After(mission[v], n), Recent(mission[v], k))
         \/ \E e \in EventsOf(mission[v]) :
              wire[v][1] = EventFrame(e) /\ store' = ApplyEvent(store, e)
<1> DEFINE m == mission[v]
           frame == wire[v][1]
<1>1. wire[v] \in Seq(FrameOf(m)) /\ wire[v] # << >> /\ frame = Head(wire[v])
  BY DEF Typed, Receive
<1>2. frame \in FrameOf(m)
  BY <1>1
<1>3. store' = IF frame.type = "snapshot"
               THEN SetSnapshot(store, After(m, frame.rows), Recent(m, frame.recent))
               ELSE ApplyEvent(store, frame.event)
  BY <1>1 DEF Receive
<1> HIDE DEF frame
<1>4. CASE \E e \in EventsOf(m) : frame = EventFrame(e)
  <2>1. PICK e \in EventsOf(m) : frame = EventFrame(e)
    BY <1>4
  <2>2. frame.type # "snapshot" /\ frame.event = e
    BY <2>1 DEF EventFrame
  <2> QED BY <1>3, <2>1, <2>2 DEF frame
<1>5. CASE \E n, k \in Progress(m) : frame = SnapshotFrame(n, k)
  <2>1. PICK n \in Progress(m), k \in Progress(m) : frame = SnapshotFrame(n, k)
    BY <1>5
  <2>2. frame.type = "snapshot" /\ frame.rows = n /\ frame.recent = k
    BY <2>1 DEF SnapshotFrame
  <2> QED BY <1>3, <2>1, <2>2 DEF frame
<1> QED BY <1>2, <1>4, <1>5 DEF FrameOf

LEMMA ReceiveKept ==
  ASSUME Inductive, NEW v \in Visits, Receive(v)
  PROVE  Kept'
<1> DEFINE m == mission[v]
<1>1. /\ v = current /\ current # 0 /\ m \in Missions /\ current' = current
      /\ store.events \in Seq(EventsOf(m))
      /\ store.state # NoState => store.state \in State(m)
  BY Facts DEF Inductive, Placed, Kept, Receive, page
<1> SUFFICES /\ store'.events \in Seq(EventsOf(m))
             /\ store'.state # NoState => store'.state \in State(m)
  BY <1>1 DEF Kept
<1>2. ASSUME NEW n \in Progress(m), NEW k \in Progress(m),
             store' = SetSnapshot(store, After(m, n), Recent(m, k))
      PROVE  store'.events \in Seq(EventsOf(m)) /\ store'.state \in State(m)
  BY <1>1, <1>2, StoreAfterSnapshot, AfterIsState, RecentEvents
<1>3. ASSUME NEW e \in EventsOf(m), store' = ApplyEvent(store, e)
      PROVE  /\ store'.events \in Seq(EventsOf(m))
             /\ store'.state # NoState => store'.state \in State(m)
  <2>1. CASE Applies(store, e)
    <3>1. store.state \in State(m)
      BY <1>1, <2>1 DEF Applies
    <3> QED BY <1>1, <1>3, <2>1, <3>1, StoreAfterEvent, StateAssumption
  <2>2. CASE ~Applies(store, e)
    BY <1>1, <1>3, <2>2 DEF ApplyEvent
  <2> QED BY <2>1, <2>2
<1> QED BY <1>2, <1>3, ReceiveStore DEF Inductive

(* The frames behind the one received move up. *)
LEMMA MovedUp ==
  ASSUME Typed, NEW v \in Visits, Receive(v), NEW i \in Nat
  PROVE  /\ Sent(v, i)' = Sent(v, i + 1)
         /\ Coming(v, i + 1) => Coming(v, i)'
<1> DEFINE m == mission[v]
           l == Len(wire[v])
<1>1. /\ wire[v] \in Seq(FrameOf(m)) /\ wire[v] # << >> /\ wire'[v] = Tail(wire[v])
      /\ broadcast' = broadcast /\ broadcast[m] \in Nat
  BY Facts DEF Typed, Receive, server
<1>2. /\ l \in Nat \ {0} /\ Len(wire'[v]) = l - 1
      /\ \A j \in 1 .. l - 1 : wire'[v][j] = wire[v][j + 1]
  BY <1>1
<1> HIDE DEF l
<1>3. ASSUME NEW j \in Nat
      PROVE  Sent(v, j)' = Sent(v, j + 1)
  <2>1. \A b \in Nat : b - ((l - 1) - j) = b - (l - (j + 1))
    BY <1>2
  <2> QED BY <1>1, <1>2, <2>1 DEF Sent, l
<1>4. ASSUME Coming(v, i + 1)
      PROVE  Coming(v, i)'
  <2>1. Sent(v, i)' \in Nat
    BY <1>3, <1>4 DEF Coming
  <2>2. ASSUME NEW j \in i + 1 .. l - 1
        PROVE  Sent(v, j)' \in DOMAIN Log[m] /\ wire'[v][j] = EventFrame(Log[m][Sent(v, j)'])
    <3>1. j \in Nat /\ j \in 1 .. l - 1 /\ j + 1 \in (i + 1) + 1 .. l
      BY <1>2
    <3>2. Sent(v, j)' = Sent(v, j + 1) /\ wire'[v][j] = wire[v][j + 1]
      BY <1>2, <1>3, <3>1
    <3> QED BY <1>4, <3>1, <3>2 DEF Coming, l
  <2> QED BY <1>2, <2>1, <2>2 DEF Coming
<1> QED BY <1>3, <1>4

(* The snapshot arrives. *)
LEMMA SnapshotArrives ==
  ASSUME Inductive, NEW v \in Visits, Receive(v), Awaiting(v, 1)
  PROVE  Reached(v)'
<1> DEFINE m == mission[v]
           s == Sent(v, 1)
           n == rows[v]
<1>1. /\ m \in Missions /\ n \in Progress(m) /\ n \in Nat /\ rows'[v] = n /\ MaxRecent \in Nat
  BY Facts, LimitsAssumption DEF Inductive, Typed, Receive, Progress
<1>2. /\ wire[v][1] = SnapshotFrame(n, n) /\ s \in Nat /\ s <= n /\ n <= s + MaxRecent
      /\ Coming(v, 0 + 1)
  BY DEF Awaiting, Coming
<1>3. Sent(v, 0)' = s /\ Coming(v, 0)'
  BY <1>2, MovedUp DEF Inductive
<1>4. store' = SetSnapshot(store, After(m, n), Recent(m, n))
  BY <1>2, ReceiveStore, FramesDiffer DEF Inductive
<1>5. store'.state = After(m, n) /\ store'.events = Recent(m, n)
  BY <1>1, <1>4, StoreAfterSnapshot
<1> HIDE DEF s, n
<1>6. Further(s, n) = n
  BY <1>1, <1>2 DEF Further
<1>7. \A i \in DOMAIN store'.events : \E k \in 1 .. n : store'.events[i] = Log[m][k]
  BY <1>1, <1>5, RecentEvents
<1>8. ASSUME NEW k \in s + 1 .. n
      PROVE  \E i \in DOMAIN store'.events : store'.events[i] = Log[m][k]
  <2>1. k \in 1 .. n /\ n < k + MaxRecent
    BY <1>1, <1>2
  <2>2. \E i \in DOMAIN Recent(m, n) : Recent(m, n)[i] = Log[m][k]
    BY <1>1, <2>1, RecentEvents
  <2> QED BY <1>5, <2>2
<1> QED BY <1>1, <1>3, <1>5, <1>6, <1>7, <1>8 DEF Reached

(* An event arrives that the snapshot holds: the log stops it.  One that   *)
(* is later is new to the log, and takes the mission one step further.     *)
LEMMA EventArrives ==
  ASSUME Inductive, NEW v \in Visits, Receive(v), covered[v], Reached(v)
  PROVE  Reached(v)'
<1> DEFINE m == mission[v]
           log == Log[m]
           s == Sent(v, 0)
           e == log[s + 1]
           n == rows[v]
           head == Further(s, n)
<1>1. /\ m \in Missions /\ n \in Nat /\ n \in Progress(m) /\ rows'[v] = n /\ log \in Seq(EventsOf(m))
      /\ Len(log) \in Nat /\ DOMAIN log = 1 .. Len(log) /\ NoState \notin State(m)
      /\ \A i, j \in DOMAIN log : log[i].id = log[j].id => i = j
  BY Facts, LogAssumption, StateAssumption DEF Inductive, Typed, Receive, Progress
<1>2. /\ v = current /\ v # 0 /\ store.events \in Seq(EventsOf(m))
  BY CoveredIsCurrent, Facts DEF Inductive, Kept
<1>3. Sent(v, 1) = s + 1 /\ s \in Nat /\ s + 1 \in DOMAIN log /\ wire[v][1] = EventFrame(e)
  <2>1. broadcast[m] \in Nat /\ wire[v] \in Seq(FrameOf(m)) /\ wire[v] # << >>
    BY <1>1 DEF Inductive, Typed, Receive
  <2>2. Sent(v, 1) = s + 1 /\ 1 \in 0 + 1 .. Len(wire[v])
    BY <2>1 DEF Sent
  <2>3. Coming(v, 0)
    BY DEF Reached
  <2> QED BY <2>2, <2>3 DEF Coming
<1>4. Coming(v, 0)' /\ Sent(v, 0)' = s + 1
  <2>1. Coming(v, 0 + 1)
    <3>1. Coming(v, 0)
      BY DEF Reached
    <3>2. \A j \in (0 + 1) + 1 .. Len(wire[v]) : j \in 0 + 1 .. Len(wire[v])
      BY DEF Inductive, Typed
    <3>3. Sent(v, 0 + 1) \in Nat
      BY <1>3
    <3> QED BY <3>1, <3>2, <3>3 DEF Coming
  <2> QED BY <1>3, <2>1, MovedUp DEF Inductive
<1>5. e \in EventsOf(m) /\ store' = ApplyEvent(store, e)
  BY <1>1, <1>3, ReceiveStore, FramesDiffer DEF Inductive
<1>6. /\ store.state = After(m, head)
      /\ \A i \in DOMAIN store.events : \E k \in 1 .. head : store.events[i] = log[k]
      /\ \A k \in s + 1 .. n : \E i \in DOMAIN store.events : store.events[i] = log[k]
  BY DEF Reached
<1>7. /\ s < n => head = n /\ Further(s + 1, n) = n
      /\ ~(s < n) => head = s /\ Further(s + 1, n) = s + 1
  BY <1>1, <1>3 DEF Further
<1> HIDE DEF s, n, head, log
<1>8. CASE s < n
  <2>1. s + 1 \in s + 1 .. n /\ \A k \in (s + 1) + 1 .. n : k \in s + 1 .. n
    BY <1>1, <1>3, <1>8
  <2>2. store' = store
    BY <1>5, <1>6, <2>1 DEF ApplyEvent, Applies, InLog
  <2> QED BY <1>1, <1>4, <1>6, <1>7, <1>8, <2>1, <2>2 DEF Reached, log
<1>9. CASE ~(s < n)
  <2>1. s \in Progress(m) /\ s < Len(log) /\ s \in 0 .. Len(log)
    BY <1>1, <1>3 DEF Progress, log
  <2>2. ~InLog(store, e)
    <3>1. \A k \in 1 .. s : k \in DOMAIN log /\ k # s + 1
      BY <1>1, <1>3
    <3>2. \A k \in 1 .. s : log[k].id # e.id
      BY <1>1, <1>3, <3>1
    <3> QED BY <1>6, <1>7, <1>9, <3>2 DEF InLog
  <2>3. Applies(store, e)
    BY <1>1, <1>6, <1>7, <1>9, <2>1, <2>2, AfterIsState DEF Applies
  <2>4. /\ store'.state = Reduce(store.state, e)
        /\ \A i \in DOMAIN store'.events :
             store'.events[i] = e \/ \E j \in DOMAIN store.events : store'.events[i] = store.events[j]
    BY <1>2, <1>5, <2>3, StoreAfterEvent
  <2>5. store'.state = After(m, s + 1)
    BY <1>1, <1>6, <1>7, <1>9, <2>1, <2>4, AfterNext DEF log
  <2>6. \A i \in DOMAIN store'.events : \E k \in 1 .. s + 1 : store'.events[i] = log[k]
    <3>1. s + 1 \in 1 .. s + 1 /\ \A k \in 1 .. s : k \in 1 .. s + 1
      BY <1>3
    <3> QED BY <1>6, <1>7, <1>9, <2>4, <3>1
  <2>7. \A k \in (s + 1) + 1 .. n : FALSE
    BY <1>1, <1>3, <1>9
  <2> QED BY <1>1, <1>4, <1>7, <1>9, <2>5, <2>6, <2>7 DEF Reached, log
<1> QED BY <1>8, <1>9

LEMMA ReceiveInductive ==
  ASSUME Inductive, NEW v \in Visits, Receive(v)
  PROVE  Inductive'
<1>1. wire[v] \in Seq(FrameOf(mission[v])) /\ wire[v] # << >> /\ wire'[v] = Tail(wire[v])
      /\ wire' = [wire EXCEPT ![v] = Tail(@)]
  BY DEF Inductive, Typed, Receive
<1>2. Typed'
  <2>1. ASSUME NEW w \in Visits
        PROVE  wire'[w] \in Seq(FrameOf(mission[w]))
    <3>1. CASE w = v
      <4>1. Tail(wire[v]) \in Seq(FrameOf(mission[v]))
        BY <1>1, TailSeq
      <4> QED BY <1>1, <3>1, <4>1
    <3>2. CASE w # v
      BY <1>1, <3>2 DEF Inductive, Typed
    <3> QED BY <3>1, <3>2
  <2>2. wire' = [w \in Visits |-> wire'[w]]
    BY DEF Inductive, Typed, Receive
  <2> QED BY <2>1, <2>2 DEF Inductive, Typed, Receive, server, page, loader
<1>3. Placed'
  BY DEF Inductive, Typed, Placed, Receive, page, loader
<1>4. Kept'
  BY ReceiveKept
<1>5. InStep'
  <2> SUFFICES ASSUME NEW w \in Visits, covered'[w]
               PROVE  Reached(w)' \/ \E i \in DOMAIN wire'[w] : Awaiting(w, i)'
    BY DEF InStep
  <2>1. covered[w]
    BY DEF Receive
  <2>2. w = v
    BY <2>1, CoveredIsCurrent DEF Inductive, Placed, Receive
  <2>3. CASE Reached(v)
    BY <2>1, <2>2, <2>3, EventArrives
  <2>4. ASSUME NEW i \in DOMAIN wire[v], Awaiting(v, i)
        PROVE  Reached(v)' \/ \E j \in DOMAIN wire'[v] : Awaiting(v, j)'
    <3>1. CASE i = 1
      BY <2>4, <3>1, SnapshotArrives
    <3>2. CASE i # 1
      <4>1. PICK j : j = i - 1
        OBVIOUS
      <4>2. /\ j \in Nat /\ j + 1 = i /\ j \in DOMAIN wire'[v] /\ wire'[v][j] = wire[v][i]
        BY <1>1, <3>2, <4>1
      <4>3. Sent(v, j)' = Sent(v, i) /\ Coming(v, j)'
        BY <2>4, <4>2, MovedUp DEF Inductive, Awaiting
      <4>4. Awaiting(v, j)'
        BY <2>4, <4>2, <4>3 DEF Awaiting, Receive
      <4> QED BY <4>2, <4>4
    <3> QED BY <3>1, <3>2
  <2> QED BY <2>1, <2>2, <2>3, <2>4 DEF Inductive, InStep
<1> QED BY <1>2, <1>3, <1>4, <1>5 DEF Inductive
-----------------------------------------------------------------------------
(* 8. The theorems *)

LEMMA StepInductive == Inductive /\ [Next]_vars => Inductive'
<1> SUFFICES ASSUME Inductive, [Next]_vars PROVE Inductive'
  OBVIOUS
<1>1. CASE UNCHANGED vars
  <2>1. UNCHANGED <<projected, broadcast, store, visits, current, load, link, peer, rows, wire, covered>>
    BY <1>1 DEF vars, server, page, loader, socket
  <2>2. Typed' /\ Placed' /\ Kept'
    BY <2>1 DEF Inductive, Typed, Placed, Kept
  <2>3. InStep'
    BY <2>1, StillInStep DEF Inductive
  <2> QED BY <2>2, <2>3 DEF Inductive
<1>2. ASSUME NEW m \in Missions, Project(m) PROVE Inductive'
  BY <1>2, ProjectInductive
<1>3. ASSUME NEW m \in Missions, Broadcast(m) PROVE Inductive'
  BY <1>3, BroadcastInductive
<1>4. ASSUME NEW v \in Visits, Accept(v) PROVE Inductive'
  BY <1>4, AcceptInductive
<1>5. ASSUME NEW v \in Visits, ReadRows(v) PROVE Inductive'
  BY <1>5, ReadRowsInductive
<1>6. ASSUME NEW v \in Visits, SendSnapshot(v) PROVE Inductive'
  BY <1>6, SendSnapshotInductive
<1>7. ASSUME NEW v \in Visits, Drop(v) \/ ReadFails(v) PROVE Inductive'
  BY <1>7, DropInductive
<1>8. ASSUME NEW v \in Visits, Reconnect(v) PROVE Inductive'
  BY <1>8, ReconnectInductive
<1>9. ASSUME NEW v \in Visits, Receive(v) PROVE Inductive'
  BY <1>9, ReceiveInductive
<1>10. ASSUME NEW v \in Visits, Closed(v) PROVE Inductive'
  BY <1>10, ClosedInductive
<1>11. ASSUME NEW v \in Visits, Loaded(v) PROVE Inductive'
  BY <1>11, LoadedInductive
<1>12. ASSUME NEW v \in Visits, LoadFails(v) PROVE Inductive'
  BY <1>12, LoadFailsInductive
<1>13. ASSUME NEW v \in Visits, Retry(v) PROVE Inductive'
  BY <1>13, RetryInductive
<1>14. CASE Restart
  BY <1>14, RestartInductive
<1>15. CASE Visit
  BY <1>15, VisitInductive
<1>16. CASE Leave
  BY <1>16, LeaveInductive
<1> QED BY <1>1, <1>2, <1>3, <1>4, <1>5, <1>6, <1>7, <1>8, <1>9, <1>10, <1>11, <1>12, <1>13,
           <1>14, <1>15, <1>16 DEF Next, Answered

(* The invariant holds of every behaviour. *)
THEOREM InductiveAlways == Spec => []Inductive
BY InitInductive, StepInductive, PTL DEF Spec

(* Whatever answers, closes or reconnects late, the store holds nothing of *)
(* a mission whose page is not the one mounted: the hook's active flag,    *)
(* its reset and the sockets it closes are enough.                         *)
THEOREM StoreHoldsOnlyItsMission == Spec => []OnlyThisMission
<1>1. Inductive => OnlyThisMission
  <2> SUFFICES ASSUME Inductive PROVE OnlyThisMission
    OBVIOUS
  <2>1. CASE current = 0
    BY <2>1 DEF Inductive, Kept, OnlyThisMission
  <2>2. CASE current # 0
    <3>1. current \in Visits /\ mission[current] \in Missions
      BY <2>2, Facts DEF Inductive, Typed
    <3>2. store.state # NoState => store.state.mission_id = mission[current]
      BY <2>2, <3>1, StateAssumption DEF Inductive, Kept
    <3>3. \A i \in DOMAIN store.events :
            \E k \in DOMAIN Log[mission[current]] : store.events[i] = Log[mission[current]][k]
      BY <2>2 DEF Inductive, Kept, EventsOf
    <3> QED BY <2>2, <3>2, <3>3 DEF OnlyThisMission
  <2> QED BY <2>1, <2>2
<1> QED BY <1>1, InductiveAlways, PTL

(* Once the snapshot covers what was broadcast before it and all that was  *)
(* sent is received, the console is as far as the server: no event is lost *)
(* or folded twice, wherever snapshot and broadcast overlap.               *)
THEOREM ConsoleConverges == Spec => []ConvergesWhenCovered
<1>1. Inductive => ConvergesWhenCovered
  <2> SUFFICES ASSUME Inductive, NEW v \in Visits, Received(v), covered[v]
               PROVE  store.state = After(mission[v],
                                          IF broadcast[mission[v]] > rows[v]
                                          THEN broadcast[mission[v]] ELSE rows[v])
    BY DEF ConvergesWhenCovered
  <2>1. wire[v] = << >> /\ DOMAIN wire[v] = {} /\ Len(wire[v]) = 0
    BY DEF Received
  <2>2. Reached(v)
    BY <2>1 DEF Inductive, InStep
  <2>3. Sent(v, 0) = broadcast[mission[v]]
    BY <2>1, Facts, SMTT(60) DEF Sent, Inductive, Typed
  <2> QED BY <2>2, <2>3 DEF Reached, Further
<1> QED BY <1>1, InductiveAlways, PTL
=============================================================================
