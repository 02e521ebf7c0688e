--------------------------- MODULE ConsoleProofs ---------------------------
(***************************************************************************)
(* Proofs about the two sides of the System Data Flow panel.               *)
(*                                                                         *)
(* FlowEngine, for any durations, limits and events: the animation has one *)
(* loop, and every hop of every cascade is made once.                      *)
(*                                                                         *)
(* Console, for any reducer, any log of distinct events and any bounds:    *)
(* the base and the timeline fold to the mission now, a frame of the       *)
(* replay is what the operator saw, and a replay has one timer.            *)
(***************************************************************************)
EXTENDS Console, FlowEngine, Integers, FiniteSetTheorems, TLAPS
-----------------------------------------------------------------------------
(* 1. The cascades are trees *)

Spawning == INSTANCE FoldTheorems WITH Step <- Spawn
Landing == INSTANCE FoldTheorems WITH Step <- Land
Starting == INSTANCE FoldTheorems WITH Step <- Start
Handling == INSTANCE FoldTheorems WITH Step <- EventOf
Parting == INSTANCE FoldTheorems WITH Step <- Part

Edges(f) == DOMAIN Flows[f].then
Follow(f, e) == Flows[f].then[e]
Branch(f, e) == {e} \union After[f][e]

(* A recursive function that exists is what it says it is. *)
LEMMA BeyondIs ==
  ASSUME NEW then, NEW g, g = [e \in DOMAIN then |-> UNION {{x} \union g[x] : x \in then[e]}]
  PROVE  Beyond(then) = [e \in DOMAIN then |-> UNION {{x} \union Beyond(then)[x] : x \in then[e]}]
<1> DEFINE Def(h) == h = [e \in DOMAIN then |-> UNION {{x} \union h[x] : x \in then[e]}]
<1>1. Beyond(then) = CHOOSE h : Def(h)
  BY Zenon DEF Beyond
<1>2. Def(g)
  OBVIOUS
<1> HIDE DEF Def
<1>3. Def(Beyond(then))
  BY <1>1, <1>2
<1> QED BY <1>3 DEF Def

(* How many hops come before an edge, in every flow it belongs to. *)
Depth(e) ==
  CASE e \in {"e_http", "e_worker_produce", "e_dlq", "e_outbox_flush"} -> 0
    [] e \in {"e_api_produce", "e_proj_consume", "e_ws_consume", "e_outbox_produce"} -> 1
    [] e \in {"e_cmd_consume", "e_proj_write", "e_ws_push", "e_tel_consume"} -> 2
    [] e \in {"e_proj_ledger", "e_tel_produce"} -> 3

(* after is what comes after an edge; the branches after one edge share    *)
(* nothing, and of two edges before a third one comes before the other.    *)
IsTree(then, after, first) ==
  /\ first \in DOMAIN then /\ DOMAIN then = {first} \union after[first]
  /\ DOMAIN then \subseteq Edge
  /\ \A e \in DOMAIN then :
       /\ then[e] \subseteq after[e] /\ after[e] \subseteq DOMAIN then /\ e \notin after[e]
       /\ \A x \in after[e] : after[x] \subseteq after[e] /\ Depth(e) < Depth(x)
       /\ \A x \in after[e] : \E k \in then[e] : x = k \/ x \in after[k]
       /\ \A k, l \in then[e] : k # l => k \notin after[l] /\ after[k] \intersect after[l] = {}
  /\ \A a, b \in DOMAIN then : \A y \in after[a] \intersect after[b] :
       a = b \/ a \in after[b] \/ b \in after[a]

LEMMA CommandTree == IsTree(CommandFlow.then, Beyond(CommandFlow.then), CommandFlow.first)
<1> DEFINE then == CommandFlow.then
           b == Beyond(then)
           g == [e_http |-> {"e_api_produce", "e_cmd_consume"},
                e_api_produce |-> {"e_cmd_consume"}, e_cmd_consume |-> {}]
<1>1. /\ DOMAIN then = {"e_http", "e_api_produce", "e_cmd_consume"}
      /\ CommandFlow.first = "e_http"
      /\ then["e_http"] = {"e_api_produce"}
      /\ then["e_api_produce"] = {"e_cmd_consume"}
      /\ then["e_cmd_consume"] = {}
  BY DEF CommandFlow
<1>2. /\ DOMAIN g = DOMAIN then /\ g = [e \in DOMAIN g |-> g[e]]
      /\ g["e_http"] = {"e_api_produce", "e_cmd_consume"}
      /\ g["e_api_produce"] = {"e_cmd_consume"}
      /\ g["e_cmd_consume"] = {}
  BY <1>1
<1> HIDE DEF then, g
<1>3. \A e \in DOMAIN then : g[e] = UNION {{x} \union g[x] : x \in then[e]}
  BY <1>1, <1>2
<1>4. g = [e \in DOMAIN then |-> UNION {{x} \union g[x] : x \in then[e]}]
  BY <1>2, <1>3
<1>5. b = [e \in DOMAIN then |-> UNION {{x} \union b[x] : x \in then[e]}]
  BY <1>4, BeyondIs
<1> HIDE DEF b
<1>6. \A e \in DOMAIN then : b[e] = UNION {{x} \union b[x] : x \in then[e]}
  BY <1>5
<1>7. b["e_cmd_consume"] = {}
  BY <1>1, <1>6
<1>8. b["e_api_produce"] = {"e_cmd_consume"}
  BY <1>1, <1>6, <1>7
<1>9. b["e_http"] = {"e_api_produce", "e_cmd_consume"}
  BY <1>1, <1>6, <1>8
<1> QED BY <1>1, <1>7, <1>8, <1>9 DEF IsTree, Edge, Depth, b, then

LEMMA TelemetryTree == IsTree(TelemetryFlow.then, Beyond(TelemetryFlow.then), TelemetryFlow.first)
<1> DEFINE then == TelemetryFlow.then
           b == Beyond(then)
           g == [e_outbox_flush |-> {"e_outbox_produce", "e_tel_consume", "e_tel_produce"},
                e_outbox_produce |-> {"e_tel_consume", "e_tel_produce"},
                e_tel_consume |-> {"e_tel_produce"}, e_tel_produce |-> {}]
<1>1. /\ DOMAIN then = {"e_outbox_flush", "e_outbox_produce", "e_tel_consume", "e_tel_produce"}
      /\ TelemetryFlow.first = "e_outbox_flush"
      /\ then["e_outbox_flush"] = {"e_outbox_produce"}
      /\ then["e_outbox_produce"] = {"e_tel_consume"}
      /\ then["e_tel_consume"] = {"e_tel_produce"}
      /\ then["e_tel_produce"] = {}
  BY DEF TelemetryFlow
<1>2. /\ DOMAIN g = DOMAIN then /\ g = [e \in DOMAIN g |-> g[e]]
      /\ g["e_outbox_flush"] = {"e_outbox_produce", "e_tel_consume", "e_tel_produce"}
      /\ g["e_outbox_produce"] = {"e_tel_consume", "e_tel_produce"}
      /\ g["e_tel_consume"] = {"e_tel_produce"}
      /\ g["e_tel_produce"] = {}
  BY <1>1
<1> HIDE DEF then, g
<1>3. \A e \in DOMAIN then : g[e] = UNION {{x} \union g[x] : x \in then[e]}
  BY <1>1, <1>2
<1>4. g = [e \in DOMAIN then |-> UNION {{x} \union g[x] : x \in then[e]}]
  BY <1>2, <1>3
<1>5. b = [e \in DOMAIN then |-> UNION {{x} \union b[x] : x \in then[e]}]
  BY <1>4, BeyondIs
<1> HIDE DEF b
<1>6. \A e \in DOMAIN then : b[e] = UNION {{x} \union b[x] : x \in then[e]}
  BY <1>5
<1>7. b["e_tel_produce"] = {}
  BY <1>1, <1>6
<1>8. b["e_tel_consume"] = {"e_tel_produce"}
  BY <1>1, <1>6, <1>7
<1>9. b["e_outbox_produce"] = {"e_tel_consume", "e_tel_produce"}
  BY <1>1, <1>6, <1>8
<1>10. b["e_outbox_flush"] = {"e_outbox_produce", "e_tel_consume", "e_tel_produce"}
  BY <1>1, <1>6, <1>9
<1> QED BY <1>1, <1>7, <1>8, <1>9, <1>10 DEF IsTree, Edge, Depth, b, then

LEMMA DeadTree == IsTree(DeadFlow.then, Beyond(DeadFlow.then), DeadFlow.first)
<1> DEFINE then == DeadFlow.then
           b == Beyond(then)
           g == [e_dlq |-> {}]
<1>1. /\ DOMAIN then = {"e_dlq"}
      /\ DeadFlow.first = "e_dlq"
      /\ then["e_dlq"] = {}
  BY DEF DeadFlow
<1>2. /\ DOMAIN g = DOMAIN then /\ g = [e \in DOMAIN g |-> g[e]]
      /\ g["e_dlq"] = {}
  BY <1>1
<1> HIDE DEF then, g
<1>3. \A e \in DOMAIN then : g[e] = UNION {{x} \union g[x] : x \in then[e]}
  BY <1>1, <1>2
<1>4. g = [e \in DOMAIN then |-> UNION {{x} \union g[x] : x \in then[e]}]
  BY <1>2, <1>3
<1>5. b = [e \in DOMAIN then |-> UNION {{x} \union b[x] : x \in then[e]}]
  BY <1>4, BeyondIs
<1> HIDE DEF b
<1>6. \A e \in DOMAIN then : b[e] = UNION {{x} \union b[x] : x \in then[e]}
  BY <1>5
<1>7. b["e_dlq"] = {}
  BY <1>1, <1>6
<1> QED BY <1>1, <1>7 DEF IsTree, Edge, Depth, b, then

LEMMA EventTree == IsTree(EventFlow.then, Beyond(EventFlow.then), EventFlow.first)
<1> DEFINE then == EventFlow.then
           b == Beyond(then)
           g == [e_worker_produce |-> {"e_proj_consume", "e_proj_write", "e_ws_consume", "e_ws_push"},
                e_proj_consume |-> {"e_proj_write"}, e_proj_write |-> {},
                e_ws_consume |-> {"e_ws_push"}, e_ws_push |-> {}]
<1>1. /\ DOMAIN then = {"e_worker_produce", "e_proj_consume", "e_proj_write", "e_ws_consume", "e_ws_push"}
      /\ EventFlow.first = "e_worker_produce"
      /\ then["e_worker_produce"] = {"e_proj_consume", "e_ws_consume"}
      /\ then["e_proj_consume"] = {"e_proj_write"}
      /\ then["e_proj_write"] = {}
      /\ then["e_ws_consume"] = {"e_ws_push"}
      /\ then["e_ws_push"] = {}
  BY DEF EventFlow
<1>2. /\ DOMAIN g = DOMAIN then /\ g = [e \in DOMAIN g |-> g[e]]
      /\ g["e_worker_produce"] = {"e_proj_consume", "e_proj_write", "e_ws_consume", "e_ws_push"}
      /\ g["e_proj_consume"] = {"e_proj_write"}
      /\ g["e_proj_write"] = {}
      /\ g["e_ws_consume"] = {"e_ws_push"}
      /\ g["e_ws_push"] = {}
  BY <1>1
<1> HIDE DEF then, g
<1>3. \A e \in DOMAIN then : g[e] = UNION {{x} \union g[x] : x \in then[e]}
  BY <1>1, <1>2
<1>4. g = [e \in DOMAIN then |-> UNION {{x} \union g[x] : x \in then[e]}]
  BY <1>2, <1>3
<1>5. b = [e \in DOMAIN then |-> UNION {{x} \union b[x] : x \in then[e]}]
  BY <1>4, BeyondIs
<1> HIDE DEF b
<1>6. \A e \in DOMAIN then : b[e] = UNION {{x} \union b[x] : x \in then[e]}
  BY <1>5
<1>7. b["e_proj_write"] = {}
  BY <1>1, <1>6
<1>8. b["e_ws_push"] = {}
  BY <1>1, <1>6
<1>9. b["e_proj_consume"] = {"e_proj_write"}
  BY <1>1, <1>6, <1>7
<1>10. b["e_ws_consume"] = {"e_ws_push"}
  BY <1>1, <1>6, <1>8
<1>11. b["e_worker_produce"] = {"e_proj_consume", "e_proj_write", "e_ws_consume", "e_ws_push"}
  BY <1>1, <1>6, <1>9, <1>10
<1> QED BY <1>1, <1>7, <1>8, <1>9, <1>10, <1>11 DEF IsTree, Edge, Depth, b, then

LEMMA StructuralTree == IsTree(StructuralFlow.then, Beyond(StructuralFlow.then), StructuralFlow.first)
<1> DEFINE then == StructuralFlow.then
           b == Beyond(then)
           g == [e_worker_produce |-> {"e_proj_consume", "e_proj_write", "e_proj_ledger", "e_ws_consume", "e_ws_push"},
                e_proj_consume |-> {"e_proj_write", "e_proj_ledger"},
                e_proj_write |-> {"e_proj_ledger"}, e_proj_ledger |-> {},
                e_ws_consume |-> {"e_ws_push"}, e_ws_push |-> {}]
<1>1. /\ DOMAIN then = {"e_worker_produce", "e_proj_consume", "e_proj_write", "e_proj_ledger", "e_ws_consume", "e_ws_push"}
      /\ StructuralFlow.first = "e_worker_produce"
      /\ then["e_worker_produce"] = {"e_proj_consume", "e_ws_consume"}
      /\ then["e_proj_consume"] = {"e_proj_write"}
      /\ then["e_proj_write"] = {"e_proj_ledger"}
      /\ then["e_proj_ledger"] = {}
      /\ then["e_ws_consume"] = {"e_ws_push"}
      /\ then["e_ws_push"] = {}
  BY DEF StructuralFlow
<1>2. /\ DOMAIN g = DOMAIN then /\ g = [e \in DOMAIN g |-> g[e]]
      /\ g["e_worker_produce"] = {"e_proj_consume", "e_proj_write", "e_proj_ledger", "e_ws_consume", "e_ws_push"}
      /\ g["e_proj_consume"] = {"e_proj_write", "e_proj_ledger"}
      /\ g["e_proj_write"] = {"e_proj_ledger"}
      /\ g["e_proj_ledger"] = {}
      /\ g["e_ws_consume"] = {"e_ws_push"}
      /\ g["e_ws_push"] = {}
  BY <1>1
<1> HIDE DEF then, g
<1>3. \A e \in DOMAIN then : g[e] = UNION {{x} \union g[x] : x \in then[e]}
  BY <1>1, <1>2
<1>4. g = [e \in DOMAIN then |-> UNION {{x} \union g[x] : x \in then[e]}]
  BY <1>2, <1>3
<1>5. b = [e \in DOMAIN then |-> UNION {{x} \union b[x] : x \in then[e]}]
  BY <1>4, BeyondIs
<1> HIDE DEF b
<1>6. \A e \in DOMAIN then : b[e] = UNION {{x} \union b[x] : x \in then[e]}
  BY <1>5
<1>7. b["e_proj_ledger"] = {}
  BY <1>1, <1>6
<1>8. b["e_ws_push"] = {}
  BY <1>1, <1>6
<1>9. b["e_proj_write"] = {"e_proj_ledger"}
  BY <1>1, <1>6, <1>7
<1>10. b["e_ws_consume"] = {"e_ws_push"}
  BY <1>1, <1>6, <1>8
<1>11. b["e_proj_consume"] = {"e_proj_write", "e_proj_ledger"}
  BY <1>1, <1>6, <1>9
<1>12. b["e_worker_produce"] = {"e_proj_consume", "e_proj_write", "e_proj_ledger", "e_ws_consume", "e_ws_push"}
  BY <1>1, <1>6, <1>10, <1>11
<1> QED BY <1>1, <1>7, <1>8, <1>9, <1>10, <1>11, <1>12 DEF IsTree, Edge, Depth, b, then

LEMMA FlowsAreTrees ==
  \A f \in DOMAIN Flows : IsTree(Flows[f].then, After[f], Flows[f].first)
<1>1. /\ DOMAIN Flows = {"command", "telemetry", "dead", "event", "structural"}
      /\ Flows["command"] = CommandFlow /\ Flows["telemetry"] = TelemetryFlow
      /\ Flows["dead"] = DeadFlow /\ Flows["event"] = EventFlow
      /\ Flows["structural"] = StructuralFlow
  BY DEF Flows
<1>2. \A f \in DOMAIN Flows : After[f] = Beyond(Flows[f].then)
  BY DEF After
<1> QED BY <1>1, <1>2, CommandTree, TelemetryTree, DeadTree, EventTree, StructuralTree
-----------------------------------------------------------------------------
(* 2. Packets and what is owed.  The hops a packet under way will start    *)
(* are owed once for each of the packets that will.                        *)
Packet == {p \in [flow : DOMAIN Flows, edge : Edge, age : Nat] : p.edge \in DOMAIN Flows[p.flow].then}

Owes(p, y) == y \in After[p.flow][p.edge]
Owing(ps, y) == {i \in DOMAIN ps : Owes(ps[i], y)}
Owed(ps, y) == Cardinality(Owing(ps, y))

Unit(b) == IF b THEN 1 ELSE 0

LEMMA OwedIsNatural ==
  ASSUME NEW T, NEW ps \in Seq(T), NEW y
  PROVE  IsFiniteSet(Owing(ps, y)) /\ Owed(ps, y) \in Nat
<1>1. Len(ps) \in Nat /\ DOMAIN ps = 1 .. Len(ps)
  OBVIOUS
<1>2. IsFiniteSet(1 .. Len(ps))
  BY <1>1, FS_Interval
<1>3. Owing(ps, y) \in SUBSET (1 .. Len(ps))
  BY <1>1 DEF Owing
<1>4. IsFiniteSet(Owing(ps, y))
  BY <1>2, <1>3, FS_Subset
<1> QED BY <1>4, FS_CardinalityType DEF Owed

LEMMA OwedEmpty == \A y : Owed(<< >>, y) = 0
BY FS_EmptySet DEF Owed, Owing

LEMMA OwedAppend ==
  ASSUME NEW T, NEW ps \in Seq(T), NEW p \in T, NEW y
  PROVE  Owed(Append(ps, p), y) = Owed(ps, y) + Unit(Owes(p, y))
<1> DEFINE n == Len(ps)
           qs == Append(ps, p)
<1>1. /\ n \in Nat /\ DOMAIN ps = 1 .. n /\ DOMAIN qs = 1 .. n + 1
      /\ qs[n + 1] = p /\ \A i \in 1 .. n : qs[i] = ps[i]
  OBVIOUS
<1> HIDE DEF n, qs
<1>2. 1 .. n + 1 = (1 .. n) \union {n + 1} /\ n + 1 \notin 1 .. n
  BY <1>1
<1>3. Owing(qs, y) = IF Owes(p, y) THEN Owing(ps, y) \union {n + 1} ELSE Owing(ps, y)
  BY <1>1, <1>2 DEF Owing
<1>4. n + 1 \notin Owing(ps, y)
  BY <1>1, <1>2 DEF Owing
<1>5. IsFiniteSet(Owing(ps, y)) /\ Owed(ps, y) \in Nat
  BY OwedIsNatural
<1>6. Cardinality(Owing(ps, y) \union {n + 1}) = Cardinality(Owing(ps, y)) + 1
  BY <1>4, <1>5, FS_AddElement
<1> QED BY <1>3, <1>5, <1>6 DEF Owed, Unit, qs

LEMMA OwedConcat ==
  ASSUME NEW T, NEW ps \in Seq(T), NEW qs \in Seq(T), NEW y
  PROVE  Owed(ps \o qs, y) = Owed(ps, y) + Owed(qs, y)
<1> DEFINE n == Len(qs)
           First(k) == SubSeq(qs, 1, k)
           P == {k \in 0 .. n : Owed(ps \o First(k), y) = Owed(ps, y) + Owed(First(k), y)}
<1>1. n \in Nat /\ First(0) = << >> /\ ps \o << >> = ps /\ First(n) = qs
  OBVIOUS
<1>2. \A k \in 1 .. n : /\ First(k - 1) \in Seq(T) /\ qs[k] \in T /\ ps \o First(k - 1) \in Seq(T)
                        /\ First(k) = Append(First(k - 1), qs[k])
                        /\ ps \o First(k) = Append(ps \o First(k - 1), qs[k])
  OBVIOUS
<1>3. Owed(ps, y) \in Nat /\ \A k \in 1 .. n : Owed(First(k - 1), y) \in Nat
  BY <1>2, OwedIsNatural
<1> HIDE DEF n, First
<1>4. 0 \in P
  <2>1. Owed(First(0), y) = 0 /\ Owed(ps \o First(0), y) = Owed(ps, y)
    BY <1>1, OwedEmpty
  <2> QED BY <1>1, <1>3, <2>1
<1>5. ASSUME NEW k \in 1 .. n, k - 1 \in P
      PROVE  k \in P
  <2> DEFINE before == First(k - 1)
  <2>1. /\ before \in Seq(T) /\ ps \o before \in Seq(T) /\ qs[k] \in T
        /\ First(k) = Append(before, qs[k]) /\ ps \o First(k) = Append(ps \o before, qs[k])
    BY <1>2
  <2> HIDE DEF before
  <2>2. /\ Owed(Append(before, qs[k]), y) = Owed(before, y) + Unit(Owes(qs[k], y))
        /\ Owed(Append(ps \o before, qs[k]), y) = Owed(ps \o before, y) + Unit(Owes(qs[k], y))
    BY <2>1, OwedAppend, Zenon
  <2>3. Owed(First(k), y) = Owed(First(k - 1), y) + Unit(Owes(qs[k], y))
    BY <2>1, <2>2 DEF before
  <2>4. Owed(ps \o First(k), y) = Owed(ps \o First(k - 1), y) + Unit(Owes(qs[k], y))
    BY <2>1, <2>2 DEF before
  <2>5. Unit(Owes(qs[k], y)) \in Nat
    BY DEF Unit
  <2> QED BY <1>1, <1>3, <1>5, <2>3, <2>4, <2>5
<1> HIDE DEF P
<1>6. n \in P
  <2>1. \A k \in 0 .. n : k \in P
    BY <1>1, <1>4, <1>5, Spawning!InductionUpTo
  <2> QED BY <1>1, <2>1
<1> QED BY <1>1, <1>6 DEF P

LEMMA EdgesAreFinite == IsFiniteSet(Edge)
<1> DEFINE f == <<"e_http", "e_api_produce", "e_cmd_consume", "e_worker_produce", "e_proj_consume",
                  "e_proj_write", "e_proj_ledger", "e_ws_consume", "e_ws_push", "e_dlq",
                  "e_outbox_flush", "e_outbox_produce", "e_tel_consume", "e_tel_produce">>
<1>1. f \in [1 .. 14 -> Edge]
  BY DEF Edge
<1>2. \A e \in Edge : \E i \in 1 .. 14 : f[i] = e
  BY DEF Edge
<1> HIDE DEF f
<1>3. f \in Surjection(1 .. 14, Edge)
  BY <1>1, <1>2 DEF Surjection
<1>4. IsFiniteSet(1 .. 14)
  <2>1. 1 \in Int /\ 14 \in Int
    OBVIOUS
  <2> QED BY <2>1, FS_Interval, Zenon
<1> QED BY <1>3, <1>4, FS_Surjection

(* A finite set as a sequence: each element once. *)
LEMMA SetAsSequence ==
  ASSUME NEW A, IsFiniteSet(A)
  PROVE  LET s == SetToSeq(A)
         IN  /\ s \in Seq(A) /\ \A x \in A : \E i \in DOMAIN s : s[i] = x
             /\ \A i, j \in DOMAIN s : s[i] = s[j] => i = j
<1> DEFINE n == Cardinality(A)
           s == SetToSeq(A)
<1>1. n \in Nat /\ ExistsBijection(1 .. n, A)
  BY FS_CardinalityType
<1>2. \E f \in [1 .. n -> A] : IsInjective(f)
  BY <1>1 DEF ExistsBijection, Bijection, Injection
<1>3. s \in [1 .. n -> A] /\ IsInjective(s)
  BY <1>2, Zenon DEF SetToSeq
<1> HIDE DEF s
<1>4. s \in Injection(1 .. n, A)
  BY <1>3 DEF Injection
<1>5. IsFiniteSet(1 .. n) /\ Cardinality(1 .. n) = n
  BY <1>1, FS_Interval
<1> HIDE DEF n
<1>6. s \in Surjection(1 .. n, A)
  BY <1>4, <1>5, FS_Injection DEF n
<1>7. s \in Seq(A) /\ DOMAIN s = 1 .. n
  BY <1>1, <1>3
<1> QED BY <1>3, <1>6, <1>7 DEF Surjection, IsInjective, s

LEMMA SubsetsAreFinite ==
  ASSUME NEW f \in DOMAIN Flows, NEW edges \in SUBSET (DOMAIN Flows[f].then)
  PROVE  IsFiniteSet(edges) /\ edges \subseteq Edge
<1>1. DOMAIN Flows[f].then \subseteq Edge
  BY FlowsAreTrees DEF IsTree
<1> QED BY <1>1, EdgesAreFinite, FS_Subset

LEMMA HopsAre ==
  ASSUME NEW f \in DOMAIN Flows, NEW edges \in SUBSET (DOMAIN Flows[f].then)
  PROVE  LET s == SetToSeq(Hops(f, edges))
         IN  /\ s \in Seq(Hops(f, edges))
             /\ \A e \in edges : \E i \in DOMAIN s : s[i] = [flow |-> f, edge |-> e]
             /\ \A i, j \in DOMAIN s : s[i] = s[j] => i = j
<1> DEFINE h == [e \in edges |-> [flow |-> f, edge |-> e]]
<1>1. h \in Surjection(edges, Hops(f, edges))
  BY DEF Surjection, Hops
<1>2. IsFiniteSet(Hops(f, edges))
  BY <1>1, SubsetsAreFinite, FS_Surjection
<1>3. \A e \in edges : [flow |-> f, edge |-> e] \in Hops(f, edges)
  BY DEF Hops
<1> QED BY <1>2, <1>3, SetAsSequence

LEMMA PacketsAre ==
  ASSUME NEW f \in DOMAIN Flows, NEW edges \in SUBSET (DOMAIN Flows[f].then)
  PROVE  LET s == Packets(f, edges)
         IN  /\ s \in Seq(Packet)
             /\ \A i \in DOMAIN s : s[i].flow = f /\ s[i].edge \in edges
             /\ \A e \in edges : \E i \in DOMAIN s : s[i].edge = e
             /\ \A i, j \in DOMAIN s : s[i].edge = s[j].edge => i = j
<1> DEFINE A == {[flow |-> f, edge |-> e, age |-> 0] : e \in edges}
           h == [e \in edges |-> [flow |-> f, edge |-> e, age |-> 0]]
           s == Packets(f, edges)
<1>1. IsFiniteSet(edges) /\ edges \subseteq Edge
  BY SubsetsAreFinite
<1>2. h \in Surjection(edges, A)
  BY DEF Surjection
<1>3. IsFiniteSet(A)
  BY <1>1, <1>2, FS_Surjection
<1>4. /\ s \in Seq(A) /\ \A x \in A : \E i \in DOMAIN s : s[i] = x
      /\ \A i, j \in DOMAIN s : s[i] = s[j] => i = j
  BY <1>3, SetAsSequence DEF Packets
<1> HIDE DEF s
<1>5. A \subseteq Packet
  BY <1>1 DEF Packet
<1>6. \A i \in DOMAIN s : s[i] \in A
  BY <1>4
<1>7. \A x \in A : /\ x.flow = f /\ x.edge \in edges
                   /\ x = [flow |-> f, edge |-> x.edge, age |-> 0]
  OBVIOUS
<1>8. s \in Seq(Packet)
  BY <1>4, <1>5
<1>9. \A e \in edges : \E i \in DOMAIN s : s[i].edge = e
  <2> TAKE e \in edges
  <2>1. [flow |-> f, edge |-> e, age |-> 0] \in A
    OBVIOUS
  <2>2. PICK i \in DOMAIN s : s[i] = [flow |-> f, edge |-> e, age |-> 0]
    BY <1>4, <2>1
  <2> QED BY <2>2
<1>10. \A i, j \in DOMAIN s : s[i].edge = s[j].edge => i = j
  <2> HIDE DEF A
  <2> QED BY <1>4, <1>6, <1>7
<1> HIDE DEF A
<1> QED BY <1>6, <1>7, <1>8, <1>9, <1>10 DEF s

(* Of packets on edges of which at most one comes before y, one owes y if  *)
(* there is such an edge.                                                  *)
LEMMA OneOwes ==
  ASSUME NEW f \in DOMAIN Flows, NEW edges \in SUBSET (DOMAIN Flows[f].then), NEW y,
         \A a, b \in edges : y \in After[f][a] /\ y \in After[f][b] => a = b
  PROVE  Owed(Packets(f, edges), y) = Unit(\E e \in edges : y \in After[f][e])
<1> DEFINE s == Packets(f, edges)
<1>1. /\ \A i \in DOMAIN s : s[i].flow = f /\ s[i].edge \in edges
      /\ \A e \in edges : \E i \in DOMAIN s : s[i].edge = e
      /\ \A i, j \in DOMAIN s : s[i].edge = s[j].edge => i = j
  BY PacketsAre
<1> HIDE DEF s
<1>2. Owing(s, y) = {i \in DOMAIN s : y \in After[f][s[i].edge]}
  BY <1>1 DEF Owing, Owes
<1>3. CASE \E e \in edges : y \in After[f][e]
  <2>1. PICK e \in edges : y \in After[f][e]
    BY <1>3
  <2>2. PICK i \in DOMAIN s : s[i].edge = e
    BY <1>1, <2>1
  <2>3. \A j \in DOMAIN s : y \in After[f][s[j].edge] => s[j].edge = e
    BY <1>1, <2>1
  <2>4. Owing(s, y) = {i}
    BY <1>1, <1>2, <2>1, <2>2, <2>3
  <2>5. Cardinality({i}) = 1
    BY FS_Singleton
  <2> QED BY <1>3, <2>4, <2>5 DEF Owed, Unit, s
<1>4. CASE ~\E e \in edges : y \in After[f][e]
  <2>1. Owing(s, y) = {}
    BY <1>1, <1>2, <1>4
  <2> QED BY <1>4, <2>1, FS_EmptySet DEF Owed, Unit, s
<1> QED BY <1>3, <1>4

-----------------------------------------------------------------------------
(* 3. A hop is made, and where a packet cannot travel, those after it.     *)
Traffic == [packets : Seq(Packet), due : [Edge -> Int]]

(* What is due that no packet under way owes. *)
Debt(t, y) == t.due[y] - Owed(t.packets, y)

LEMMA DebtIsInteger ==
  ASSUME NEW t \in Traffic, NEW y \in Edge
  PROVE  Debt(t, y) \in Int /\ t.due[y] \in Int /\ Owed(t.packets, y) \in Nat
<1>1. t.packets \in Seq(Packet) /\ t.due[y] \in Int
  BY DEF Traffic
<1>2. Owed(t.packets, y) \in Nat
  BY <1>1, OwedIsNatural
<1> QED BY <1>1, <1>2 DEF Debt

LEMMA LeastDepth ==
  ASSUME NEW A \in SUBSET Edge, A # {}
  PROVE  \E a \in A : \A b \in A : ~(Depth(b) < Depth(a))
<1> DEFINE D == {Depth(a) : a \in A}
<1>1. \A e \in Edge : Depth(e) \in Nat
  BY DEF Depth, Edge
<1>2. D \in SUBSET Nat /\ D # {}
  BY <1>1
<1>3. PICK d \in D : \A c \in D : d <= c
  BY <1>2, Spawning!Least
<1>4. PICK a \in A : Depth(a) = d
  BY <1>3
<1>5. \A b \in A : Depth(b) \in D /\ Depth(b) \in Nat
  BY <1>1
<1> HIDE DEF D
<1>6. \A b \in A : d <= Depth(b)
  BY <1>3, <1>5
<1>7. d \in Nat
  BY <1>2, <1>3
<1> QED BY <1>4, <1>5, <1>6, <1>7

(* Of the hops of a branch those made are the ones that every hop before   *)
(* lets pass; one that is not made comes after exactly one that is made    *)
(* and travels.                                                            *)
LEMMA MadeOrOwed ==
  ASSUME NEW f \in DOMAIN Flows, NEW e \in DOMAIN Flows[f].then, NEW ps, NEW y
  PROVE  LET made == Made(ps, f, e)
             sent == {x \in made : ~Skips(ps, x)}
         IN  /\ made \subseteq {e} \union After[f][e] /\ made \subseteq DOMAIN Flows[f].then
             /\ \A a, b \in sent : y \in After[f][a] /\ y \in After[f][b] => a = b
             /\ (\E x \in sent : y \in After[f][x]) <=> y \in ({e} \union After[f][e]) \ made
<1> DEFINE branch == {e} \union After[f][e]
           made == Made(ps, f, e)
           sent == {x \in made : ~Skips(ps, x)}
<1>1. made = {x \in branch : \A a \in branch : x \in After[f][a] => Skips(ps, a)}
  BY DEF Made
<1>2. IsTree(Flows[f].then, After[f], Flows[f].first)
  BY FlowsAreTrees
<1>3. /\ branch \subseteq DOMAIN Flows[f].then /\ branch \subseteq Edge
      /\ \A a \in branch : After[f][a] \subseteq branch
      /\ \A a \in branch : \A x \in After[f][a] : After[f][x] \subseteq After[f][a] /\ Depth(a) < Depth(x)
      /\ \A a, b \in branch : y \in After[f][a] /\ y \in After[f][b] =>
           a = b \/ a \in After[f][b] \/ b \in After[f][a]
  BY <1>2 DEF IsTree
<1> HIDE DEF branch, made
<1>4. \A a, b \in sent : y \in After[f][a] /\ y \in After[f][b] => a = b
  BY <1>1, <1>3
<1>5. \A x \in sent : y \in After[f][x] => y \in branch /\ y \notin made
  BY <1>1, <1>3
<1>6. ASSUME y \in branch, y \notin made
      PROVE  \E x \in sent : y \in After[f][x]
  <2> DEFINE A == {a \in branch : y \in After[f][a] /\ ~Skips(ps, a)}
  <2>1. A \in SUBSET Edge /\ A # {}
    BY <1>1, <1>3, <1>6
  <2>2. PICK a \in A : \A b \in A : ~(Depth(b) < Depth(a))
    BY <2>1, LeastDepth
  <2>3. \A b \in branch : a \in After[f][b] => Skips(ps, b)
    BY <1>3, <2>2
  <2>4. a \in made
    BY <1>1, <2>2, <2>3
  <2> QED BY <2>2, <2>4
<1>7. made \subseteq branch
  BY <1>1
<1>8. (\E x \in sent : y \in After[f][x]) <=> y \in branch \ made
  BY <1>5, <1>6
<1> QED BY <1>3, <1>4, <1>7, <1>8 DEF branch, made

(* So a hop that is made lowers the debt of its whole branch by one. *)
LEMMA HopPaysDebt ==
  ASSUME NEW t \in Traffic, NEW f \in DOMAIN Flows, NEW e \in DOMAIN Flows[f].then
  PROVE  /\ WithHop(t, f, e) \in Traffic
         /\ \A y \in Edge : Debt(WithHop(t, f, e), y)
                              = Debt(t, y) - Unit(y \in {e} \union After[f][e])
<1> DEFINE made == Made(t.packets, f, e)
           sent == {x \in made : ~Skips(t.packets, x)}
           new == Packets(f, sent)
           u == WithHop(t, f, e)
<1>1. /\ u.packets = t.packets \o new
      /\ u.due = [x \in Edge |-> t.due[x] - (IF x \in made THEN 1 ELSE 0)]
      /\ u = [packets |-> u.packets, due |-> u.due]
  BY DEF WithHop
<1>2. sent \in SUBSET (DOMAIN Flows[f].then)
  BY MadeOrOwed
<1>3. new \in Seq(Packet) /\ t.packets \in Seq(Packet) /\ \A x \in Edge : t.due[x] \in Int
  BY <1>2, PacketsAre DEF Traffic
<1> HIDE DEF new, u
<1>4. u \in Traffic
  <2> HIDE DEF made
  <2>1. u.packets \in Seq(Packet)
    BY <1>1, <1>3
  <2>2. u.due \in [Edge -> Int]
    BY <1>1, <1>3
  <2>3. \A p \in Seq(Packet), d \in [Edge -> Int] : [packets |-> p, due |-> d] \in Traffic
    BY DEF Traffic
  <2> QED BY <1>1, <2>1, <2>2, <2>3
<1>5. ASSUME NEW y \in Edge
      PROVE  Debt(u, y) = Debt(t, y) - Unit(y \in {e} \union After[f][e])
  <2>1. Owed(new, y) = Unit(\E x \in sent : y \in After[f][x])
    <3>1. \A a, b \in sent : y \in After[f][a] /\ y \in After[f][b] => a = b
      BY MadeOrOwed
    <3> HIDE DEF sent
    <3> QED BY <1>2, <3>1, OneOwes DEF new
  <2>2. /\ (\E x \in sent : y \in After[f][x]) <=> y \in ({e} \union After[f][e]) \ made
        /\ made \subseteq {e} \union After[f][e]
    BY MadeOrOwed
  <2>3. Owed(u.packets, y) = Owed(t.packets, y) + Owed(new, y)
    BY <1>1, <1>3, OwedConcat
  <2>4. u.due[y] = t.due[y] - Unit(y \in made)
    BY <1>1 DEF Unit
  <2>5. t.due[y] \in Int /\ Owed(t.packets, y) \in Nat
    BY DebtIsInteger
  <2> HIDE DEF made, sent
  <2>6. Unit(y \in made) + Owed(new, y) = Unit(y \in {e} \union After[f][e])
    BY <2>1, <2>2 DEF Unit
  <2>7. Unit(y \in made) \in Nat /\ Unit(y \in {e} \union After[f][e]) \in Nat /\ Owed(new, y) \in Nat
    BY <2>1 DEF Unit
  <2> HIDE DEF u
  <2> QED BY <2>3, <2>4, <2>5, <2>6, <2>7 DEF Debt
<1> QED BY <1>4, <1>5 DEF u

-----------------------------------------------------------------------------
(* 4. What the engine does.  d is what is due and not owed of each hop.    *)
LoopType == [raf : BOOLEAN, frames : Nat]
Engine == [traffic : Traffic, glow : Nat, loop : LoopType, since : Nat, buffering : Nat,
           connection : {"connecting", "closed"}]

(* The engines with this loop and these debts. *)
Running(loop, d) ==
  {g \in Engine : g.loop = loop /\ \A y \in Edge : Debt(g.traffic, y) = d[y]}

LEMMA Limits ==
  /\ NodeGlow \in Nat /\ EdgeGlow \in Nat /\ Coalesce \in Nat /\ MaxFresh \in Nat
  /\ \A e \in Edge : Dur[e] \in Nat
BY LimitsAssumption, DurAssumption

LEMMA MaxOfTwo == \A a, b \in Nat : Max({a, b}) \in Nat
<1> TAKE a, b \in Nat
<1>1. \E x \in {a, b} : \A y \in {a, b} : x >= y
  OBVIOUS
<1> QED BY <1>1 DEF Max

LEMMA Bumps ==
  ASSUME NEW g \in Engine
  PROVE  /\ BumpNode(g) \in Engine /\ BumpEdge(g) \in Engine
         /\ BumpNode(g).loop = Ensure(g.loop) /\ BumpEdge(g).loop = Ensure(g.loop)
         /\ BumpNode(g).traffic = g.traffic /\ BumpEdge(g).traffic = g.traffic
<1>1. g.loop \in LoopType /\ g.glow \in Nat
  BY DEF Engine
<1>2. Ensure(g.loop) \in LoopType
  BY <1>1 DEF Ensure, LoopType
<1>3. Max({g.glow, NodeGlow}) \in Nat /\ Max({g.glow, EdgeGlow}) \in Nat
  BY <1>1, Limits, MaxOfTwo
<1> QED BY <1>2, <1>3 DEF BumpNode, BumpEdge, Engine

LEMMA EnsureOnce == \A l \in LoopType : Ensure(l).raf /\ Ensure(Ensure(l)) = Ensure(l)
BY DEF Ensure, LoopType

LEMMA SpawnRuns ==
  ASSUME NEW loop, loop.raf, NEW d, NEW g \in Running(loop, d),
         NEW f \in DOMAIN Flows, NEW e \in DOMAIN Flows[f].then
  PROVE  Spawn(g, [flow |-> f, edge |-> e])
           \in Running(loop, [y \in Edge |-> d[y] - Unit(y \in {e} \union After[f][e])])
<1> DEFINE h == Spawn(g, [flow |-> f, edge |-> e])
           b == BumpEdge(g)
<1>1. g \in Engine /\ g.loop = loop /\ \A y \in Edge : Debt(g.traffic, y) = d[y]
  BY DEF Running
<1>2. b \in Engine /\ b.loop = Ensure(loop) /\ b.traffic = g.traffic
  BY <1>1, Bumps
<1>3. Ensure(loop) = loop
  BY DEF Ensure
<1>4. h = [b EXCEPT !.traffic = WithHop(@, f, e)]
  BY DEF Spawn
<1> HIDE DEF b, h
<1>5. g.traffic \in Traffic
  BY <1>1 DEF Engine
<1>6. WithHop(g.traffic, f, e) \in Traffic
  BY <1>5, HopPaysDebt
<1>7. h \in Engine /\ h.loop = loop /\ h.traffic = WithHop(g.traffic, f, e)
  BY <1>2, <1>3, <1>4, <1>6 DEF Engine
<1>8. \A y \in Edge : Debt(h.traffic, y) = d[y] - Unit(y \in {e} \union After[f][e])
  BY <1>1, <1>5, <1>7, HopPaysDebt
<1> QED BY <1>7, <1>8 DEF Running, h

(* A cascade that starts is due as a whole and pays as a whole. *)
LEMMA StartRuns ==
  ASSUME NEW loop, loop.raf, NEW d, NEW g \in Running(loop, d), NEW f \in DOMAIN Flows
  PROVE  Start(g, f) \in Running(loop, d)
<1> DEFINE then == Flows[f].then
           h == [g EXCEPT !.traffic.due = [e \in Edge |-> @[e] + (IF e \in DOMAIN then THEN 1 ELSE 0)]]
           c == [y \in Edge |-> d[y] + Unit(y \in DOMAIN then)]
<1>1. g \in Engine /\ g.loop = loop /\ \A y \in Edge : Debt(g.traffic, y) = d[y]
  BY DEF Running
<1>2. g.traffic \in Traffic
  BY <1>1 DEF Engine
<1>3. /\ h \in Engine /\ h.loop = loop /\ h.traffic.packets = g.traffic.packets
      /\ \A y \in Edge : h.traffic.due[y] = g.traffic.due[y] + Unit(y \in DOMAIN then)
  <2>1. h.traffic.due \in [Edge -> Int] /\ g.traffic.packets \in Seq(Packet)
    BY <1>1, <1>2, SMTT(60) DEF Traffic, Engine
  <2> QED BY <1>1, <1>2, <2>1 DEF Engine, Traffic, Unit
<1>4. IsTree(then, After[f], Flows[f].first)
  BY FlowsAreTrees
<1>5. Flows[f].first \in DOMAIN then /\ DOMAIN then = {Flows[f].first} \union After[f][Flows[f].first]
  BY <1>4 DEF IsTree
<1>6. Start(g, f) = Spawn(h, [flow |-> f, edge |-> Flows[f].first])
  BY Zenon DEF Start
<1> HIDE DEF h
<1>7. \A y \in Edge : Debt(h.traffic, y) = c[y] /\ c[y] - Unit(y \in DOMAIN then) = d[y]
  <2> TAKE y \in Edge
  <2>1. Debt(g.traffic, y) \in Int /\ g.traffic.due[y] \in Int /\ Owed(g.traffic.packets, y) \in Nat
    BY <1>2, DebtIsInteger
  <2>2. Unit(y \in DOMAIN then) \in Int
    BY DEF Unit
  <2> HIDE DEF then
  <2> QED BY <1>1, <1>3, <2>1, <2>2 DEF Debt
<1>8. h \in Running(loop, c)
  BY <1>3, <1>7 DEF Running
<1>9. Start(g, f) \in Running(loop, [y \in Edge |-> c[y] - Unit(y \in DOMAIN then)])
  <2> HIDE DEF c
  <2> QED BY <1>5, <1>6, <1>8, SpawnRuns
<1>10. \A x \in Running(loop, [y \in Edge |-> c[y] - Unit(y \in DOMAIN then)]) : x \in Running(loop, d)
  <2> HIDE DEF c
  <2> QED BY <1>7 DEF Running
<1> QED BY <1>9, <1>10

(* The hops after a landed packet are of disjoint branches.                *)
LEMMA LandRuns ==
  ASSUME NEW loop \in LoopType, loop.raf, NEW d, NEW g \in Running(loop, d), NEW p \in Packet,
         \A y \in Edge : d[y] \in Int
  PROVE  Land(g, p) \in Running(loop, [y \in Edge |-> d[y] - Unit(Owes(p, y))])
<1> DEFINE f == p.flow
           kids == Flows[f].then[p.edge]
           s == SetToSeq(Hops(f, kids))
           b == BumpNode(BumpEdge(g))
           Past(i, y) == \E j \in 1 .. i : y = s[j].edge \/ y \in After[f][s[j].edge]
           R(i) == Running(loop, [y \in Edge |-> d[y] - Unit(Past(i, y))])
           Q1 == {<<i, x>> : i \in Nat, x \in Engine}
           Q2 == {q \in Q1 : q[2] \in R(q[1])}
<1>1. f \in DOMAIN Flows /\ p.edge \in DOMAIN Flows[f].then
  BY DEF Packet
<1>2. IsTree(Flows[f].then, After[f], Flows[f].first)
  BY <1>1, FlowsAreTrees
<1>3. /\ kids \in SUBSET (DOMAIN Flows[f].then)
      /\ \A k \in kids : k \in After[f][p.edge] /\ After[f][k] \subseteq After[f][p.edge]
      /\ \A y \in After[f][p.edge] : \E k \in kids : y = k \/ y \in After[f][k]
      /\ \A k, l \in kids : k # l => k \notin After[f][l] /\ After[f][k] \intersect After[f][l] = {}
  <2> HIDE DEF f
  <2> QED BY <1>1, <1>2, Zenon DEF IsTree
<1> HIDE DEF f, kids
<1>4. /\ s \in Seq(Hops(f, kids))
      /\ \A e \in kids : \E i \in DOMAIN s : s[i] = [flow |-> f, edge |-> e]
      /\ \A i, j \in DOMAIN s : s[i] = s[j] => i = j
  BY <1>1, <1>3, HopsAre
<1> HIDE DEF s
<1>5. /\ Len(s) \in Nat /\ DOMAIN s = 1 .. Len(s)
      /\ \A i \in 1 .. Len(s) : s[i].edge \in kids /\ s[i] = [flow |-> f, edge |-> s[i].edge]
  <2>1. Len(s) \in Nat /\ DOMAIN s = 1 .. Len(s) /\ \A i \in 1 .. Len(s) : s[i] \in Hops(f, kids)
    BY <1>4
  <2>2. \A h \in Hops(f, kids) : h.edge \in kids /\ h = [flow |-> f, edge |-> h.edge]
    BY DEF Hops
  <2> QED BY <2>1, <2>2
<1>6. \A i, j \in 1 .. Len(s) : s[i].edge = s[j].edge => i = j
  BY <1>4, <1>5
<1>7. b \in R(0)
  <2>1. g \in Engine /\ g.loop = loop /\ \A y \in Edge : Debt(g.traffic, y) = d[y]
    BY DEF Running
  <2>2. BumpEdge(g) \in Engine /\ BumpEdge(g).loop = Ensure(loop) /\ BumpEdge(g).traffic = g.traffic
    BY <2>1, Bumps
  <2>3. b \in Engine /\ b.loop = Ensure(Ensure(loop)) /\ b.traffic = g.traffic
    BY <2>2, Bumps
  <2>4. Ensure(Ensure(loop)) = loop
    BY DEF Ensure
  <2>5. \A y \in Edge : Unit(Past(0, y)) = 0
    BY DEF Unit
  <2> HIDE DEF b, Past
  <2>6. \A y \in Edge : d[y] - 0 = d[y]
    OBVIOUS
  <2> QED BY <2>1, <2>3, <2>4, <2>5, <2>6 DEF Running
<1>8. ASSUME NEW i \in 1 .. Len(s), NEW x \in R(i - 1)
      PROVE  Spawn(x, s[i]) \in R(i)
  <2> DEFINE e == s[i].edge
             c == [y \in Edge |-> d[y] - Unit(Past(i - 1, y))]
  <2>1. s[i] = [flow |-> f, edge |-> e] /\ e \in DOMAIN Flows[f].then
    BY <1>3, <1>5
  <2>2. Spawn(x, s[i]) \in Running(loop, [y \in Edge |-> c[y] - Unit(y \in {e} \union After[f][e])])
    <3> HIDE DEF c, e
    <3>1. x \in Running(loop, c)
      BY DEF c
    <3> QED BY <1>1, <2>1, <3>1, SpawnRuns
  <2>3. ASSUME NEW y \in Edge
        PROVE  c[y] - Unit(y \in {e} \union After[f][e]) = d[y] - Unit(Past(i, y))
    <3>1. i \in Nat /\ \A j \in 1 .. i : j \in 1 .. i - 1 \/ j = i
      BY <1>5
    <3>2. \A j \in 1 .. i - 1 : j \in 1 .. i /\ j \in 1 .. Len(s) /\ j # i /\ i \in 1 .. i
      BY <1>5
    <3>3. i \in 1 .. i
      BY <3>1
    <3>4. Past(i, y) <=> Past(i - 1, y) \/ y \in {e} \union After[f][e]
      BY <3>1, <3>2, <3>3
    <3>5. ~(Past(i - 1, y) /\ y \in {e} \union After[f][e])
      <4> SUFFICES ASSUME NEW j \in 1 .. i - 1, y = s[j].edge \/ y \in After[f][s[j].edge],
                          y = e \/ y \in After[f][e]
                   PROVE  FALSE
        OBVIOUS
      <4>1. j \in 1 .. Len(s) /\ j # i
        BY <3>2
      <4>2. s[j].edge # e /\ s[j].edge \in kids /\ e \in kids
        BY <1>5, <1>6, <4>1
      <4> HIDE DEF e
      <4> QED BY <1>3, <4>2
    <3> HIDE DEF Past, e
    <3>6. c[y] = d[y] - Unit(Past(i - 1, y)) /\ d[y] \in Int
      OBVIOUS
    <3> HIDE DEF c
    <3> QED BY <3>4, <3>5, <3>6 DEF Unit
  <2> HIDE DEF c, e, Past
  <2> QED BY <2>2, <2>3 DEF Running
<1> HIDE DEF R
<1>9. \A i \in 1 .. Len(s) : \A x : <<i - 1, x>> \in Q2 => <<i, Spawn(x, s[i])>> \in Q2
  <2> SUFFICES ASSUME NEW i \in 1 .. Len(s), NEW x, <<i - 1, x>> \in Q2
               PROVE  <<i, Spawn(x, s[i])>> \in Q2
    OBVIOUS
  <2>1. x \in R(i - 1)
    OBVIOUS
  <2>2. Spawn(x, s[i]) \in R(i)
    BY <1>8, <2>1
  <2>3. i \in Nat /\ Spawn(x, s[i]) \in Engine
    BY <1>5, <2>2 DEF R, Running
  <2> QED BY <2>2, <2>3
<1>10. <<0, b>> \in Q2
  <2>1. b \in Engine
    BY <1>7 DEF R, Running
  <2> HIDE DEF b
  <2> QED BY <1>7, <2>1
<1>11. <<Len(s), Spawning!Fold(b, s)>> \in Q2
  <2> HIDE DEF Q2, b
  <2> QED BY <1>4, <1>9, <1>10, Spawning!FoldReaches
<1>12. Land(g, p) = Spawning!Fold(b, s)
  <2>1. Land(g, p) = FoldLeft(Spawn, b, s)
    BY Zenon DEF Land, f, kids, s
  <2> HIDE DEF b
  <2>2. Spawning!LeftFold(b, s) = Spawning!Fold(b, s)
    BY <1>4, Spawning!LeftFoldIsFold
  <2>3. Spawning!LeftFold(b, s) = FoldLeft(Spawn, b, s)
    BY Zenon DEF FoldLeft, MapThenFoldSet, Max, Spawning!LeftFold, Spawning!Greatest
  <2> QED BY <2>1, <2>2, <2>3
<1>13. Land(g, p) \in R(Len(s))
  <2> HIDE DEF b
  <2> QED BY <1>11, <1>12
<1>14. \A y \in Edge : Unit(Past(Len(s), y)) = Unit(Owes(p, y))
  <2> SUFFICES ASSUME NEW y \in Edge PROVE Past(Len(s), y) <=> Owes(p, y)
    BY DEF Unit
  <2>1. ASSUME Past(Len(s), y) PROVE Owes(p, y)
    BY <1>3, <1>5, <2>1 DEF Owes, f
  <2>2. ASSUME Owes(p, y) PROVE Past(Len(s), y)
    <3>1. PICK k \in kids : y = k \/ y \in After[f][k]
      BY <1>3, <2>2 DEF Owes, f
    <3>2. PICK j \in DOMAIN s : s[j] = [flow |-> f, edge |-> k]
      BY <1>4
    <3>3. s[j].edge = k /\ j \in 1 .. Len(s)
      BY <1>5, <3>2
    <3> QED BY <3>1, <3>3
  <2> QED BY <2>1, <2>2
<1> HIDE DEF Past
<1> QED BY <1>13, <1>14 DEF R, Running

LEMMA PartedIs ==
  ASSUME NEW ps \in Seq(Packet)
  PROVE  /\ Parted(ps).done \in Seq(Packet) /\ Parted(ps).packets \in Seq(Packet)
         /\ \A y : Owed(Parted(ps).done, y) + Owed(Parted(ps).packets, y) = Owed(ps, y)
<1> DEFINE First(k) == SubSeq(ps, 1, k)
           Parts == [done : Seq(Packet), packets : Seq(Packet)]
           none == [done |-> << >>, packets |-> << >>]
           Whole(k, x) == \A y : Owed(x.done, y) + Owed(x.packets, y) = Owed(First(k), y)
           Q1 == {<<i, x>> : i \in Nat, x \in Parts}
           Q2 == {q \in Q1 : Whole(q[1], q[2])}
<1>1. Len(ps) \in Nat /\ First(0) = << >> /\ First(Len(ps)) = ps
  OBVIOUS
<1>2. \A k \in 1 .. Len(ps) : /\ First(k - 1) \in Seq(Packet) /\ ps[k] \in Packet
                              /\ First(k) = Append(First(k - 1), ps[k])
  OBVIOUS
<1> HIDE DEF First
<1>3. <<0, none>> \in Q2
  <2>1. Whole(0, none)
    BY <1>1, OwedEmpty
  <2>2. none \in Parts
    OBVIOUS
  <2> HIDE DEF Whole, none
  <2> QED BY <2>1, <2>2
<1>4. ASSUME NEW k \in 1 .. Len(ps), NEW x \in Parts, Whole(k - 1, x)
      PROVE  Part(x, ps[k]) \in Parts /\ Whole(k, Part(x, ps[k]))
  <2> DEFINE p == ps[k]
             z == Part(x, p)
  <2>1. x.done \in Seq(Packet) /\ x.packets \in Seq(Packet) /\ p \in Packet
    BY <1>2
  <2>2. \A y : Owed(First(k), y) = Owed(First(k - 1), y) + Unit(Owes(p, y))
    <3>1. First(k - 1) \in Seq(Packet) /\ First(k) = Append(First(k - 1), p)
      BY <1>2
    <3>2. \A y : Owed(Append(First(k - 1), p), y) = Owed(First(k - 1), y) + Unit(Owes(p, y))
      BY <2>1, <3>1, OwedAppend, Zenon
    <3> QED BY <3>1, <3>2, Zenon
  <2>3. \A y : /\ Owed(x.done, y) \in Nat /\ Owed(x.packets, y) \in Nat /\ Unit(Owes(p, y)) \in Nat
               /\ Owed(First(k - 1), y) \in Nat
    BY <1>2, <2>1, OwedIsNatural DEF Unit
  <2>4. CASE Landed(p)
    <3>1. z = [done |-> <<p>> \o x.done, packets |-> x.packets]
      BY <2>4 DEF Part
    <3>2. <<p>> \in Seq(Packet) /\ <<p>> \o x.done \in Seq(Packet) /\ <<p>> = Append(<< >>, p)
      BY <2>1
    <3>3. \A y : Owed(<<p>>, y) = Owed(<< >>, y) + Unit(Owes(p, y))
      <4>1. << >> \in Seq(Packet)
        OBVIOUS
      <4> QED BY <2>1, <3>2, <4>1, OwedAppend, ZenonT(60)
    <3>4. \A y : Owed(<<p>> \o x.done, y) = Owed(<<p>>, y) + Owed(x.done, y)
      BY <2>1, <3>2, OwedConcat
    <3>5. \A y : Owed(<<p>> \o x.done, y) = Unit(Owes(p, y)) + Owed(x.done, y)
      BY <2>3, <3>3, <3>4, OwedEmpty, SMTT(60)
    <3> HIDE DEF p, z
    <3>6. ASSUME NEW y
          PROVE  Owed(z.done, y) + Owed(z.packets, y) = Owed(First(k), y)
      <4>1. Owed(z.done, y) = Unit(Owes(p, y)) + Owed(x.done, y) /\ z.packets = x.packets
        BY <3>1, <3>5
      <4>2. Owed(x.done, y) + Owed(x.packets, y) = Owed(First(k - 1), y)
        BY <1>4
      <4> QED BY <2>2, <2>3, <4>1, <4>2
    <3>7. Whole(k, z)
      BY <3>6
    <3> QED BY <2>1, <3>1, <3>2, <3>7 DEF p, z
  <2>5. CASE ~Landed(p)
    <3>1. z = [done |-> x.done, packets |-> Append(x.packets, p)]
      BY <2>5 DEF Part
    <3>2. Append(x.packets, p) \in Seq(Packet)
      BY <2>1
    <3>3. \A y : Owed(Append(x.packets, p), y) = Owed(x.packets, y) + Unit(Owes(p, y))
      BY <2>1, OwedAppend
    <3> HIDE DEF p, z
    <3>4. Whole(k, z)
      BY <1>4, <2>2, <2>3, <3>1, <3>3
    <3> QED BY <2>1, <3>1, <3>2, <3>4 DEF p, z
  <2> QED BY <2>4, <2>5
<1> HIDE DEF Whole
<1>5. \A k \in 1 .. Len(ps) : \A x : <<k - 1, x>> \in Q2 => <<k, Part(x, ps[k])>> \in Q2
  <2> HIDE DEF Parts
  <2> SUFFICES ASSUME NEW k \in 1 .. Len(ps), NEW x, <<k - 1, x>> \in Q2
               PROVE  <<k, Part(x, ps[k])>> \in Q2
    OBVIOUS
  <2>1. x \in Parts /\ Whole(k - 1, x)
    OBVIOUS
  <2>2. k \in Nat
    BY <1>1
  <2> QED BY <1>4, <2>1, <2>2
<1>6. <<Len(ps), Parting!Fold(none, ps)>> \in Q2
  <2> HIDE DEF Q2, none
  <2> QED BY <1>3, <1>5, Parting!FoldReaches
<1>7. Parted(ps) = Parting!Fold(none, ps)
  <2>1. Parted(ps) = FoldLeft(Part, none, ps)
    BY Zenon DEF Parted
  <2> HIDE DEF none
  <2>2. Parting!LeftFold(none, ps) = Parting!Fold(none, ps)
    BY Parting!LeftFoldIsFold
  <2>3. Parting!LeftFold(none, ps) = FoldLeft(Part, none, ps)
    BY Zenon DEF FoldLeft, MapThenFoldSet, Max, Parting!LeftFold, Parting!Greatest
  <2> QED BY <2>1, <2>2, <2>3
<1>8. Parted(ps) \in Parts /\ Whole(Len(ps), Parted(ps))
  <2> HIDE DEF none, Parts
  <2> QED BY <1>6, <1>7
<1> QED BY <1>1, <1>8 DEF Whole

(* The landed packets pay, one by one, what they no longer owe. *)
LEMMA LandingsRun ==
  ASSUME NEW loop \in LoopType, loop.raf, NEW d, \A y \in Edge : d[y] \in Int,
         NEW g \in Running(loop, d)
  PROVE  /\ Landings(g, Done(g)) \in Running(loop, d)
         /\ Done(g) \in Seq(Packet)
<1> DEFINE ps == g.traffic.packets
           done == Done(g)
           h == [g EXCEPT !.traffic.packets = Parted(@).packets]
           First(k) == SubSeq(done, 1, k)
           D(k) == [y \in Edge |-> d[y] + Owed(done, y) - Owed(First(k), y)]
           R(k) == Running(loop, D(k))
           Q1 == {<<i, x>> : i \in Nat, x \in Engine}
           Q2 == {q \in Q1 : q[2] \in R(q[1])}
<1>1. g \in Engine /\ g.loop = loop /\ \A y \in Edge : Debt(g.traffic, y) = d[y]
  BY DEF Running
<1>2. g.traffic \in Traffic /\ ps \in Seq(Packet)
  BY <1>1 DEF Engine, Traffic
<1>3. /\ done \in Seq(Packet) /\ Parted(ps).packets \in Seq(Packet)
      /\ \A y : Owed(done, y) + Owed(Parted(ps).packets, y) = Owed(ps, y)
  BY <1>2, PartedIs DEF Done
<1>4. /\ h \in Engine /\ h.loop = loop
      /\ h.traffic.packets = Parted(ps).packets /\ h.traffic.due = g.traffic.due
  BY <1>1, <1>2, <1>3 DEF Engine, Traffic
<1> HIDE DEF h, done
<1>5. Len(done) \in Nat /\ First(0) = << >> /\ First(Len(done)) = done
  BY <1>3
<1>6. \A k \in 1 .. Len(done) :
        /\ First(k - 1) \in Seq(Packet) /\ done[k] \in Packet
        /\ First(k) = Append(First(k - 1), done[k])
  BY <1>3
<1>7. \A y : Owed(done, y) \in Nat /\ Owed(ps, y) \in Nat /\ Owed(Parted(ps).packets, y) \in Nat
  BY <1>2, <1>3, OwedIsNatural
<1> HIDE DEF First
<1>8. h \in R(0)
  <2>1. ASSUME NEW y \in Edge PROVE Debt(h.traffic, y) = D(0)[y]
    <3>1. D(0)[y] = d[y] + Owed(done, y) - 0
      BY <1>5, OwedEmpty
    <3>2. g.traffic.due[y] \in Int
      BY <1>2, DebtIsInteger
    <3>3. d[y] = g.traffic.due[y] - Owed(ps, y)
      BY <1>1 DEF Debt
    <3>4. Debt(h.traffic, y) = g.traffic.due[y] - Owed(Parted(ps).packets, y)
      BY <1>4 DEF Debt
    <3> HIDE DEF D, ps
    <3> QED BY <1>3, <1>7, <3>1, <3>2, <3>3, <3>4
  <2> HIDE DEF D
  <2> QED BY <1>4, <2>1 DEF Running
<1>9. ASSUME NEW k \in 1 .. Len(done), NEW x \in R(k - 1)
      PROVE  Land(x, done[k]) \in R(k)
  <2>1. \A y \in Edge : /\ D(k - 1)[y] \in Int
                        /\ D(k - 1)[y] - Unit(Owes(done[k], y)) = D(k)[y]
    <3> TAKE y \in Edge
    <3>1. Owed(First(k), y) = Owed(First(k - 1), y) + Unit(Owes(done[k], y))
      <4>1. First(k - 1) \in Seq(Packet) /\ done[k] \in Packet
            /\ First(k) = Append(First(k - 1), done[k])
        BY <1>6
      <4> QED BY <4>1, OwedAppend, ZenonT(60)
    <3>2. /\ Owed(First(k - 1), y) \in Nat /\ Unit(Owes(done[k], y)) \in Nat
          /\ d[y] \in Int /\ Owed(done, y) \in Nat
      BY <1>6, <1>7, OwedIsNatural DEF Unit
    <3>3. /\ D(k)[y] = d[y] + Owed(done, y) - Owed(First(k), y)
          /\ D(k - 1)[y] = d[y] + Owed(done, y) - Owed(First(k - 1), y)
      OBVIOUS
    <3> HIDE DEF D
    <3> QED BY <3>1, <3>2, <3>3
  <2> HIDE DEF D
  <2>2. Land(x, done[k]) \in Running(loop, [y \in Edge |-> D(k - 1)[y] - Unit(Owes(done[k], y))])
    BY <1>6, <2>1, LandRuns
  <2> QED BY <2>1, <2>2 DEF Running
<1> HIDE DEF R
<1>10. <<0, h>> \in Q2
  BY <1>4, <1>8
<1>11. \A k \in 1 .. Len(done) : \A x : <<k - 1, x>> \in Q2 => <<k, Land(x, done[k])>> \in Q2
  <2> SUFFICES ASSUME NEW k \in 1 .. Len(done), NEW x, <<k - 1, x>> \in Q2
               PROVE  <<k, Land(x, done[k])>> \in Q2
    OBVIOUS
  <2>1. x \in R(k - 1)
    OBVIOUS
  <2>2. Land(x, done[k]) \in R(k)
    BY <1>9, <2>1
  <2>3. k \in Nat /\ Land(x, done[k]) \in Engine
    BY <1>5, <2>2 DEF R, Running
  <2> QED BY <2>2, <2>3
<1>12. <<Len(done), Landing!Fold(h, done)>> \in Q2
  <2> HIDE DEF Q2
  <2> QED BY <1>3, <1>10, <1>11, Landing!FoldReaches
<1>13. Landings(g, done) = Landing!Fold(h, done)
  <2>1. Landings(g, done) = FoldLeft(Land, h, done)
    BY Zenon DEF Landings, h
  <2>2. Landing!LeftFold(h, done) = Landing!Fold(h, done)
    BY <1>3, Landing!LeftFoldIsFold
  <2>3. Landing!LeftFold(h, done) = FoldLeft(Land, h, done)
    BY Zenon DEF FoldLeft, MapThenFoldSet, Max, Landing!LeftFold, Landing!Greatest
  <2> QED BY <2>1, <2>2, <2>3
<1>14. Landings(g, done) \in R(Len(done))
  BY <1>12, <1>13
<1>15. \A y \in Edge : D(Len(done))[y] = d[y]
  <2> TAKE y \in Edge
  <2>1. D(Len(done))[y] = d[y] + Owed(done, y) - Owed(done, y)
    BY <1>5
  <2>2. d[y] \in Int /\ Owed(done, y) \in Nat
    BY <1>7
  <2> HIDE DEF D
  <2> QED BY <2>1, <2>2
<1> HIDE DEF D
<1> QED BY <1>3, <1>14, <1>15 DEF R, Running, done

-----------------------------------------------------------------------------
(* 5. The steps *)
(* One frame is requested if the engine believes so, and nothing is due    *)
(* that no packet will make.                                               *)
Paid(g) ==
  /\ g \in Engine /\ g.loop.frames = Unit(g.loop.raf)
  /\ \A y \in Edge : Debt(g.traffic, y) = 0

(* A frame is coming while there is something to animate. *)
Lit(g) == g.traffic.packets # << >> \/ g.glow > 0 => g.loop.raf

Lively == {g \in Engine : Paid(g) /\ Lit(g)}

EngineInvariant ==
  /\ Paid(engine) /\ mounted \in BOOLEAN
  /\ IF mounted THEN Lit(engine) ELSE ~engine.loop.raf

Nothing == [y \in Edge |-> 0]

(* What runs with one frame coming and nothing unpaid is lively. *)
LEMMA RunningIsLively ==
  ASSUME NEW loop \in LoopType, loop.frames = Unit(loop.raf), NEW g \in Running(Ensure(loop), Nothing)
  PROVE  g \in Lively
<1>1. Ensure(loop).raf /\ Ensure(loop).frames = 1
  BY DEF Ensure, LoopType, Unit
<1>2. g \in Engine /\ g.loop = Ensure(loop) /\ \A y \in Edge : Debt(g.traffic, y) = 0
  BY DEF Running, Nothing
<1> QED BY <1>1, <1>2 DEF Lively, Paid, Lit, Unit

LEMMA BumpsRun ==
  ASSUME NEW g \in Engine, \A y \in Edge : Debt(g.traffic, y) = 0
  PROVE  /\ BumpNode(g) \in Running(Ensure(g.loop), Nothing)
         /\ BumpEdge(BumpNode(g)) \in Running(Ensure(g.loop), Nothing)
<1>1. g.loop \in LoopType
  BY DEF Engine
<1>2. /\ BumpNode(g) \in Engine /\ BumpNode(g).loop = Ensure(g.loop)
      /\ BumpNode(g).traffic = g.traffic
  BY Bumps
<1>3. /\ BumpEdge(BumpNode(g)) \in Engine /\ BumpEdge(BumpNode(g)).loop = Ensure(Ensure(g.loop))
      /\ BumpEdge(BumpNode(g)).traffic = g.traffic
  BY <1>2, Bumps
<1>4. Ensure(Ensure(g.loop)) = Ensure(g.loop)
  BY <1>1, EnsureOnce
<1> QED BY <1>2, <1>3, <1>4 DEF Running, Nothing

LEMMA CommandKeeps ==
  ASSUME NEW g \in Lively
  PROVE  Command(g) \in Lively
<1>1. /\ g \in Engine /\ g.loop.frames = Unit(g.loop.raf) /\ g.loop \in LoopType
      /\ \A y \in Edge : Debt(g.traffic, y) = 0
  BY DEF Lively, Paid, Engine
<1>2. CASE g.connection = "closed"
  BY <1>2 DEF Command
<1>3. CASE g.connection # "closed"
  <2>1. BumpNode(g) \in Running(Ensure(g.loop), Nothing)
    BY <1>1, BumpsRun
  <2>2. Ensure(g.loop).raf /\ "command" \in DOMAIN Flows
    BY <1>1, EnsureOnce DEF Flows
  <2>3. Start(BumpNode(g), "command") \in Running(Ensure(g.loop), Nothing)
    BY <2>1, <2>2, StartRuns
  <2> QED BY <1>1, <1>3, <2>3, RunningIsLively DEF Command
<1> QED BY <1>2, <1>3

LEMMA EventKeeps ==
  ASSUME NEW g \in Lively, NEW type
  PROVE  EventOf(g, type) \in Lively
<1> DEFINE counted == [g EXCEPT !.buffering = BufferCount(@, type)]
           swept == [counted EXCEPT !.since = IF type \in TickTypes THEN 0 ELSE @]
<1>1. /\ g \in Engine /\ g.loop.frames = Unit(g.loop.raf) /\ g.loop \in LoopType
      /\ \A y \in Edge : Debt(g.traffic, y) = 0
  BY DEF Lively, Paid, Engine
<1>2. g.buffering \in Nat /\ g.since \in Nat
  BY <1>1 DEF Engine
<1>3. BufferCount(g.buffering, type) \in Nat
  BY <1>2 DEF BufferCount
<1>4. counted \in Engine /\ counted.loop = g.loop /\ counted.traffic = g.traffic
  BY <1>1, <1>3 DEF Engine
<1> HIDE DEF counted
<1>5. swept \in Engine /\ swept.loop = g.loop /\ swept.traffic = g.traffic
  BY <1>4 DEF Engine
<1> HIDE DEF swept
<1>6. CASE g.connection = "closed"
  BY <1>6 DEF EventOf
<1>7. CASE g.connection # "closed" /\ Warms(g, type)
  <2>1. EventOf(g, type) = BumpEdge(BumpNode(counted))
    BY <1>7, Zenon DEF EventOf, counted
  <2>2. BumpEdge(BumpNode(counted)) \in Running(Ensure(g.loop), Nothing)
    BY <1>1, <1>4, BumpsRun
  <2> QED BY <1>1, <2>1, <2>2, RunningIsLively
<1>8. CASE g.connection # "closed" /\ ~Warms(g, type)
  <2> DEFINE fs == EventFlows(type)
             b == BumpNode(swept)
             R == Running(Ensure(g.loop), Nothing)
  <2>1. EventOf(g, type) = FoldLeft(Start, b, fs)
    BY <1>8, Zenon DEF EventOf, counted, swept
  <2>2. fs \in Seq(DOMAIN Flows)
    <3>1. {"event", "structural", "dead", "telemetry"} \subseteq DOMAIN Flows
      BY DEF Flows
    <3>2. /\ <<IF type \in Structural THEN "structural" ELSE "event">> \in Seq(DOMAIN Flows)
          /\ (IF type = "ROUTE_NOT_FOUND" THEN <<"dead">> ELSE << >>) \in Seq(DOMAIN Flows)
          /\ (IF type \in {"RESPONDER_RECONNECTED", "RESPONDER_POSITION_RECONCILED"}
              THEN <<"telemetry">> ELSE << >>) \in Seq(DOMAIN Flows)
      <4>1. \A f \in DOMAIN Flows : <<f>> \in Seq(DOMAIN Flows)
        OBVIOUS
      <4>2. << >> \in Seq(DOMAIN Flows)
        OBVIOUS
      <4> QED BY <3>1, <4>1, <4>2, Zenon
    <3> QED BY <3>2 DEF EventFlows
  <2>3. b \in R
    BY <1>1, <1>5, BumpsRun
  <2>4. Ensure(g.loop).raf
    BY <1>1, EnsureOnce
  <2>5. \A x \in R, f \in DOMAIN Flows : Start(x, f) \in R
    BY <2>4, StartRuns
  <2> HIDE DEF R, b, fs
  <2>6. Starting!Fold(b, fs) \in R
    BY <2>2, <2>3, <2>5, Starting!FoldStays
  <2>7. Starting!LeftFold(b, fs) = Starting!Fold(b, fs)
    BY <2>2, Starting!LeftFoldIsFold
  <2>8. Starting!LeftFold(b, fs) = FoldLeft(Start, b, fs)
    BY Zenon DEF FoldLeft, MapThenFoldSet, Max, Starting!LeftFold, Starting!Greatest
  <2>9. EventOf(g, type) \in R
    BY <2>1, <2>6, <2>7, <2>8
  <2> QED BY <1>1, <2>9, RunningIsLively DEF R
<1> QED BY <1>6, <1>7, <1>8

LEMMA EventsKeep ==
  ASSUME NEW g \in Lively, NEW T, NEW es \in Seq(T)
  PROVE  FoldLeft(EventOf, g, es) \in Lively
<1>1. Handling!Fold(g, es) \in Lively
  BY EventKeeps, Handling!FoldStays
<1>2. Handling!LeftFold(g, es) = Handling!Fold(g, es)
  BY Handling!LeftFoldIsFold
<1>3. Handling!LeftFold(g, es) = FoldLeft(EventOf, g, es)
  BY Zenon DEF FoldLeft, MapThenFoldSet, Max, Handling!LeftFold, Handling!Greatest
<1> QED BY <1>1, <1>2, <1>3

(* While a frame runs its own handle counts: the hops it starts request    *)
(* no other, and it alone decides on the next.                             *)
LEMMA TickKeeps ==
  ASSUME NEW g \in Lively, g.loop.frames > 0
  PROVE  Tick(g) \in Lively
<1> DEFINE loop == [raf |-> TRUE, frames |-> 0]
           ran == Ran(g)
           done == Done(ran)
           h == Landings(ran, done)
           busy == h.traffic.packets # << >> \/ h.glow > 0 \/ done # << >>
<1>1. /\ g \in Engine /\ g.loop.frames = Unit(g.loop.raf) /\ g.loop \in LoopType
      /\ \A y \in Edge : Debt(g.traffic, y) = 0
  BY DEF Lively, Paid, Engine
<1>2. g.loop = [raf |-> TRUE, frames |-> 1]
  <2>1. g.loop.raf /\ g.loop.frames = 1
    BY <1>1 DEF Unit
  <2>2. g.loop = [raf |-> g.loop.raf, frames |-> g.loop.frames] /\ g.loop.raf \in BOOLEAN
    BY <1>1 DEF LoopType
  <2> QED BY <2>1, <2>2
<1>3. ran = [g EXCEPT !.loop = loop]
  <2>1. ran = [g EXCEPT !.loop = [g.loop EXCEPT !.frames = @ - 1]]
    BY DEF Ran
  <2>2. \A l \in LoopType : [l EXCEPT !.frames = @ - 1] = [raf |-> l.raf, frames |-> l.frames - 1]
    BY DEF LoopType
  <2>3. g.loop.raf = TRUE /\ g.loop.frames - 1 = 0
    BY <1>2
  <2>4. [g.loop EXCEPT !.frames = @ - 1] = loop
    BY <1>1, <2>2, <2>3
  <2> QED BY <2>1, <2>4
<1>4. loop \in LoopType /\ loop.raf
  BY DEF LoopType
<1>5. ran \in Running(loop, Nothing)
  BY <1>1, <1>3, <1>4 DEF Running, Nothing, Engine
<1>6. Done(ran) = Done(g) /\ Tick(g) = Again(Landings(ran, Done(g)), Done(g))
  BY <1>1, <1>3 DEF Done, Tick, Engine
<1> HIDE DEF loop, ran
<1>7. h \in Running(loop, Nothing) /\ done \in Seq(Packet)
  BY <1>4, <1>5, LandingsRun DEF Nothing
<1> HIDE DEF h, done
<1>8. Tick(g) = [h EXCEPT !.loop = [raf |-> busy, frames |-> @.frames + (IF busy THEN 1 ELSE 0)]]
  BY <1>6, Zenon DEF Again, h, done
<1>9. /\ h \in Engine /\ h.loop = [raf |-> TRUE, frames |-> 0]
      /\ \A y \in Edge : Debt(h.traffic, y) = 0
  BY <1>7 DEF Running, Nothing, loop
<1>10. busy \in BOOLEAN
  OBVIOUS
<1>11. /\ Tick(g) = [h EXCEPT !.loop = [raf |-> busy, frames |-> Unit(busy)]]
       /\ [raf |-> busy, frames |-> Unit(busy)] \in LoopType
  BY <1>8, <1>9, <1>10 DEF Unit, LoopType
<1>12. (h.traffic.packets # << >> \/ h.glow > 0) => busy
  OBVIOUS
<1> HIDE DEF busy
<1>13. /\ Tick(g) \in Engine /\ Tick(g).loop = [raf |-> busy, frames |-> Unit(busy)]
       /\ Tick(g).traffic = h.traffic /\ Tick(g).glow = h.glow
  BY <1>9, <1>11 DEF Engine
<1> QED BY <1>9, <1>12, <1>13 DEF Lively, Paid, Lit

LEMMA DisposeKeeps ==
  ASSUME NEW g, Paid(g)
  PROVE  Paid(Dispose(g)) /\ ~Dispose(g).loop.raf
<1>1. /\ g \in Engine /\ g.loop.frames = Unit(g.loop.raf) /\ g.loop \in LoopType
      /\ \A y \in Edge : Debt(g.traffic, y) = 0
  BY DEF Paid, Engine
<1> DEFINE off == [raf |-> FALSE, frames |-> g.loop.frames - (IF g.loop.raf THEN 1 ELSE 0)]
<1>2. off \in LoopType /\ off.frames = 0 /\ ~off.raf
  BY <1>1 DEF LoopType, Unit
<1>3. Dispose(g) = [g EXCEPT !.loop = off]
  BY DEF Dispose
<1> HIDE DEF off
<1>4. Dispose(g) \in Engine /\ Dispose(g).loop = off /\ Dispose(g).traffic = g.traffic
  BY <1>1, <1>2, <1>3 DEF Engine
<1> QED BY <1>1, <1>2, <1>4 DEF Paid, Unit

LEMMA NewEngineKeeps == NewEngine \in Lively
<1>1. NewEngine \in Engine
  <2>1. [packets |-> << >>, due |-> [e \in Edge |-> 0]] \in Traffic
    BY DEF Traffic
  <2> QED BY <2>1, Limits DEF NewEngine, Engine, LoopType
<1>2. \A y \in Edge : Debt(NewEngine.traffic, y) = 0
  <2>1. NewEngine.traffic.packets = << >> /\ \A y \in Edge : NewEngine.traffic.due[y] = 0
    BY DEF NewEngine
  <2> QED BY <2>1, OwedEmpty DEF Debt
<1>3. /\ NewEngine.loop.frames = 0 /\ NewEngine.loop.raf = FALSE
      /\ NewEngine.traffic.packets = << >> /\ NewEngine.glow = 0
  BY DEF NewEngine
<1> QED BY <1>1, <1>2, <1>3 DEF Lively, Paid, Lit, Unit

(* Packets grow older on their edges, and owe what they owed. *)
LEMMA PassKeeps ==
  ASSUME NEW g \in Lively
  PROVE  [g EXCEPT !.traffic.packets = [i \in DOMAIN @ |-> Aged(@[i])],
                   !.glow = IF @ = 0 THEN 0 ELSE @ - 1,
                   !.since = Min({@ + 1, Coalesce})] \in Lively
<1> DEFINE ps == g.traffic.packets
           aged == [i \in DOMAIN ps |-> Aged(ps[i])]
           t == [g.traffic EXCEPT !.packets = aged]
           glow == IF g.glow = 0 THEN 0 ELSE g.glow - 1
           since == Min({g.since + 1, Coalesce})
           h == [g EXCEPT !.traffic = t, !.glow = glow, !.since = since]
<1>1. /\ g \in Engine /\ g.loop.frames = Unit(g.loop.raf) /\ Lit(g)
      /\ \A y \in Edge : Debt(g.traffic, y) = 0
  BY DEF Lively, Paid
<1>2. g.traffic \in Traffic /\ g.glow \in Nat /\ g.since \in Nat
  BY <1>1 DEF Engine
<1>3. ps \in Seq(Packet) /\ DOMAIN ps = 1 .. Len(ps) /\ Len(ps) \in Nat
  BY <1>2 DEF Traffic
<1>4. \A a, b \in Nat : Min({a, b}) \in Nat
  <2> TAKE a, b \in Nat
  <2>1. \E x \in {a, b} : \A y \in {a, b} : x <= y
    OBVIOUS
  <2> QED BY <2>1 DEF Min
<1>5. \A p \in Packet : /\ Aged(p) \in Packet
                        /\ Aged(p).flow = p.flow /\ Aged(p).edge = p.edge
  <2> TAKE p \in Packet
  <2>1. p.age + 1 \in Nat /\ Dur[p.edge] \in Nat
    BY Limits DEF Packet
  <2>2. Min({p.age + 1, Dur[p.edge]}) \in Nat
    BY <1>4, <2>1
  <2> QED BY <2>2 DEF Aged, Packet
<1> HIDE DEF ps
<1>6. aged \in Seq(Packet) /\ DOMAIN aged = DOMAIN ps /\ \A i \in DOMAIN ps : aged[i] = Aged(ps[i])
  BY <1>3, <1>5
<1> HIDE DEF aged
<1>7. \A y : Owed(aged, y) = Owed(ps, y)
  <2> TAKE y
  <2>1. \A i \in DOMAIN ps : Owes(aged[i], y) <=> Owes(ps[i], y)
    BY <1>3, <1>5, <1>6 DEF Owes
  <2>2. Owing(aged, y) = Owing(ps, y)
    BY <1>6, <2>1 DEF Owing
  <2> QED BY <2>2 DEF Owed
<1>8. t \in Traffic /\ t.packets = aged /\ t.due = g.traffic.due
  BY <1>2, <1>6 DEF Traffic
<1>9. glow \in Nat /\ (glow > 0 => g.glow > 0)
  BY <1>2
<1>10. since \in Nat
  BY <1>2, <1>4, Limits
<1> HIDE DEF t, glow, since
<1>11. h \in Engine /\ h.traffic = t /\ h.loop = g.loop /\ h.glow = glow
  BY <1>1, <1>8, <1>9, <1>10 DEF Engine
<1> HIDE DEF h
<1>12. \A y \in Edge : Debt(h.traffic, y) = 0
  BY <1>1, <1>7, <1>8, <1>11 DEF Debt, ps
<1>13. h.traffic.packets # << >> => g.traffic.packets # << >>
  <2>1. aged = << >> <=> ps = << >>
    BY <1>3, <1>6
  <2> QED BY <1>8, <1>11, <2>1 DEF ps
<1>14. h \in Lively
  BY <1>1, <1>9, <1>11, <1>12, <1>13 DEF Lively, Paid, Lit
<1>15. h = [g EXCEPT !.traffic.packets = [i \in DOMAIN @ |-> Aged(@[i])],
                     !.glow = IF @ = 0 THEN 0 ELSE @ - 1,
                     !.since = Min({@ + 1, Coalesce})]
  BY DEF h, t, glow, since, aged, ps
<1> QED BY <1>14, <1>15

LEMMA EngineInitKeeps == EngineInit => EngineInvariant
BY NewEngineKeeps DEF EngineInit, EngineInvariant, Lively

LEMMA EngineNextKeeps == EngineInvariant /\ [EngineNext]_engineVars => EngineInvariant'
<1> SUFFICES ASSUME EngineInvariant, [EngineNext]_engineVars
             PROVE  EngineInvariant'
  OBVIOUS
<1>1. Paid(engine) /\ mounted \in BOOLEAN /\ (mounted => engine \in Lively)
  BY DEF EngineInvariant, Lively, Paid
<1>2. ASSUME mounted, mounted' = mounted, engine' \in Lively
      PROVE  EngineInvariant'
  BY <1>2 DEF EngineInvariant, Lively, Paid, Lit
<1>3. CASE Ping
  BY <1>1, <1>2, <1>3, CommandKeeps DEF Ping, Signals
<1>4. ASSUME NEW fresh \in Batches, Arrive(fresh)
      PROVE  EngineInvariant'
  <2> DEFINE es == SubSeq(fresh, Len(fresh) + 1 - Min({MaxFresh, Len(fresh)}), Len(fresh))
  <2>1. mounted /\ mounted' = mounted /\ engine' = IF replaying \/ ~primed THEN engine
                                                   ELSE FoldLeft(EventOf, engine, es)
    BY <1>4 DEF Arrive, Signals
  <2>2. es \in Seq(EventTypes)
    <3>1. fresh \in Seq(EventTypes) /\ Len(fresh) \in Nat
      <4>1. CASE fresh \in {<<t>> : t \in EventTypes}
        <5>1. PICK t \in EventTypes : fresh = <<t>>
          BY <4>1, Zenon
        <5> QED BY <5>1
      <4>2. CASE fresh \in EventTypes \X EventTypes
        <5>1. PICK t \in EventTypes, u \in EventTypes : fresh = <<t, u>>
          BY <4>2
        <5> QED BY <5>1
      <4>3. fresh \in {<<t>> : t \in EventTypes} \/ fresh \in EventTypes \X EventTypes
        BY Zenon DEF Batches
      <4> QED BY <4>1, <4>2, <4>3, Zenon
    <3>2. PICK m \in 1 .. Len(fresh) + 1 : es = SubSeq(fresh, m, Len(fresh))
      <4>1. Min({MaxFresh, Len(fresh)}) \in 0 .. Len(fresh)
        <5>1. \E x \in {MaxFresh, Len(fresh)} : \A y \in {MaxFresh, Len(fresh)} : x <= y
          BY <3>1, Limits
        <5> QED BY <3>1, <5>1, Limits DEF Min
      <4> DEFINE k == Min({MaxFresh, Len(fresh)})
      <4> HIDE DEF k
      <4>2. k \in 0 .. Len(fresh) /\ es = SubSeq(fresh, Len(fresh) + 1 - k, Len(fresh))
        BY <4>1 DEF k
      <4>3. Len(fresh) + 1 - k \in 1 .. Len(fresh) + 1
        BY <3>1, <4>2
      <4> QED BY <4>2, <4>3, Zenon
    <3> HIDE DEF es
    <3> DEFINE n == Len(fresh)
    <3>3. \A j \in m .. n : fresh[j] \in EventTypes
      BY <3>1, <3>2
    <3> QED BY <3>1, <3>2, <3>3
  <2> HIDE DEF es
  <2>3. engine' \in Lively
    BY <1>1, <2>1, <2>2, EventsKeep
  <2> QED BY <1>2, <2>1, <2>3
<1>5. ASSUME NEW type \in EventTypes, ReplayStep(type)
      PROVE  EngineInvariant'
  BY <1>1, <1>2, <1>5, EventKeeps DEF ReplayStep, Signals
<1>6. CASE Frame
  <2>1. mounted
    BY <1>6 DEF Frame, EngineInvariant, Paid, Unit
  <2> QED BY <1>1, <1>2, <1>6, <2>1, TickKeeps DEF Frame
<1>7. CASE Pass
  BY <1>1, <1>2, <1>7, PassKeeps DEF Pass
<1>8. CASE Mount
  BY <1>8, NewEngineKeeps DEF Mount, EngineInvariant, Lively, Paid
<1>9. CASE Unmount
  <2>1. mounted' = FALSE /\ engine' = Dispose(engine)
    BY <1>9 DEF Unmount
  <2>2. Paid(Dispose(engine)) /\ ~Dispose(engine).loop.raf
    BY <1>1, DisposeKeeps
  <2> QED BY <2>1, <2>2 DEF EngineInvariant, Paid
<1>10. ASSUME NEW b \in BOOLEAN, SetReplaying(b)
       PROVE  EngineInvariant'
  BY <1>1, <1>2, <1>10 DEF SetReplaying
<1>11. ASSUME NEW c \in {"connecting", "closed"}, SetConnection(c)
       PROVE  EngineInvariant'
  <2>1. mounted /\ mounted' = mounted /\ engine' = [engine EXCEPT !.connection = c]
    BY <1>11 DEF SetConnection
  <2>2. engine' \in Engine /\ engine'.loop = engine.loop /\ engine'.traffic = engine.traffic
        /\ engine'.glow = engine.glow
    BY <1>1, <2>1 DEF Paid, Engine
  <2>3. engine' \in Lively
    BY <1>1, <2>1, <2>2 DEF Lively, Paid, Lit
  <2> QED BY <1>2, <2>1, <2>3
<1>12. CASE UNCHANGED engineVars
  BY <1>12 DEF engineVars, EngineInvariant, Paid, Lit
<1> QED BY <1>3, <1>4, <1>5, <1>6, <1>7, <1>8, <1>9, <1>10, <1>11, <1>12 DEF EngineNext, Signal

(* The animation engine never has two frame loops, one that landings start *)
(* within a frame included, never lets a packet or a glow stand without a  *)
(* frame to come, and leaves none behind when its panel is unmounted.      *)
THEOREM EngineRunsOneLoop == EngineSpec => []OneLoop
<1>1. EngineInvariant => OneLoop
  BY DEF EngineInvariant, Paid, Lit, OneLoop, Unit
<1> QED BY <1>1, EngineInitKeeps, EngineNextKeeps, PTL DEF EngineSpec

(* Whatever edges are saturated or not yet measured, each hop of a cascade *)
(* that started is made once: it is made already, or one packet under way  *)
(* will make it and no other will.                                         *)
THEOREM EveryHopIsMadeOnce == EngineSpec => []EveryHopOnce
<1>1. ASSUME EngineInvariant, NEW e \in Edge
      PROVE  engine.traffic.due[e] = Quantify(DOMAIN engine.traffic.packets, LAMBDA i :
               e \in After[engine.traffic.packets[i].flow][engine.traffic.packets[i].edge])
  <2>1. engine.traffic \in Traffic /\ Debt(engine.traffic, e) = 0
    BY <1>1 DEF EngineInvariant, Paid, Engine
  <2>2. engine.traffic.due[e] \in Int /\ Owed(engine.traffic.packets, e) \in Nat
    BY <2>1, DebtIsInteger
  <2>3. engine.traffic.due[e] = Owed(engine.traffic.packets, e)
    BY <2>1, <2>2 DEF Debt
  <2> QED BY <2>3, Zenon DEF Owed, Owing, Owes, Quantify
<1>2. EngineInvariant => EveryHopOnce
  BY <1>1 DEF EveryHopOnce
<1> QED BY <1>2, EngineInitKeeps, EngineNextKeeps, PTL DEF EngineSpec
-----------------------------------------------------------------------------
(* 6. The replay *)

C == INSTANCE FoldTheorems WITH Step <- Reduce

(* The mission before the first event of the timeline, then as seen. *)
Shown(i) == IF i = 0 THEN store.base ELSE seen[store.timeline[i].id]

Typed ==
  /\ store = [state |-> store.state, events |-> store.events, base |-> store.base,
              timeline |-> store.timeline, cursor |-> store.cursor]
  /\ store.state \in Mission \union {NoState}
  /\ store.base \in Mission \union {NoState}
  /\ store.timeline \in Seq(Event)
  /\ next \in 0 .. Len(Log)
  /\ seen \in [Id -> Mission \union {NoState}]

(* An empty store retains nothing; any other has a base. *)
Loaded ==
  /\ store.state = NoState => store.timeline = << >> /\ store.base = NoState
  /\ store.state # NoState => store.base # NoState

(* The timeline holds events that were sent, each once. *)
Once ==
  /\ \A i \in DOMAIN store.timeline : \E k \in 1 .. next : store.timeline[i] = Log[k]
  /\ \A i, j \in DOMAIN store.timeline :
       store.timeline[i].id = store.timeline[j].id => i = j

Chained ==
  /\ \A i \in DOMAIN store.timeline : Shown(i) = Reduce(Shown(i - 1), store.timeline[i])
  /\ Shown(Len(store.timeline)) = store.state

Inductive == Typed /\ Loaded /\ Once /\ Chained
-----------------------------------------------------------------------------
(* 7. Folds *)

(* A fold of the reducer is one of FoldTheorems. *)
LEMMA FoldsAgree ==
  ASSUME NEW m, NEW es
  PROVE  Fold(m, es) = C!Fold(m, es)
BY Zenon DEF Fold, C!Fold
-----------------------------------------------------------------------------
(* 8. The invariant *)

USE MaxEventsAssumption, MissionAssumption, EventAssumption, ReduceAssumption,
    LogAssumption, RecentAssumption

LEMMA SnapshotIsMission ==
  ASSUME NEW n \in 0 .. Len(Log)
  PROVE  Fold(FirstMission, SubSeq(Log, 1, n)) \in Mission
<1> DEFINE es == SubSeq(Log, 1, n)
<1>1. es \in Seq(Event) /\ Len(es) = n /\ n \in Nat
  OBVIOUS
<1> HIDE DEF es
<1>2. PICK g : C!Trace(g, FirstMission, es)
  BY <1>1, C!TraceExists
<1> DEFINE P == {i \in 0 .. n : g[i] \in Mission}
<1>3. 0 \in P
  BY <1>1, <1>2 DEF C!Trace
<1>4. ASSUME NEW i \in 1 .. n, i - 1 \in P
      PROVE  i \in P
  <2>1. g[i] = Reduce(g[i - 1], es[i]) /\ g[i - 1] \in Mission /\ es[i] \in Event
    BY <1>1, <1>2, <1>4 DEF C!Trace
  <2> QED BY <1>1, <2>1
<1> HIDE DEF P
<1>5. \A i \in 0 .. n : i \in P
  BY <1>1, <1>3, <1>4, C!InductionUpTo
<1>6. Fold(FirstMission, es) = g[n]
  BY <1>1, <1>2, FoldsAgree, C!FoldIsTrace
<1> QED BY <1>1, <1>5, <1>6 DEF P, es

LEMMA InitInductive == Init => Inductive
<1> SUFFICES ASSUME Init PROVE Inductive
  OBVIOUS
<1>1. store.timeline = << >> /\ store.state = NoState /\ store.base = NoState
  BY DEF Init, Empty
<1>2. Typed
  <2>1. Len(Log) \in Nat
    OBVIOUS
  <2> QED BY <2>1 DEF Typed, Init, Empty
<1>3. Loaded /\ Once
  BY <1>1 DEF Loaded, Once
<1>4. Chained
  BY <1>1 DEF Chained, Shown
<1> QED BY <1>2, <1>3, <1>4 DEF Inductive

(* Steps that move the cursor, or nothing of the store, keep everything. *)
LEMMA CursorInductive ==
  ASSUME Inductive, UNCHANGED <<next, seen>>,
         UNCHANGED <<store>> \/ \E e : store' = SetReplayCursor(store, e)
  PROVE  Inductive'
<1>1. /\ store' = [state |-> store'.state, events |-> store'.events, base |-> store'.base,
                   timeline |-> store'.timeline, cursor |-> store'.cursor]
      /\ store'.state = store.state /\ store'.base = store.base
      /\ store'.timeline = store.timeline
  BY DEF Inductive, Typed, SetReplayCursor
<1>2. Typed' /\ Loaded' /\ Once'
  BY <1>1 DEF Inductive, Typed, Loaded, Once
<1>3. \A i : Shown(i)' = Shown(i)
  BY <1>1 DEF Shown
<1>4. Chained'
  BY <1>1, <1>3 DEF Inductive, Chained
<1> QED BY <1>2, <1>4 DEF Inductive

LEMMA SnapshotInductive ==
  ASSUME Inductive, NEW p \in 0 .. Len(Log), NEW r \in next .. Len(Log), Snapshot(p, r)
  PROVE  Inductive'
<1> DEFINE m == Fold(FirstMission, SubSeq(Log, 1, p))
<1>1. m \in Mission
  BY SnapshotIsMission
<1> HIDE DEF m
<1>2. /\ store' = [state |-> m, events |-> Recent(p), base |-> m,
                   timeline |-> << >>, cursor |-> NoEvent]
      /\ next' = r /\ seen' = seen
  BY DEF Snapshot, SetSnapshot, m
<1>3. Typed'
  <2>1. r \in 0 .. Len(Log)
    BY DEF Inductive, Typed
  <2>2. << >> \in Seq(Event)
    OBVIOUS
  <2> QED BY <1>1, <1>2, <2>1, <2>2 DEF Inductive, Typed
<1>4. Loaded' /\ Once'
  BY <1>1, <1>2 DEF Loaded, Once
<1>5. Chained'
  BY <1>2 DEF Chained, Shown
<1> QED BY <1>3, <1>4, <1>5 DEF Inductive

(* The event is new to the timeline, so nothing seen there changes; its    *)
(* own frame is the mission it is reduced to.  When the timeline overflows *)
(* every frame moves down by one, and the first becomes the base.          *)
LEMMA DeliverInductive ==
  ASSUME Inductive, Deliver
  PROVE  Inductive'
<1> DEFINE e == Log[next + 1]
           t == store.timeline
           grown == Append(t, e)
           frame(i) == IF i = 0 THEN store.base ELSE seen'[grown[i].id]
<1>1. /\ next \in Nat /\ Len(Log) \in Nat /\ next + 1 \in 1 .. Len(Log) /\ next' = next + 1
      /\ next + 1 \in DOMAIN Log /\ next' \in 0 .. Len(Log)
  BY DEF Inductive, Typed, Deliver
<1>2. e \in Event /\ e.id \in Id
  BY <1>1 DEF Event, Id
<1>3. CASE ~Applies(store, e)
  <2>1. store' = store /\ seen' = seen
    BY <1>3 DEF Deliver, ApplyEvent
  <2>2. Typed' /\ Loaded' /\ Once'
    BY <1>1, <2>1 DEF Inductive, Typed, Loaded, Once
  <2>3. \A i : Shown(i)' = Shown(i)
    BY <2>1 DEF Shown
  <2>4. Chained'
    BY <2>1, <2>3 DEF Inductive, Chained
  <2> QED BY <2>2, <2>4 DEF Inductive
<1>4. CASE Applies(store, e)
  <2>1. store.state \in Mission /\ store.base \in Mission /\ store.state # NoState
    BY <1>4 DEF Inductive, Typed, Loaded, Applies
  <2>2. /\ store' = [state |-> Reduce(store.state, e), events |-> Newest(<<e>> \o store.events),
                     base |-> Extended(store, e).base,
                     timeline |-> Extended(store, e).timeline, cursor |-> store.cursor]
        /\ seen' = [seen EXCEPT ![e.id] = store'.state]
    BY <1>4 DEF Deliver, ApplyEvent
  <2>3. Reduce(store.state, e) \in Mission /\ store'.state = Reduce(store.state, e)
    BY <1>2, <2>1, <2>2
  <2>4. seen' \in [Id -> Mission \union {NoState}] /\ seen'[e.id] = store'.state
    BY <1>2, <2>2, <2>3 DEF Inductive, Typed
  <2>5. /\ t \in Seq(Event) /\ Len(t) \in Nat
        /\ grown \in Seq(Event) /\ Len(grown) = Len(t) + 1
        /\ \A i \in 1 .. Len(t) : grown[i] = t[i]
        /\ grown[Len(t) + 1] = e
    BY <1>2 DEF Inductive, Typed
  <2>6. \A i \in 1 .. Len(grown) : \E k \in 1 .. next' : grown[i] = Log[k]
    <3>1. \A i \in 1 .. Len(t) : \E k \in 1 .. next : grown[i] = Log[k]
      BY <2>5 DEF Inductive, Once
    <3>2. \A i \in 1 .. Len(t) : \E k \in 1 .. next' : grown[i] = Log[k]
      BY <1>1, <3>1
    <3>3. next + 1 \in 1 .. next' /\ grown[Len(t) + 1] = Log[next + 1]
      BY <1>1, <2>5
    <3>4. \A i \in 1 .. Len(grown) : i \in 1 .. Len(t) \/ i = Len(t) + 1
      BY <2>5
    <3> HIDE DEF grown, t
    <3> QED BY <3>2, <3>3, <3>4
  <2>7. \A i \in 1 .. Len(t) : t[i].id # e.id /\ t[i].id \in Id
    <3> TAKE i \in 1 .. Len(t)
    <3>1. PICK k \in 1 .. next : t[i] = Log[k]
      BY <2>5 DEF Inductive, Once
    <3>2. k \in DOMAIN Log /\ k # next + 1
      BY <1>1
    <3> QED BY <1>1, <3>1, <3>2 DEF Event, Id
  <2>8. \A i, j \in 1 .. Len(grown) : grown[i].id = grown[j].id => i = j
    <3>1. \A i, j \in 1 .. Len(t) : grown[i].id = grown[j].id => i = j
      BY <2>5 DEF Inductive, Once
    <3>2. \A i \in 1 .. Len(t) : grown[i].id # grown[Len(t) + 1].id
      BY <2>5, <2>7
    <3>3. \A i \in 1 .. Len(grown) : i \in 1 .. Len(t) \/ i = Len(t) + 1
      BY <2>5
    <3> HIDE DEF grown, t
    <3> QED BY <3>1, <3>2, <3>3
  <2>9. \A i \in 1 .. Len(t) : frame(i) = Shown(i)
    BY <2>2, <2>5, <2>7 DEF Shown, Inductive, Typed
  <2>10. \A i \in 1 .. Len(grown) : frame(i) = Reduce(frame(i - 1), grown[i])
    <3>1. ASSUME NEW i \in 1 .. Len(t)
          PROVE  frame(i) = Reduce(frame(i - 1), grown[i])
      <4>1. Shown(i) = Reduce(Shown(i - 1), t[i])
        BY <2>5 DEF Inductive, Chained
      <4>2. frame(i) = Shown(i) /\ grown[i] = t[i]
        BY <2>5, <2>9
      <4>3. frame(i - 1) = Shown(i - 1)
        <5>1. i - 1 = 0 \/ i - 1 \in 1 .. Len(t)
          BY <2>5
        <5> QED BY <2>9, <5>1 DEF Shown
      <4> HIDE DEF frame, grown, t
      <4> QED BY <4>1, <4>2, <4>3
    <3>2. frame(Len(t)) = store.state
      <4>1. Shown(Len(t)) = store.state
        BY DEF Inductive, Chained
      <4>2. Len(t) = 0 \/ Len(t) \in 1 .. Len(t)
        BY <2>5
      <4> QED BY <2>9, <4>1, <4>2 DEF Shown
    <3>3. frame(Len(t) + 1) = Reduce(frame(Len(t)), grown[Len(t) + 1])
      <4>1. frame(Len(t) + 1) = seen'[e.id]
        BY <2>5
      <4>2. frame(Len(t) + 1) = Reduce(store.state, e)
        BY <2>3, <2>4, <4>1
      <4> HIDE DEF frame, grown
      <4> QED BY <2>5, <3>2, <4>2
    <3>4. \A i \in 1 .. Len(grown) : i \in 1 .. Len(t) \/ i = Len(t) + 1
      BY <2>5
    <3>5. Len(t) + 1 - 1 = Len(t)
      BY <2>5
    <3> HIDE DEF frame, grown, t
    <3> QED BY <3>1, <3>3, <3>4, <3>5
  <2>11. frame(Len(grown)) = store'.state
    <3>1. frame(Len(grown)) = seen'[grown[Len(t) + 1].id]
      BY <2>5
    <3> QED BY <2>4, <2>5, <3>1
  <2>12. CASE Len(t) < MaxEvents
    <3>1. store'.timeline = grown /\ store'.base = store.base
      BY <2>2, <2>12 DEF Extended
    <3>2. Typed'
      <4>1. store' = [state |-> store'.state, events |-> store'.events, base |-> store'.base,
                      timeline |-> store'.timeline, cursor |-> store'.cursor]
        BY <2>2
      <4> HIDE DEF grown
      <4> QED BY <1>1, <2>1, <2>3, <2>4, <2>5, <3>1, <4>1 DEF Typed
    <3>3. Loaded' /\ Once'
      <4>1. Loaded'
        BY <2>1, <2>3, <3>1 DEF Loaded
      <4>2. DOMAIN grown = 1 .. Len(grown)
        BY <2>5
      <4> HIDE DEF grown
      <4> QED BY <2>6, <2>8, <3>1, <4>1, <4>2 DEF Once
    <3>4. \A i : Shown(i)' = frame(i)
      BY <3>1 DEF Shown
    <3>5. Chained'
      <4>1. DOMAIN grown = 1 .. Len(grown)
        BY <2>5
      <4> HIDE DEF grown, frame
      <4> QED BY <2>10, <2>11, <3>1, <3>4, <4>1 DEF Chained
    <3> QED BY <3>2, <3>3, <3>5 DEF Inductive
  <2>13. CASE ~(Len(t) < MaxEvents)
    <3>1. store'.timeline = Tail(grown) /\ store'.base = Reduce(store.base, grown[1])
      <4>1. Head(grown) = grown[1]
        BY <2>5
      <4> QED BY <2>2, <2>13, <4>1 DEF Extended, FoldOldest
    <3>2. /\ Tail(grown) \in Seq(Event) /\ Len(Tail(grown)) = Len(t)
          /\ DOMAIN Tail(grown) = 1 .. Len(t)
          /\ \A i \in 1 .. Len(t) : Tail(grown)[i] = grown[i + 1] /\ i + 1 \in 1 .. Len(grown)
      <4> HIDE DEF grown
      <4> QED BY <2>5
    <3>3. 1 \in 1 .. Len(t) /\ 1 \in 1 .. Len(grown) /\ grown[1] \in Event
      BY <2>5, <2>13
    <3>4. store'.base \in Mission
      BY <2>1, <3>1, <3>3
    <3>5. Typed'
      <4>1. store' = [state |-> store'.state, events |-> store'.events, base |-> store'.base,
                      timeline |-> store'.timeline, cursor |-> store'.cursor]
        BY <2>2
      <4> HIDE DEF grown
      <4> QED BY <1>1, <2>3, <2>4, <3>1, <3>2, <3>4, <4>1 DEF Typed
    <3>6. Loaded'
      BY <2>3, <3>4 DEF Loaded
    <3>7. Once'
      <4>1. \A i \in 1 .. Len(t) : \E k \in 1 .. next' : Tail(grown)[i] = Log[k]
        BY <2>6, <3>2
      <4>2. \A i, j \in 1 .. Len(t) : Tail(grown)[i].id = Tail(grown)[j].id => i = j
        <5> TAKE i, j \in 1 .. Len(t)
        <5>1. grown[i + 1].id = grown[j + 1].id => i + 1 = j + 1
          BY <2>8, <3>2
        <5> HIDE DEF grown, t
        <5> QED BY <3>2, <5>1
      <4>3. DOMAIN store'.timeline = 1 .. Len(t)
        BY <3>1, <3>2, Zenon
      <4>4. \A i \in DOMAIN store'.timeline : \E k \in 1 .. next' : store'.timeline[i] = Log[k]
        <5> HIDE DEF grown, t
        <5> QED BY <3>1, <4>1, <4>3
      <4>5. \A i, j \in DOMAIN store'.timeline :
              store'.timeline[i].id = store'.timeline[j].id => i = j
        <5> HIDE DEF grown, t
        <5> QED BY <3>1, <4>2, <4>3
      <4> QED BY <4>4, <4>5 DEF Once
    <3>8. \A i \in 0 .. Len(t) : Shown(i)' = frame(i + 1)
      <4>1. frame(1) = store'.base
        <5>1. frame(1) = Reduce(frame(1 - 1), grown[1])
          BY <2>10, <3>3
        <5>2. frame(1 - 1) = store.base
          OBVIOUS
        <5> HIDE DEF frame
        <5> QED BY <3>1, <5>1, <5>2
      <4>2. ASSUME NEW i \in 1 .. Len(t)
            PROVE  Shown(i)' = frame(i + 1)
        <5>1. i # 0 /\ i + 1 # 0
          BY <2>5
        <5>2. Shown(i)' = seen'[Tail(grown)[i].id]
          BY <3>1, <5>1 DEF Shown
        <5> QED BY <3>2, <5>1, <5>2
      <4>3. Shown(0)' = store'.base
        BY DEF Shown
      <4>4. \A i \in 0 .. Len(t) : i = 0 \/ i \in 1 .. Len(t)
        BY <2>5
      <4> HIDE DEF frame
      <4> QED BY <4>1, <4>2, <4>3, <4>4
    <3>9. Chained'
      <4>1. ASSUME NEW i \in 1 .. Len(t)
            PROVE  Shown(i)' = Reduce(Shown(i - 1)', Tail(grown)[i])
        <5>1. i \in 0 .. Len(t) /\ i - 1 \in 0 .. Len(t) /\ i - 1 + 1 = i /\ i + 1 - 1 = i
          BY <2>5
        <5>2. Shown(i)' = frame(i + 1) /\ Shown(i - 1)' = frame(i)
          <6> HIDE DEF frame
          <6> QED BY <3>8, <5>1
        <5>3. frame(i + 1) = Reduce(frame(i), grown[i + 1])
          <6> HIDE DEF frame
          <6> QED BY <2>10, <3>2, <5>1
        <5> HIDE DEF frame, grown
        <5> QED BY <3>2, <5>2, <5>3
      <4>2. \A n \in 0 .. Len(t) : n = Len(t) => Shown(n)' = store'.state
        <5>1. Len(t) \in 0 .. Len(t) /\ Len(t) + 1 = Len(grown)
          BY <2>5
        <5> HIDE DEF frame
        <5> QED BY <2>11, <3>8, <5>1
      <4>3. DOMAIN store'.timeline = 1 .. Len(t) /\ Len(store'.timeline) = Len(t)
        BY <3>1, <3>2, Zenon
      <4>4. Shown(Len(store.timeline))' = store'.state
        <5>1. Len(t) \in 0 .. Len(t)
          BY <2>5
        <5> QED BY <4>2, <4>3, <5>1
      <4>5. \A i \in DOMAIN store'.timeline :
              Shown(i)' = Reduce(Shown(i - 1)', store'.timeline[i])
        <5> HIDE DEF grown, t
        <5> QED BY <3>1, <4>1, <4>3
      <4> QED BY <4>4, <4>5 DEF Chained
    <3> QED BY <3>5, <3>6, <3>7, <3>9 DEF Inductive
  <2> QED BY <2>12, <2>13
<1> HIDE DEF e
<1> QED BY <1>3, <1>4

(* The replay controller touches the store's cursor only. *)
LEMMA ControllerMovesCursor ==
  ASSUME TimerFires \/ Operate
  PROVE  /\ UNCHANGED <<next, seen>>
         /\ UNCHANGED <<store>> \/ \E e : store' = SetReplayCursor(store, e)
<1> DEFINE Goal == /\ UNCHANGED <<next, seen>>
                   /\ UNCHANGED <<store>> \/ \E e : store' = SetReplayCursor(store, e)
<1> SUFFICES Goal
  OBVIOUS
<1>1. ASSUME NEW r, StepFrom(r)
      PROVE  Goal
  BY <1>1, Zenon DEF StepFrom, Show, Finish
<1>2. CASE TimerFires
  BY <1>1, <1>2 DEF TimerFires
<1>3. CASE Play
  BY <1>1, <1>3 DEF Play
<1>4. CASE Pause
  BY <1>4 DEF Pause
<1>5. CASE Restart
  BY <1>1, <1>5 DEF Restart
<1>6. CASE GoLive
  BY <1>6, Zenon DEF GoLive
<1>7. ASSUME NEW i, Seek(i)
      PROVE  Goal
  <2> DEFINE r == [replay EXCEPT !.index = Clamp(i)]
  <2>1. CASE r.status = "playing"
    BY <1>1, <1>7, <2>1 DEF Seek
  <2>2. CASE r.status # "playing"
    <3>1. \E e : store' = SetReplayCursor(store, e)
      BY <1>7, <2>2, Zenon DEF Seek
    <3> QED BY <1>7, <2>2, <3>1 DEF Seek
  <2> QED BY <2>1, <2>2
<1>8. ASSUME NEW i, PlayFrom(i)
      PROVE  Goal
  BY <1>1, <1>8 DEF PlayFrom
<1>9. ASSUME NEW from, NEW to, Rearrange(from, to)
      PROVE  Goal
  BY <1>9 DEF Rearrange
<1>11. CASE SetSpeed
  BY <1>11 DEF SetSpeed
<1> HIDE DEF Goal
<1>10. ASSUME Operate
       PROVE  Goal
  BY <1>3, <1>4, <1>5, <1>6, <1>7, <1>8, <1>9, <1>10, <1>11, Zenon
     DEF Operate, Toggle, ToggleExpand
<1> QED BY <1>2, <1>10, Zenon

LEMMA NextInductive ==
  ASSUME Inductive, [Next]_vars
  PROVE  Inductive'
<1>1. CASE Deliver
  BY <1>1, DeliverInductive
<1>2. ASSUME NEW p \in 0 .. Len(Log), NEW r \in next .. Len(Log), Snapshot(p, r)
      PROVE  Inductive'
  BY <1>2, SnapshotInductive
<1>3. CASE TimerFires \/ Operate
  BY <1>3, ControllerMovesCursor, CursorInductive
<1>4. CASE UNCHANGED vars
  BY <1>4, CursorInductive DEF vars
<1> QED BY <1>1, <1>2, <1>3, <1>4 DEF Next, Feed
-----------------------------------------------------------------------------
(* 9. What the invariant says of the folds *)

(* The frames up to any event of the timeline are a chain, so the fold up  *)
(* to the event ends in its frame.                                         *)
LEMMA FoldIsFrame ==
  ASSUME Inductive, NEW n \in 0 .. Len(store.timeline)
  PROVE  Fold(store.base, SubSeq(store.timeline, 1, n)) = Shown(n)
<1> DEFINE t == store.timeline
           es == SubSeq(t, 1, n)
           g == [i \in 0 .. n |-> Shown(i)]
<1>1. /\ t \in Seq(Event) /\ Len(t) \in Nat /\ DOMAIN t = 1 .. Len(t) /\ n \in Nat
      /\ es \in Seq(Event) /\ Len(es) = n /\ \A i \in 1 .. n : es[i] = t[i]
  <2>1. t \in Seq(Event) /\ n \in 0 .. Len(t)
    BY DEF Inductive, Typed
  <2> HIDE DEF t
  <2>2. Len(t) \in Nat /\ DOMAIN t = 1 .. Len(t) /\ n \in Nat
    BY <2>1
  <2>3. es \in Seq(Event)
    BY <2>1, <2>2
  <2>4. Len(es) = n /\ \A i \in 1 .. n : es[i] = t[i]
    BY <2>1, <2>2
  <2> QED BY <2>1, <2>2, <2>3, <2>4, Zenon
<1>2. \A i \in 0 .. n : g[i] = IF i = 0 THEN store.base ELSE Reduce(g[i - 1], es[i])
  <2> TAKE i \in 0 .. n
  <2>1. CASE i = 0
    BY <2>1 DEF Shown
  <2>2. CASE i # 0
    <3>1. i \in DOMAIN t /\ i \in 1 .. n /\ i - 1 \in 0 .. n
      BY <1>1, <2>2
    <3>2. Shown(i) = Reduce(Shown(i - 1), t[i])
      BY <3>1 DEF Inductive, Chained
    <3>3. g[i] = Shown(i) /\ g[i - 1] = Shown(i - 1)
      BY <3>1
    <3> HIDE DEF g, es, t
    <3> QED BY <1>1, <2>2, <3>1, <3>2, <3>3
  <2> QED BY <2>1, <2>2
<1>3. C!Trace(g, store.base, es)
  <2>1. 0 \in 0 .. n /\ \A i \in 1 .. n : i \in 0 .. n /\ i # 0
    BY <1>1
  <2> HIDE DEF g, es
  <2> QED BY <1>1, <1>2, <2>1 DEF C!Trace
<1>4. Fold(store.base, es) = g[Len(es)]
  <2> HIDE DEF g, es
  <2> QED BY <1>1, <1>3, FoldsAgree, C!FoldIsTrace
<1>5. n \in 0 .. n
  BY <1>1
<1> QED BY <1>1, <1>4, <1>5

LEMMA InductiveFolds == Inductive => FoldsTimeline
<1> SUFFICES ASSUME Inductive PROVE FoldsTimeline
  OBVIOUS
<1> DEFINE t == store.timeline
<1>1. t \in Seq(Event)
  BY DEF Inductive, Typed
<1>2. Len(t) \in 0 .. Len(t) /\ SubSeq(t, 1, Len(t)) = t
  <2> HIDE DEF t
  <2> QED BY <1>1
<1>3. Fold(store.base, t) = Shown(Len(t))
  BY <1>2, FoldIsFrame
<1> QED BY <1>3 DEF FoldsTimeline, Inductive, Chained

LEMMA InductiveSeen == Inductive => FrameWasSeen
<1> SUFFICES ASSUME Inductive, store.cursor # NoEvent, CursorAt(store) # {}
             PROVE  TacticalState(store) = seen[store.cursor.id]
  BY DEF FrameWasSeen
<1> DEFINE t == store.timeline
<1>1. t \in Seq(Event) /\ DOMAIN t = 1 .. Len(t) /\ Len(t) \in Nat
  BY DEF Inductive, Typed
<1>2. PICK i \in DOMAIN t : t[i].id = store.cursor.id
  BY DEF CursorAt
<1>3. \A j \in CursorAt(store) : j = i
  BY <1>2 DEF CursorAt, Inductive, Once
<1>4. i \in CursorAt(store) /\ \A j \in CursorAt(store) : i <= j
  BY <1>1, <1>2, <1>3 DEF CursorAt
<1>5. (CHOOSE k \in CursorAt(store) : \A j \in CursorAt(store) : k <= j) = i
  BY <1>3, <1>4
<1>6. store.base # NoState
  <2>1. t # << >>
    BY <1>1, <1>2
  <2> QED BY <2>1 DEF Inductive, Loaded
<1>7. TacticalState(store) = Fold(store.base, SubSeq(t, 1, i))
  BY <1>5, <1>6 DEF TacticalState
<1>8. i \in 0 .. Len(t) /\ i # 0
  BY <1>1, <1>2
<1>9. Fold(store.base, SubSeq(t, 1, i)) = Shown(i)
  BY <1>8, FoldIsFrame
<1> QED BY <1>2, <1>7, <1>8, <1>9 DEF Shown

(* fold(baseState, timeline) is the state, for any reducer, any events and *)
(* any retention: missionStore.ts says so of its own fields.               *)
THEOREM BaseAndTimelineFold == Spec => []FoldsTimeline
<1>1. Inductive /\ [Next]_vars => Inductive'
  BY NextInductive
<1> QED BY <1>1, InitInductive, InductiveFolds, PTL DEF Spec

(* Time travel shows what was on the screen: useTacticalState's fold to an *)
(* event of the timeline is the mission as it was when the event arrived.  *)
THEOREM ReplayShowsWhatWasSeen == Spec => []FrameWasSeen
<1>1. Inductive /\ [Next]_vars => Inductive'
  BY NextInductive
<1> QED BY <1>1, InitInductive, InductiveSeen, PTL DEF Spec
-----------------------------------------------------------------------------
(* 10. The timer *)

Fields == {"status", "buffer", "index", "current", "timers"}

IsReplay(r) == r = [field \in Fields |-> r[field]]

Timed(r) ==
  /\ IsReplay(r)
  /\ r.status \in {"idle", "playing", "paused"}
  /\ r.timers = IF r.status = "playing" THEN 1 ELSE 0

LEMMA ClearedTimed ==
  ASSUME NEW r, IsReplay(r), r.timers \in {0, 1}
  PROVE  /\ IsReplay(Cleared(r)) /\ Cleared(r).timers = 0
         /\ Cleared(r).status = r.status /\ Cleared(r).index = r.index
         /\ Cleared(r).buffer = r.buffer
<1>1. IsReplay(Cleared(r))
  BY DEF Cleared, IsReplay, Fields
<1>2. Cleared(r).timers = IF r.timers = 0 THEN 0 ELSE r.timers - 1
  BY DEF Cleared, IsReplay, Fields
<1>3. /\ Cleared(r).status = r.status /\ Cleared(r).index = r.index
      /\ Cleared(r).buffer = r.buffer
  BY DEF Cleared, IsReplay, Fields
<1> QED BY <1>1, <1>2, <1>3

(* A step is only taken with the timeout gone that led to it. *)
LEMMA StepTimed ==
  ASSUME NEW r, IsReplay(r), r.status = "playing", r.timers = 0, StepFrom(r)
  PROVE  Timed(replay')
<1>1. CASE Finish(r)
  <2> DEFINE q == Cleared(r)
  <2>1. IsReplay(q) /\ q.timers = 0
    BY ClearedTimed
  <2>2. replay' = [q EXCEPT !.status = "idle", !.current = NoEvent]
    BY <1>1 DEF Finish
  <2> HIDE DEF q
  <2>3. IsReplay(replay') /\ replay'.status = "idle" /\ replay'.timers = 0
    BY <2>1, <2>2 DEF IsReplay, Fields
  <2> QED BY <2>3 DEF Timed
<1>2. CASE Show(r)
  <2> DEFINE e == r.buffer[r.index + 1]
  <2>1. replay' = [r EXCEPT !.current = e, !.index = @ + 1, !.timers = @ + 1]
    BY <1>2 DEF Show
  <2> HIDE DEF e
  <2>2. IsReplay(replay') /\ replay'.status = "playing" /\ replay'.timers = r.timers + 1
    BY <2>1 DEF IsReplay, Fields
  <2> QED BY <2>2 DEF Timed
<1> QED BY <1>1, <1>2 DEF StepFrom

LEMMA BufferedTimed ==
  ASSUME NEW r, IsReplay(r)
  PROVE  /\ IsReplay(Buffered(r)) /\ Buffered(r).timers = r.timers
         /\ Buffered(r).status = r.status
  BY DEF Buffered, IsReplay, Fields

LEMMA TimedStep ==
  ASSUME Timed(replay), [Next]_vars
  PROVE  Timed(replay')
<1>1. CASE Feed
  BY <1>1 DEF Feed, Deliver, Snapshot
<1>2. CASE TimerFires
  <2> DEFINE r == [replay EXCEPT !.timers = @ - 1]
  <2>0. replay.status = "playing" /\ replay.timers = 1 /\ IsReplay(replay)
    BY <1>2 DEF TimerFires, Timed
  <2>1. IsReplay(r) /\ r.status = "playing" /\ r.timers = 0
    <3>1. IsReplay(r) /\ r.status = "playing" /\ r.timers = replay.timers - 1
      BY <2>0 DEF IsReplay, Fields
    <3> QED BY <2>0, <3>1
  <2>2. StepFrom(r)
    BY <1>2 DEF TimerFires
  <2> HIDE DEF r
  <2> QED BY <2>1, <2>2, StepTimed
<1>3. CASE Play
  <2> DEFINE q == IF replay.status = "idle" THEN Buffered(replay) ELSE replay
             r == [q EXCEPT !.status = "playing"]
  <2>1. IsReplay(q) /\ q.timers = 0
    BY <1>3, BufferedTimed DEF Play, Timed
  <2>2. StepFrom(r)
    BY <1>3 DEF Play
  <2> HIDE DEF q
  <2>3. IsReplay(r) /\ r.status = "playing" /\ r.timers = 0
    BY <2>1 DEF IsReplay, Fields
  <2> HIDE DEF r
  <2> QED BY <2>2, <2>3, StepTimed
<1>4. CASE Pause
  BY <1>4, ClearedTimed DEF Pause, Timed, IsReplay, Fields
<1>5. CASE Restart
  <2> DEFINE q == Buffered(Cleared(replay))
             r == [q EXCEPT !.status = "playing", !.current = NoEvent]
  <2>1. IsReplay(q) /\ q.timers = 0
    BY ClearedTimed, BufferedTimed DEF Timed
  <2>2. StepFrom(r)
    BY <1>5 DEF Restart
  <2> HIDE DEF q
  <2>3. IsReplay(r) /\ r.status = "playing" /\ r.timers = 0
    BY <2>1 DEF IsReplay, Fields
  <2> HIDE DEF r
  <2> QED BY <2>2, <2>3, StepTimed
<1>6. CASE GoLive
  BY <1>6, ClearedTimed DEF GoLive, Timed, IsReplay, Fields
<1>7. ASSUME NEW i, Seek(i)
      PROVE  Timed(replay')
  <2> DEFINE r == [replay EXCEPT !.index = Clamp(i)]
  <2>1. Timed(r)
    BY DEF Timed, IsReplay, Fields
  <2>2. CASE r.status = "playing"
    <3>1. StepFrom(Cleared(r))
      BY <1>7, <2>2 DEF Seek
    <3> HIDE DEF r
    <3> QED BY <2>1, <2>2, <3>1, ClearedTimed, StepTimed DEF Timed
  <2>3. CASE r.status # "playing"
    BY <1>7, <2>1, <2>3 DEF Seek
  <2> QED BY <2>2, <2>3
<1>8. ASSUME NEW i, PlayFrom(i)
      PROVE  Timed(replay')
  <2> DEFINE q == Buffered(Cleared(replay))
             r == [q EXCEPT !.status = "playing", !.index = i - 1]
  <2>1. IsReplay(q) /\ q.timers = 0
    BY ClearedTimed, BufferedTimed DEF Timed
  <2>2. StepFrom(r)
    BY <1>8 DEF PlayFrom
  <2> HIDE DEF q
  <2>3. IsReplay(r) /\ r.status = "playing" /\ r.timers = 0
    BY <2>1 DEF IsReplay, Fields
  <2> HIDE DEF r
  <2> QED BY <2>2, <2>3, StepTimed
<1>9. ASSUME NEW from, NEW to, Rearrange(from, to)
      PROVE  Timed(replay')
  BY <1>9 DEF Rearrange, Fresh, Timed, IsReplay, Fields
<1>10. CASE UNCHANGED vars
  BY <1>10 DEF vars
<1>12. CASE SetSpeed
  <2> DEFINE q == Cleared(replay)
             r == [q EXCEPT !.timers = @ + 1]
  <2>1. replay.status = "playing" /\ replay' = r
    BY <1>12 DEF SetSpeed
  <2>2. IsReplay(q) /\ q.timers = 0 /\ q.status = "playing"
    BY <2>1, ClearedTimed DEF Timed
  <2> HIDE DEF q
  <2>3. IsReplay(r) /\ r.timers = 1 /\ r.status = "playing"
    <3>1. IsReplay(r)
      BY <2>2 DEF IsReplay, Fields
    <3>2. r.timers = q.timers + 1 /\ r.status = q.status
      BY <2>2 DEF IsReplay, Fields
    <3> QED BY <2>2, <3>1, <3>2
  <2> HIDE DEF r
  <2> QED BY <2>1, <2>3 DEF Timed
<1>11. CASE Operate
  BY <1>3, <1>4, <1>5, <1>6, <1>7, <1>8, <1>9, <1>11, <1>12, Zenon
     DEF Operate, Toggle, ToggleExpand
<1> QED BY <1>1, <1>2, <1>10, <1>11 DEF Next

(* Play, pause, restart, seek, playFrom, goLive and unmounting leave       *)
(* exactly the timeout that the controller's status calls for.             *)
THEOREM NoStrayTimer == Spec => []OneReplayTimer
<1>1. Init => Timed(replay)
  BY DEF Init, Fresh, Timed, IsReplay, Fields
<1>2. Timed(replay) /\ [Next]_vars => Timed(replay)'
  BY TimedStep
<1>3. Timed(replay) => OneReplayTimer
  BY DEF Timed, OneReplayTimer
<1> QED BY <1>1, <1>2, <1>3, PTL DEF Spec
=============================================================================
