------------------------- MODULE MockConsoleProofs -------------------------
(***************************************************************************)
(* Proofs about MockConsole for any grid, any sight, any routes that lead  *)
(* from the one cell to the other, any board and any number of commands:   *)
(* that the mission the page gathers from events alone is the mock's, that *)
(* the mock's world stays in order and that the grid tells the truth of it.*)
(*                                                                         *)
(* A command is a chain of assignments and events, and the page's store is *)
(* updated by each event within the chain.  A world is Sound (section 1)   *)
(* when its fields, its fires, its crews and its signals are in order and  *)
(* the store agrees with it; between the assignments of a chain it is so   *)
(* but for the crews in a set, or related to the store in another way for  *)
(* one responder.  Sections 4 to 9 take a sound world through each part of *)
(* a command and of the tick, 10 through each step of the page and its     *)
(* operator, and 11 says what a sound world shows.                         *)
(***************************************************************************)
EXTENDS MockConsole, FiniteSetTheorems, SequenceTheorems, TLAPS

Concatenated(s, t) == s \o t
Flat == INSTANCE FoldTheorems WITH Step <- Concatenated
Resignals == INSTANCE FoldTheorems WITH Step <- Resignal
Moves == INSTANCE FoldTheorems WITH Step <- MoveResponder
Stops == INSTANCE FoldTheorems WITH Step <- Stop
Sprays == INSTANCE FoldTheorems WITH Step <- ApplyFire
Raises == INSTANCE FoldTheorems WITH Step <- PlaceMountain
Kindles == INSTANCE FoldTheorems WITH Step <- PlaceFire
Stations == INSTANCE FoldTheorems WITH Step <- CreateResponder
-----------------------------------------------------------------------------
(* 1. The inductive invariant *)

FireRow == [at : Grid, intensity : Nat, status : {"active", "extinguished"}]

UnitRow == [at : Grid, last_known : Grid, status : {"idle", "moving", "fighting_fire"},
            signal_status : {"connected", "blocked"}, assigned_fire : Nat,
            path : Seq(Grid), path_index : Nat]

(* The fields of a world and of its store. *)
Shaped(w) ==
  /\ w = [exists |-> w.exists, control |-> w.control, mountains |-> w.mountains,
          fires |-> w.fires, responders |-> w.responders, heap |-> w.heap,
          recent |-> w.recent, drawn |-> w.drawn, listening |-> w.listening,
          store |-> w.store]
  /\ w.heap = [fires |-> w.heap.fires, responders |-> w.heap.responders]
  /\ w.store = [state |-> w.store.state, events |-> w.store.events, base |-> w.store.base,
                timeline |-> w.store.timeline, cursor |-> w.store.cursor]
  /\ w.drawn \in Nat /\ w.listening \in BOOLEAN

(* Every event the mock or the store keeps has been given its id.          *)
Messages(w) ==
  \E T : /\ w.recent \in Seq(T) /\ w.store.events \in Seq(T)
         /\ \A e \in T : e.id \in 1 .. w.drawn

Objects(w) ==
  /\ w.mountains \subseteq MountainCells
  /\ DOMAIN w.heap.fires \subseteq 1 .. w.drawn /\ w.fires \subseteq DOMAIN w.heap.fires
  /\ \A f \in DOMAIN w.heap.fires : w.heap.fires[f] \in FireRow
  /\ DOMAIN w.heap.responders \subseteq 1 .. w.drawn /\ w.responders \subseteq DOMAIN w.heap.responders
  /\ \A r \in DOMAIN w.heap.responders : w.heap.responders[r] \in UnitRow

(* A row of the store agrees with the mock's own. *)
Match(row, shown) ==
  /\ shown \in UnitRow
  /\ row.at = shown.at /\ row.last_known = shown.last_known /\ row.path_index = shown.path_index
  /\ row.status = shown.status /\ row.signal_status = shown.signal_status
  /\ IF row.path = NoPath THEN row.assigned_fire = NoFire
     ELSE row.assigned_fire = shown.assigned_fire /\ row.path = shown.path

Engaged(w, row) ==
  row.assigned_fire \in w.fires /\ w.heap.fires[row.assigned_fire].status = "active"

OnRoute(w, row) ==
  /\ row.path # NoPath /\ row.path_index < Len(row.path)
  /\ row.path[row.path_index + 1] = row.at
  /\ row.path[Len(row.path)] = w.heap.fires[row.assigned_fire].at

Busy(w, row) ==
  /\ row.path = NoPath => row.assigned_fire = NoFire
  /\ row.signal_status = "connected" => row.last_known = row.at
  /\ row.status = "moving" => Engaged(w, row) /\ OnRoute(w, row)
  /\ row.status = "fighting_fire" =>
       Engaged(w, row) /\ w.heap.fires[row.assigned_fire].at = row.at

(* Every responder but those in S. *)
Crews(w, S) == \A r \in w.responders \ S : Busy(w, w.heap.responders[r])

Fires(w) ==
  \A f \in w.fires : LET fire == w.heap.fires[f]
                     IN  fire.status = "active" => fire.intensity > 0 /\ fire.at \notin w.mountains

(* The store agrees with the mock, but for r with which it is related so.  *)
Agrees(w, r, related) ==
  w.listening =>
    LET m == w.store.state
    IN  /\ m = [control |-> w.control, mountains |-> w.mountains, fires |-> m.fires,
                responders |-> m.responders]
        /\ DOMAIN m.fires = w.fires
        /\ \A f \in w.fires : m.fires[f] \in {Shared, w.heap.fires[f]}
        /\ DOMAIN m.responders = w.responders
        /\ \A i \in w.responders :
             \/ m.responders[i] = Shared
             \/ i = r /\ <<w.heap.responders[i], m.responders[i]>> \in related
             \/ i # r /\ Match(w.heap.responders[i], m.responders[i])

Current(w, S) ==
  \A r \in S :
    LET row == w.heap.responders[r]
    IN  row.signal_status = IF Sees(w.control, row.at, w.mountains) THEN "connected" ELSE "blocked"

(* The world but for the crews in S. *)
SoundBut(w, S) ==
  /\ Shaped(w) /\ Messages(w) /\ Objects(w) /\ Fires(w) /\ Crews(w, S)
  /\ Agrees(w, NoResponder, {})

Sound(w) == SoundBut(w, {}) /\ Current(w, w.responders)

Inductive == Sound(world) /\ open = world.listening
-----------------------------------------------------------------------------
(* 2. Folds over lists, step by step *)

(* The folds of FoldTheorems are those of the community modules.           *)
LEMMA MaxIs ==
  ASSUME NEW S
  PROVE  Flat!Greatest(S) = Max(S)
BY DEF Max, Flat!Greatest

LEMMA FlattenIs ==
  ASSUME NEW parts
  PROVE  Flat!Flattened(parts) = FlattenSeq(parts)
BY Zenon DEF FlattenSeq, Flat!Flattened

LEMMA ResignalsTrace ==
  ASSUME NEW T, NEW es \in Seq(T), NEW w
  PROVE  \E g : /\ g[0] = w /\ \A i \in 1 .. Len(es) : g[i] = Resignal(g[i - 1], es[i])
               /\ FoldLeft(Resignal, w, es) = g[Len(es)]
<1>1. PICK g : Resignals!Trace(g, w, es) /\ Resignals!LeftFold(w, es) = g[Len(es)]
  BY Resignals!LeftTrace
<1>2. Resignals!LeftFold(w, es) = FoldLeft(Resignal, w, es)
  BY Zenon DEF FoldLeft, MapThenFoldSet, Max, Resignals!LeftFold, Resignals!Greatest
<1> QED BY <1>1, <1>2 DEF Resignals!Trace

LEMMA MovesTrace ==
  ASSUME NEW T, NEW es \in Seq(T), NEW w
  PROVE  \E g : /\ g[0] = w /\ \A i \in 1 .. Len(es) : g[i] = MoveResponder(g[i - 1], es[i])
               /\ FoldLeft(MoveResponder, w, es) = g[Len(es)]
<1>1. PICK g : Moves!Trace(g, w, es) /\ Moves!LeftFold(w, es) = g[Len(es)]
  BY Moves!LeftTrace
<1>2. Moves!LeftFold(w, es) = FoldLeft(MoveResponder, w, es)
  BY Zenon DEF FoldLeft, MapThenFoldSet, Max, Moves!LeftFold, Moves!Greatest
<1> QED BY <1>1, <1>2 DEF Moves!Trace

LEMMA StopsTrace ==
  ASSUME NEW T, NEW es \in Seq(T), NEW w
  PROVE  \E g : /\ g[0] = w /\ \A i \in 1 .. Len(es) : g[i] = Stop(g[i - 1], es[i])
               /\ FoldLeft(Stop, w, es) = g[Len(es)]
<1>1. PICK g : Stops!Trace(g, w, es) /\ Stops!LeftFold(w, es) = g[Len(es)]
  BY Stops!LeftTrace
<1>2. Stops!LeftFold(w, es) = FoldLeft(Stop, w, es)
  BY Zenon DEF FoldLeft, MapThenFoldSet, Max, Stops!LeftFold, Stops!Greatest
<1> QED BY <1>1, <1>2 DEF Stops!Trace

LEMMA SpraysTrace ==
  ASSUME NEW T, NEW es \in Seq(T), NEW w
  PROVE  \E g : /\ g[0] = w /\ \A i \in 1 .. Len(es) : g[i] = ApplyFire(g[i - 1], es[i])
               /\ FoldLeft(ApplyFire, w, es) = g[Len(es)]
<1>1. PICK g : Sprays!Trace(g, w, es) /\ Sprays!LeftFold(w, es) = g[Len(es)]
  BY Sprays!LeftTrace
<1>2. Sprays!LeftFold(w, es) = FoldLeft(ApplyFire, w, es)
  BY Zenon DEF FoldLeft, MapThenFoldSet, Max, Sprays!LeftFold, Sprays!Greatest
<1> QED BY <1>1, <1>2 DEF Sprays!Trace

LEMMA RaisesTrace ==
  ASSUME NEW T, NEW es \in Seq(T), NEW w
  PROVE  \E g : /\ g[0] = w /\ \A i \in 1 .. Len(es) : g[i] = PlaceMountain(g[i - 1], es[i])
               /\ FoldLeft(PlaceMountain, w, es) = g[Len(es)]
<1>1. PICK g : Raises!Trace(g, w, es) /\ Raises!LeftFold(w, es) = g[Len(es)]
  BY Raises!LeftTrace
<1>2. Raises!LeftFold(w, es) = FoldLeft(PlaceMountain, w, es)
  BY Zenon DEF FoldLeft, MapThenFoldSet, Max, Raises!LeftFold, Raises!Greatest
<1> QED BY <1>1, <1>2 DEF Raises!Trace

LEMMA KindlesTrace ==
  ASSUME NEW T, NEW es \in Seq(T), NEW w
  PROVE  \E g : /\ g[0] = w /\ \A i \in 1 .. Len(es) : g[i] = PlaceFire(g[i - 1], es[i])
               /\ FoldLeft(PlaceFire, w, es) = g[Len(es)]
<1>1. PICK g : Kindles!Trace(g, w, es) /\ Kindles!LeftFold(w, es) = g[Len(es)]
  BY Kindles!LeftTrace
<1>2. Kindles!LeftFold(w, es) = FoldLeft(PlaceFire, w, es)
  BY Zenon DEF FoldLeft, MapThenFoldSet, Max, Kindles!LeftFold, Kindles!Greatest
<1> QED BY <1>1, <1>2 DEF Kindles!Trace

LEMMA StationsTrace ==
  ASSUME NEW T, NEW es \in Seq(T), NEW w
  PROVE  \E g : /\ g[0] = w /\ \A i \in 1 .. Len(es) : g[i] = CreateResponder(g[i - 1], es[i])
               /\ FoldLeft(CreateResponder, w, es) = g[Len(es)]
<1>1. PICK g : Stations!Trace(g, w, es) /\ Stations!LeftFold(w, es) = g[Len(es)]
  BY Stations!LeftTrace
<1>2. Stations!LeftFold(w, es) = FoldLeft(CreateResponder, w, es)
  BY Zenon DEF FoldLeft, MapThenFoldSet, Max, Stations!LeftFold, Stations!Greatest
<1> QED BY <1>1, <1>2 DEF Stations!Trace
-----------------------------------------------------------------------------
(* 3. Events *)

LEMMA EmitIs ==
  ASSUME NEW w, Shaped(w), NEW e
  PROVE  LET v == Emit(w, e)
         IN  /\ Shaped(v) /\ v.heap = w.heap /\ v.drawn = w.drawn + 1
             /\ v.control = w.control /\ v.mountains = w.mountains /\ v.fires = w.fires
             /\ v.responders = w.responders /\ v.listening = w.listening /\ v.exists = w.exists
             /\ v.store.cursor = w.store.cursor
<1> DEFINE event == Numbered(w.drawn + 1, e)
           recent == <<event>> \o w.recent
           kept == SubSeq(recent, 1, IF Len(recent) > MaxRecent THEN MaxRecent ELSE Len(recent))
           store == IF w.listening THEN Store(w.heap)!ApplyEvent(w.store, event) ELSE w.store
           v == Emit(w, e)
<1>1. v = [w EXCEPT !.drawn = w.drawn + 1, !.recent = kept, !.store = store]
  BY DEF Emit
<1>2. /\ store = [state |-> store.state, events |-> store.events, base |-> store.base,
                  timeline |-> store.timeline, cursor |-> store.cursor]
      /\ store.cursor = w.store.cursor
  BY DEF Shaped, Store!ApplyEvent
<1> HIDE DEF kept, store, event, recent
<1>3. v = [exists |-> w.exists, control |-> w.control, mountains |-> w.mountains,
          fires |-> w.fires, responders |-> w.responders, heap |-> w.heap,
          recent |-> kept, drawn |-> w.drawn + 1, listening |-> w.listening,
          store |-> store]
  BY <1>1 DEF Shaped
<1> HIDE DEF v
<1> QED BY <1>2, <1>3 DEF Shaped, v

LEMMA ReduceIs ==
  ASSUME NEW heap, NEW m, NEW e
  PROVE  /\ e.type = "FIRE_CREATED" => Reduce(heap, m, e) = FireCreated(m, e)
         /\ e.type = "MOUNTAIN_PLACED" =>
              Reduce(heap, m, e) = [m EXCEPT !.mountains = m.mountains \union {e.cell}]
         /\ e.type = "MOUNTAIN_REMOVED" =>
              Reduce(heap, m, e) = [m EXCEPT !.mountains = m.mountains \ {e.cell}]
         /\ e.type = "RESPONDER_CREATED" => Reduce(heap, m, e) = ResponderCreated(m, e)
         /\ e.type \in OfResponder => Reduce(heap, m, e) = MapResponder(heap, m, e)
         /\ e.type \in OfFire => Reduce(heap, m, e) = MapFire(heap, m, e)
         /\ e.type = "MISSION_CONTROL_MOVED" => Reduce(heap, m, e) = [m EXCEPT !.control = e.cell]
         /\ e.type = "MISSION_RESET" => Reduce(heap, m, e) = Bare(e.cell)
<1>1. e.type = "FIRE_CREATED" => Reduce(heap, m, e) = FireCreated(m, e)
  BY DEF Reduce, OfResponder, OfFire
<1>2. e.type \in OfResponder => Reduce(heap, m, e) = MapResponder(heap, m, e)
  BY DEF Reduce, OfResponder, OfFire
<1> QED BY <1>1, <1>2 DEF Reduce, OfResponder, OfFire

(* An event that is made can be read again. *)
LEMMA NumberedIs ==
  ASSUME NEW n, NEW e
  PROVE  /\ Numbered(n, e).id = n
         /\ \A k \in DOMAIN e : k # "id" => Numbered(n, e)[k] = e[k]
BY DEF Numbered

(* The newest of a log and an event, as many as are kept. *)
LEMMA KeptIs ==
  ASSUME NEW T, NEW es \in Seq(T), NEW e \in T, NEW most \in Nat
  PROVE  LET all == <<e>> \o es
         IN  SubSeq(all, 1, IF Len(all) > most THEN most ELSE Len(all)) \in Seq(T)
<1> DEFINE all == <<e>> \o es
           n == IF Len(all) > most THEN most ELSE Len(all)
<1>1. all \in Seq(T) /\ Len(all) \in Nat
  OBVIOUS
<1> HIDE DEF all
<1>2. n \in Int /\ \A i \in 1 .. n : all[i] \in T
  BY <1>1
<1> HIDE DEF n
<1>3. SubSeq(all, 1, n) \in Seq(T)
  BY <1>2, SubSeqProperties
<1> QED BY <1>3 DEF all, n

(* Ids are drawn once: no event is in the log before it is emitted.        *)
LEMMA EmitHeard ==
  ASSUME NEW w, Shaped(w), Messages(w), NEW e
  PROVE  LET v == Emit(w, e)
         IN  /\ Messages(v)
             /\ IF w.listening /\ w.store.state # NoState
                THEN v.store.state = Reduce(w.heap, w.store.state, Numbered(w.drawn + 1, e))
                ELSE v.store = w.store
<1> DEFINE event == Numbered(w.drawn + 1, e)
           recent == <<event>> \o w.recent
           kept == SubSeq(recent, 1, IF Len(recent) > MaxRecent THEN MaxRecent ELSE Len(recent))
           store == IF w.listening THEN Store(w.heap)!ApplyEvent(w.store, event) ELSE w.store
           v == Emit(w, e)
<1>1. PICK T : /\ w.recent \in Seq(T) /\ w.store.events \in Seq(T)
               /\ \A x \in T : x.id \in 1 .. w.drawn
  BY DEF Messages
<1>2. w.drawn \in Nat /\ event.id = w.drawn + 1
  BY NumberedIs DEF Shaped
<1>3. v.recent = kept /\ v.drawn = w.drawn + 1 /\ v.store = store
  BY DEF Emit, Shaped
<1> HIDE DEF v, event
<1> DEFINE S == T \union {event}
<1>4. w.recent \in Seq(S) /\ w.store.events \in Seq(S) /\ event \in S
  BY <1>1
<1>5. \A x \in S : x.id \in 1 .. w.drawn + 1
  BY <1>1, <1>2
<1> HIDE DEF S
<1>6. kept \in Seq(S)
  BY <1>4, KeptIs, LimitsAssumption
<1> HIDE DEF kept, recent
<1>7. ~Store(w.heap)!InLog(w.store, event)
  <2>1. \A i \in DOMAIN w.store.events : w.store.events[i].id # event.id
    BY <1>1, <1>2
  <2> QED BY <2>1, Zenon DEF Store!InLog
<1>8. CASE w.listening /\ w.store.state # NoState
  <2>1. Store(w.heap)!Applies(w.store, event)
    BY <1>7, <1>8, Zenon DEF Store!Applies
  <2>2. /\ store.state = Reduce(w.heap, w.store.state, event)
        /\ store.events = Store(w.heap)!Newest(<<event>> \o w.store.events)
    BY <1>8, <2>1 DEF Store!ApplyEvent
  <2>3. store.events \in Seq(S)
    BY <1>4, <2>2, KeptIs, LimitsAssumption DEF Store!Newest
  <2> HIDE DEF store
  <2>4. Messages(v)
    BY <1>3, <1>5, <1>6, <2>3 DEF Messages
  <2> QED BY <1>3, <1>8, <2>2, <2>4 DEF event, v
<1>9. CASE ~(w.listening /\ w.store.state # NoState)
  <2>1. store = w.store
    BY <1>9 DEF Store!ApplyEvent, Store!Applies
  <2> HIDE DEF store
  <2>2. Messages(v)
    BY <1>3, <1>4, <1>5, <1>6, <2>1 DEF Messages
  <2> QED BY <1>3, <1>9, <2>1, <2>2 DEF v
<1> QED BY <1>8, <1>9
-----------------------------------------------------------------------------
(* 4. An event about a responder *)

Matches == {p \in UnitRow \X UnitRow : Match(p[1], p[2])}

LEMMA SetResponderIs ==
  ASSUME NEW w, Shaped(w), NEW r \in DOMAIN w.heap.responders, NEW row
  PROVE  LET v == SetResponder(w, r, row)
         IN  /\ Shaped(v) /\ v.heap.fires = w.heap.fires /\ v.drawn = w.drawn
             /\ DOMAIN v.heap.responders = DOMAIN w.heap.responders
             /\ v.heap.responders[r] = row
             /\ \A i \in DOMAIN w.heap.responders : i # r => v.heap.responders[i] = w.heap.responders[i]
             /\ v.control = w.control /\ v.mountains = w.mountains /\ v.fires = w.fires
             /\ v.responders = w.responders /\ v.listening = w.listening /\ v.exists = w.exists
             /\ v.store = w.store /\ v.recent = w.recent
<1> DEFINE rows == [w.heap.responders EXCEPT ![r] = row]
           v == SetResponder(w, r, row)
<1>1. /\ DOMAIN rows = DOMAIN w.heap.responders /\ rows[r] = row
      /\ \A i \in DOMAIN w.heap.responders : i # r => rows[i] = w.heap.responders[i]
  OBVIOUS
<1> HIDE DEF rows
<1>2. v = [exists |-> w.exists, control |-> w.control, mountains |-> w.mountains,
          fires |-> w.fires, responders |-> w.responders,
          heap |-> [fires |-> w.heap.fires, responders |-> rows],
          recent |-> w.recent, drawn |-> w.drawn, listening |-> w.listening,
          store |-> w.store]
  BY DEF Shaped, SetResponder, rows
<1> HIDE DEF v
<1> QED BY <1>1, <1>2 DEF Shaped, v

(* What an event leaves as it is. *)
Same(w, v) ==
  /\ v.exists = w.exists /\ v.control = w.control /\ v.mountains = w.mountains
  /\ v.fires = w.fires /\ v.responders = w.responders /\ v.listening = w.listening
  /\ v.store.cursor = w.store.cursor

(* Only the row of one responder is another. *)
Rewrites(w, v, r, row) ==
  /\ Same(w, v) /\ v.heap.fires = w.heap.fires /\ v.heap.responders[r] = row
  /\ DOMAIN v.heap.responders = DOMAIN w.heap.responders
  /\ \A i \in DOMAIN w.heap.responders : i # r => v.heap.responders[i] = w.heap.responders[i]
  /\ v.drawn = w.drawn + 1

(* The row of a responder changes and an event tells of it: what relates   *)
(* the mock's row and the store's after it is told in next.                *)
LEMMA Told ==
  ASSUME NEW w, Shaped(w), Messages(w), Objects(w), NEW r \in w.responders,
         NEW related, NEW next, Agrees(w, r, related), NEW row \in UnitRow, NEW e,
         "type" \in DOMAIN e, "responder" \in DOMAIN e,
         e.type \in OfResponder, e.responder = r,
         <<row, ResponderAfter(row, Numbered(w.drawn + 1, e))>> \in next,
         \A shown : <<w.heap.responders[r], shown>> \in related =>
                      <<row, ResponderAfter(shown, Numbered(w.drawn + 1, e))>> \in next
  PROVE  LET v == Emit(SetResponder(w, r, row), e)
         IN  /\ Shaped(v) /\ Messages(v) /\ Objects(v) /\ Agrees(v, r, next)
             /\ Rewrites(w, v, r, row)
<1> DEFINE u == SetResponder(w, r, row)
           v == Emit(u, e)
           event == Numbered(w.drawn + 1, e)
           m == w.store.state
<1>0. r \in DOMAIN w.heap.responders
  BY DEF Objects
<1>1. /\ Shaped(u) /\ u.heap.fires = w.heap.fires /\ u.drawn = w.drawn
      /\ DOMAIN u.heap.responders = DOMAIN w.heap.responders
      /\ u.heap.responders[r] = row
      /\ \A i \in DOMAIN w.heap.responders : i # r => u.heap.responders[i] = w.heap.responders[i]
      /\ u.control = w.control /\ u.mountains = w.mountains /\ u.fires = w.fires
      /\ u.responders = w.responders /\ u.listening = w.listening /\ u.exists = w.exists
      /\ u.store = w.store /\ u.recent = w.recent
  BY <1>0, SetResponderIs
<1>2. event.type \in OfResponder /\ event.responder = r
  BY NumberedIs
<1> HIDE DEF u, event
<1>3. Messages(u)
  BY <1>1 DEF Messages
<1>4. /\ Shaped(v) /\ v.heap = u.heap /\ v.drawn = u.drawn + 1
      /\ v.control = u.control /\ v.mountains = u.mountains /\ v.fires = u.fires
      /\ v.responders = u.responders /\ v.listening = u.listening /\ v.exists = u.exists
      /\ v.store.cursor = u.store.cursor
  BY <1>1, EmitIs
<1>5. /\ Messages(v)
      /\ u.listening /\ u.store.state # NoState =>
           v.store.state = Reduce(u.heap, u.store.state, event)
  BY <1>1, <1>3, EmitHeard DEF event
<1> HIDE DEF v
<1>6. Objects(v)
  <2>1. w.drawn \in Nat
    BY DEF Shaped
  <2>2. DOMAIN v.heap.fires \subseteq 1 .. v.drawn /\ DOMAIN v.heap.responders \subseteq 1 .. v.drawn
    BY <1>1, <1>4, <2>1 DEF Objects
  <2>3. \A i \in DOMAIN v.heap.responders : v.heap.responders[i] \in UnitRow
    BY <1>1, <1>4 DEF Objects
  <2> QED BY <1>1, <1>4, <2>2, <2>3 DEF Objects
<1>7. ASSUME w.listening
      PROVE  Agrees(v, r, next)
  <2> DEFINE after == ResponderAfter(Row(u.heap.responders, m.responders, r), event)
             rows == [m.responders EXCEPT ![r] = after]
             n == v.store.state
  <2>1. /\ m = [control |-> w.control, mountains |-> w.mountains, fires |-> m.fires,
                responders |-> m.responders]
        /\ DOMAIN m.fires = w.fires
        /\ \A f \in w.fires : m.fires[f] \in {Shared, w.heap.fires[f]}
        /\ DOMAIN m.responders = w.responders
        /\ \A i \in w.responders :
             \/ m.responders[i] = Shared
             \/ i = r /\ <<w.heap.responders[i], m.responders[i]>> \in related
             \/ i # r /\ Match(w.heap.responders[i], m.responders[i])
    BY <1>7 DEF Agrees
  <2>2. m # NoState
    BY <2>1 DEF NoState
  <2>3. n = MapResponder(u.heap, m, event)
    BY <1>1, <1>2, <1>5, <1>7, <2>2, ReduceIs
  <2>4. <<row, after>> \in next
    <3>1. CASE m.responders[r] = Shared
      BY <1>1, <3>1 DEF Row, event
    <3>2. CASE m.responders[r] # Shared
      BY <1>1, <2>1, <3>2 DEF Row, event
    <3> QED BY <3>1, <3>2
  <2> HIDE DEF after
  <2>5. /\ DOMAIN rows = w.responders /\ rows[r] = after
        /\ \A i \in w.responders : i # r => rows[i] = m.responders[i]
    BY <2>1
  <2>6. MapResponder(u.heap, m, event) = [m EXCEPT !.responders = rows]
    BY <1>2, <2>1 DEF MapResponder, after
  <2> HIDE DEF m, rows
  <2>7. [m EXCEPT !.responders = rows]
          = [control |-> w.control, mountains |-> w.mountains, fires |-> m.fires,
             responders |-> rows]
    BY <2>1
  <2>8. n = [control |-> w.control, mountains |-> w.mountains, fires |-> m.fires,
             responders |-> rows]
    BY <2>3, <2>6, <2>7
  <2> HIDE DEF n
  <2>9. n.fires = m.fires /\ n.responders = rows
    BY <2>8
  <2>10. \A i \in w.responders :
             \/ rows[i] = Shared
             \/ i = r /\ <<v.heap.responders[i], rows[i]>> \in next
             \/ i # r /\ Match(v.heap.responders[i], rows[i])
    <3>1. w.responders \subseteq DOMAIN w.heap.responders
      BY DEF Objects
    <3> QED BY <1>1, <1>4, <2>1, <2>4, <2>5, <3>1
  <2>11. \A f \in w.fires : n.fires[f] \in {Shared, v.heap.fires[f]}
    BY <1>1, <1>4, <2>1, <2>9
  <2> QED BY SMTT(60), <1>1, <1>4, <2>1, <2>5, <2>8, <2>9, <2>10, <2>11 DEF Agrees, n
<1>8. Agrees(v, r, next)
  BY <1>1, <1>4, <1>7 DEF Agrees
<1>9. Rewrites(w, v, r, row)
  BY <1>1, <1>4 DEF Rewrites, Same
<1> QED BY <1>4, <1>5, <1>6, <1>8, <1>9 DEF v, u

(* What each event makes of a row, field by field. *)
LEMMA DispatchedIs ==
  ASSUME NEW x \in UnitRow, NEW e, e.type = "RESPONDER_DISPATCHED", e.fire \in Nat
  PROVE  LET y == ResponderAfter(x, e)
         IN  /\ y \in UnitRow
             /\ y.at = x.at /\ y.last_known = x.last_known /\ y.status = "moving"
             /\ y.signal_status = x.signal_status /\ y.assigned_fire = e.fire /\ y.path = x.path
             /\ y.path_index = x.path_index
<1>1. ResponderAfter(x, e) = [x EXCEPT !.assigned_fire = e.fire, !.status = "moving"]
  BY Zenon DEF ResponderAfter
<1> QED BY <1>1 DEF UnitRow

LEMMA PathAssignedIs ==
  ASSUME NEW x \in UnitRow, NEW e, e.type = "RESPONDER_PATH_ASSIGNED", e.path \in Seq(Grid)
  PROVE  LET y == ResponderAfter(x, e)
         IN  /\ y \in UnitRow
             /\ y.at = x.at /\ y.last_known = x.last_known /\ y.status = "moving"
             /\ y.signal_status = x.signal_status /\ y.assigned_fire = x.assigned_fire
             /\ y.path = e.path /\ y.path_index = 0
<1>1. ResponderAfter(x, e) = [x EXCEPT !.path = e.path, !.path_index = 0, !.status = "moving"]
  BY Zenon DEF ResponderAfter
<1>2. 0 \in Nat /\ "moving" \in {"idle", "moving", "fighting_fire"}
  OBVIOUS
<1>3. DOMAIN x = {"at", "last_known", "status", "signal_status", "assigned_fire", "path", "path_index"}
  BY DEF UnitRow
<1> QED BY <1>1, <1>2, <1>3 DEF UnitRow

LEMMA MovedIs ==
  ASSUME NEW x \in UnitRow, NEW e, e.type = "RESPONDER_MOVED",
         e.position \in Grid, e.last_known \in Grid,
         e.path_index \in Nat, e.status \in {"idle", "moving", "fighting_fire"},
         e.signal_status \in {"connected", "blocked"}
  PROVE  LET y == ResponderAfter(x, e)
         IN  /\ y \in UnitRow
             /\ y.at = e.position /\ y.last_known = e.last_known /\ y.status = e.status
             /\ y.signal_status = e.signal_status /\ y.assigned_fire = x.assigned_fire
             /\ y.path = x.path /\ y.path_index = e.path_index
<1>1. ResponderAfter(x, e) = [x EXCEPT !.at = e.position, !.last_known = e.last_known,
                                      !.path_index = e.path_index,
                                      !.status = e.status, !.signal_status = e.signal_status]
  BY Zenon DEF ResponderAfter
<1> QED BY <1>1 DEF UnitRow

LEMMA LostIs ==
  ASSUME NEW x \in UnitRow, NEW e, e.type = "SIGNAL_LOST", e.last_known \in Grid
  PROVE  LET y == ResponderAfter(x, e)
         IN  /\ y \in UnitRow
             /\ y.at = x.at /\ y.last_known = e.last_known /\ y.status = x.status
             /\ y.signal_status = "blocked" /\ y.assigned_fire = x.assigned_fire
             /\ y.path = x.path /\ y.path_index = x.path_index
<1>1. ResponderAfter(x, e) = [x EXCEPT !.signal_status = "blocked", !.last_known = e.last_known]
  BY Zenon DEF ResponderAfter
<1> QED BY <1>1 DEF UnitRow

LEMMA RestoredIs ==
  ASSUME NEW x \in UnitRow, NEW e, e.type = "SIGNAL_RESTORED", e.position \in Grid
  PROVE  LET y == ResponderAfter(x, e)
         IN  /\ y \in UnitRow
             /\ y.at = x.at /\ y.last_known = e.position /\ y.status = x.status
             /\ y.signal_status = "connected" /\ y.assigned_fire = x.assigned_fire
             /\ y.path = x.path /\ y.path_index = x.path_index
<1>1. ResponderAfter(x, e) = [x EXCEPT !.signal_status = "connected", !.last_known = e.position]
  BY Zenon DEF ResponderAfter, Restored
<1> QED BY <1>1 DEF UnitRow

LEMMA NoRouteIs ==
  ASSUME NEW x \in UnitRow, NEW e, e.type = "ROUTE_NOT_FOUND"
  PROVE  LET y == ResponderAfter(x, e)
         IN  /\ y \in UnitRow
             /\ y.at = x.at /\ y.last_known = x.last_known /\ y.status = "idle"
             /\ y.signal_status = x.signal_status /\ y.assigned_fire = NoFire /\ y.path = NoPath
             /\ y.path_index = x.path_index
<1>1. ResponderAfter(x, e) = [x EXCEPT !.status = "idle", !.assigned_fire = NoFire, !.path = NoPath]
  BY Zenon DEF ResponderAfter
<1>2. NoFire \in Nat /\ NoPath \in Seq(Grid)
  BY DEF NoFire, NoPath
<1> QED BY <1>1, <1>2 DEF UnitRow

(* The agreement of all rows can be said from the place of any responder.  *)
LEMMA Refocus ==
  ASSUME NEW w, Objects(w), Shaped(w), NEW r
  PROVE  Agrees(w, r, Matches) <=> Agrees(w, NoResponder, {})
<1>1. \A i \in w.responders : w.heap.responders[i] \in UnitRow /\ i # NoResponder
  BY DEF Objects, NoResponder, Shaped
<1>2. \A row \in UnitRow : \A shown : <<row, shown>> \in Matches <=> Match(row, shown)
  BY DEF Matches, Match
<1> QED BY <1>1, <1>2 DEF Agrees

(* A responder is put right and the store told so. *)
LEMMA ToldSound ==
  ASSUME NEW w, NEW S, SoundBut(w, S), NEW r \in w.responders, NEW row \in UnitRow,
         Busy(w, row), NEW e,
         "type" \in DOMAIN e, "responder" \in DOMAIN e,
         e.type \in OfResponder, e.responder = r,
         Match(row, ResponderAfter(row, Numbered(w.drawn + 1, e))),
         \A shown : Match(w.heap.responders[r], shown) =>
                      Match(row, ResponderAfter(shown, Numbered(w.drawn + 1, e)))
  PROVE  LET v == Emit(SetResponder(w, r, row), e)
         IN  SoundBut(v, S \ {r}) /\ Rewrites(w, v, r, row)
<1> DEFINE v == Emit(SetResponder(w, r, row), e)
           event == Numbered(w.drawn + 1, e)
<1>0. Shaped(w) /\ Messages(w) /\ Objects(w) /\ Fires(w) /\ Crews(w, S) /\ Agrees(w, NoResponder, {})
  BY DEF SoundBut
<1>1. Agrees(w, r, Matches)
  BY <1>0, Refocus
<1>2. \A a, b : Match(a, b) /\ a \in UnitRow => <<a, b>> \in Matches
  BY DEF Matches, Match
<1>3. \A a, b : <<a, b>> \in Matches => Match(a, b)
  BY DEF Matches
<1>4. <<row, ResponderAfter(row, event)>> \in Matches
  BY <1>2
<1>5. \A shown : <<w.heap.responders[r], shown>> \in Matches =>
                   <<row, ResponderAfter(shown, event)>> \in Matches
  BY <1>2, <1>3
<1>6. /\ Shaped(v) /\ Messages(v) /\ Objects(v) /\ Agrees(v, r, Matches)
      /\ Rewrites(w, v, r, row)
  BY <1>0, <1>1, <1>4, <1>5, Told
<1> HIDE DEF v
<1>7. Agrees(v, NoResponder, {})
  BY <1>6, Refocus
<1>8. Fires(v)
  BY <1>0, <1>6 DEF Fires, Rewrites, Same
<1>9. Crews(v, S \ {r})
  <2>1. \A x : Busy(w, x) => Busy(v, x)
    BY <1>6 DEF Busy, Engaged, OnRoute, Rewrites, Same
  <2>2. w.responders \subseteq DOMAIN w.heap.responders
    BY <1>0 DEF Objects
  <2> QED BY <1>0, <1>6, <2>1, <2>2 DEF Crews, Rewrites, Same
<1> QED BY <1>6, <1>7, <1>8, <1>9 DEF SoundBut, v
-----------------------------------------------------------------------------
(* 5. Signals *)

(* What a recomputation of signals leaves as it is. *)
Resighted(w, v) ==
  /\ Same(w, v) /\ v.heap.fires = w.heap.fires
  /\ \A i \in w.responders : v.heap.responders[i].at = w.heap.responders[i].at

LEMMA ResignalSound ==
  ASSUME NEW w, SoundBut(w, {}), NEW r \in w.responders
  PROVE  LET v == Resignal(w, r)
         IN  /\ SoundBut(v, {}) /\ Resighted(w, v) /\ Current(v, {r})
             /\ \A i \in w.responders : i # r => v.heap.responders[i] = w.heap.responders[i]
<1> DEFINE row == w.heap.responders[r]
           sees == Sees(w.control, row.at, w.mountains)
           v == Resignal(w, r)
<1>1. /\ row \in UnitRow /\ Busy(w, row) /\ w.responders \subseteq DOMAIN w.heap.responders
      /\ w.drawn \in Nat
  BY DEF SoundBut, Objects, Crews, Shaped
<1>2. CASE ~sees /\ row.signal_status # "blocked"
  <2> DEFINE dark == [row EXCEPT !.signal_status = "blocked"]
             e == [type |-> "SIGNAL_LOST", responder |-> r, last_known |-> row.last_known]
             event == Numbered(w.drawn + 1, e)
  <2>1. v = Emit(SetResponder(w, r, dark), e)
    BY <1>2 DEF Resignal
  <2>2. /\ dark \in UnitRow /\ dark.at = row.at /\ dark.last_known = row.last_known
        /\ dark.status = row.status /\ dark.signal_status = "blocked"
        /\ dark.assigned_fire = row.assigned_fire /\ dark.path = row.path
        /\ dark.path_index = row.path_index
    BY <1>1 DEF UnitRow
  <2>3. event.type = "SIGNAL_LOST" /\ event.last_known = row.last_known
    BY NumberedIs
  <2>4. \A x \in UnitRow :
          LET y == ResponderAfter(x, event)
          IN  /\ y \in UnitRow /\ y.at = x.at /\ y.last_known = row.last_known
              /\ y.status = x.status /\ y.signal_status = "blocked"
              /\ y.assigned_fire = x.assigned_fire /\ y.path = x.path
              /\ y.path_index = x.path_index
    <3>1. row.last_known \in Grid
      BY <1>1 DEF UnitRow
    <3> HIDE DEF event, row
    <3> QED BY <2>3, <3>1, LostIs
  <2> HIDE DEF event, dark
  <2>10. Busy(w, dark)
    BY <1>1, <2>2 DEF Busy, Engaged, OnRoute
  <2>5. Match(dark, ResponderAfter(dark, event))
    BY <2>2, <2>4, <2>10 DEF Match, Busy
  <2>6. \A shown : Match(row, shown) => Match(dark, ResponderAfter(shown, event))
    BY <2>2, <2>4 DEF Match
  <2>7. e.type \in OfResponder /\ e.responder = r /\ "type" \in DOMAIN e /\ "responder" \in DOMAIN e
    BY DEF OfResponder
  <2> HIDE DEF e
  <2>8. SoundBut(v, {} \ {r}) /\ Rewrites(w, v, r, dark)
    BY <2>1, <2>2, <2>5, <2>6, <2>7, <2>10, ToldSound DEF event
  <2>9. {} \ {r} = {}
    OBVIOUS
  <2> HIDE DEF v
  <2> QED BY <1>1, <1>2, <2>2, <2>8, <2>9 DEF Rewrites, Resighted, Current, Same, v
<1>3. CASE sees /\ row.signal_status = "blocked"
  <2> DEFINE seen == [row EXCEPT !.signal_status = "connected", !.last_known = row.at]
             e == [type |-> "SIGNAL_RESTORED", responder |-> r, position |-> row.at]
             event == Numbered(w.drawn + 1, e)
  <2>1. v = Emit(SetResponder(w, r, seen), e)
    BY <1>3 DEF Resignal
  <2>2. /\ seen \in UnitRow /\ seen.at = row.at /\ seen.last_known = row.at
        /\ seen.status = row.status /\ seen.signal_status = "connected"
        /\ seen.assigned_fire = row.assigned_fire /\ seen.path = row.path
        /\ seen.path_index = row.path_index
    BY <1>1 DEF UnitRow
  <2>3. event.type = "SIGNAL_RESTORED" /\ event.position = row.at
    BY NumberedIs
  <2>4. \A x \in UnitRow :
          LET y == ResponderAfter(x, event)
          IN  /\ y \in UnitRow /\ y.at = x.at /\ y.last_known = row.at
              /\ y.status = x.status /\ y.signal_status = "connected"
              /\ y.assigned_fire = x.assigned_fire /\ y.path = x.path
              /\ y.path_index = x.path_index
    <3>1. row.at \in Grid
      BY <1>1 DEF UnitRow
    <3> HIDE DEF event, row
    <3> QED BY <2>3, <3>1, RestoredIs
  <2> HIDE DEF event, seen
  <2>10. Busy(w, seen)
    BY <1>1, <2>2 DEF Busy, Engaged, OnRoute
  <2>5. Match(seen, ResponderAfter(seen, event))
    BY <2>2, <2>4, <2>10 DEF Match, Busy
  <2>6. \A shown : Match(row, shown) => Match(seen, ResponderAfter(shown, event))
    BY <2>2, <2>4 DEF Match
  <2>7. e.type \in OfResponder /\ e.responder = r /\ "type" \in DOMAIN e /\ "responder" \in DOMAIN e
    BY DEF OfResponder
  <2> HIDE DEF e
  <2>8. SoundBut(v, {} \ {r}) /\ Rewrites(w, v, r, seen)
    BY <2>1, <2>2, <2>5, <2>6, <2>7, <2>10, ToldSound DEF event
  <2>9. {} \ {r} = {}
    OBVIOUS
  <2> HIDE DEF v
  <2> QED BY <1>1, <1>3, <2>2, <2>8, <2>9 DEF Rewrites, Resighted, Current, Same, v
<1>4. CASE ~(~sees /\ row.signal_status # "blocked") /\ ~(sees /\ row.signal_status = "blocked")
  <2>1. v = w
    BY <1>4 DEF Resignal
  <2>2. row.signal_status = IF sees THEN "connected" ELSE "blocked"
    BY <1>1, <1>4 DEF UnitRow
  <2> HIDE DEF v
  <2> QED BY <1>1, <2>1, <2>2 DEF Resighted, Current, Same, v
<1> QED BY <1>2, <1>3, <1>4

(* A list in order holds the ids it is of, and all of them. *)
LEMMA InOrderIs ==
  ASSUME NEW k \in Nat, NEW ids \in SUBSET (1 .. k)
  PROVE  /\ InOrder(ids) \in Seq(ids)
         /\ \A r \in ids : \E j \in 1 .. Len(InOrder(ids)) : InOrder(ids)[j] = r
<1> DEFINE last == Max(ids \union {0})
           parts == [i \in 1 .. last |-> IF i \in ids THEN <<i>> ELSE << >>]
<1>1. last \in Nat /\ \A i \in ids : i <= last
  BY Flat!LastId, MaxIs
<1>2. InOrder(ids) = FlattenSeq(parts)
  BY DEF InOrder
<1> HIDE DEF last
<1>3. \A i \in 1 .. last : parts[i] \in Seq(ids) /\ parts[i] = IF i \in ids THEN <<i>> ELSE << >>
  OBVIOUS
<1>4. parts \in Seq(Seq(ids)) /\ Len(parts) = last
  BY <1>1, <1>3
<1> HIDE DEF parts
<1>5. PICK g : Flat!Trace(g, << >>, parts)
  BY <1>4, Flat!TraceExists
<1>6. FlattenSeq(parts) = g[last]
  <2>1. Flat!Concatenates
    BY DEF Flat!Concatenates, Concatenated
  <2> QED BY <1>4, <1>5, <2>1, FlattenIs, Flat!FlattenIsFold, Flat!FoldIsTrace
<1>7. g[0] = << >> /\ \A i \in 1 .. last : g[i] = g[i - 1] \o parts[i]
  BY <1>4, <1>5 DEF Flat!Trace, Concatenated
<1> DEFINE Holds(s, i) ==
             s \in Seq(ids) /\ \A r \in ids : r <= i => \E j \in 1 .. Len(s) : s[j] = r
           Q == {i \in 0 .. last : Holds(g[i], i)}
<1>8. 0 \in Q
  <2>1. 0 \in 0 .. last /\ \A r \in ids : ~(r <= 0)
    BY <1>1
  <2>2. g[0] = << >> /\ << >> \in Seq(ids)
    BY <1>7
  <2> QED BY <2>1, <2>2
<1>9. ASSUME NEW i \in 1 .. last, i - 1 \in Q
      PROVE  i \in Q
  <2> DEFINE s == g[i - 1]
             t == parts[i]
  <2>0. i \in 0 .. last
    BY <1>1
  <2>1. g[i] = s \o t
    BY <1>7
  <2>2. Holds(s, i - 1) /\ t \in Seq(ids)
    BY <1>3, <1>9
  <2>3. t = IF i \in ids THEN <<i>> ELSE << >>
    BY <1>3
  <2> HIDE DEF s, t
  <2>4. /\ s \o t \in Seq(ids) /\ Len(s \o t) = Len(s) + Len(t)
        /\ \A j \in 1 .. Len(s) : (s \o t)[j] = s[j]
    BY <2>2
  <2>5. ASSUME NEW r \in ids, r <= i
        PROVE  \E j \in 1 .. Len(s \o t) : (s \o t)[j] = r
    <3>1. CASE r = i
      <4>1. t = <<i>> /\ Len(s) \in Nat
        BY <2>2, <2>3, <3>1
      <4>2. (s \o t)[Len(s) + 1] = i /\ Len(s) + 1 \in 1 .. Len(s \o t)
        BY <2>2, <2>4, <4>1
      <4> QED BY <3>1, <4>2
    <3>2. CASE r # i
      <4>1. r <= i - 1
        BY <1>1, <2>5, <3>2
      <4>2. PICK j \in 1 .. Len(s) : s[j] = r
        BY <2>2, <4>1
      <4>3. Len(s) \in Nat /\ Len(t) \in Nat
        BY <2>2
      <4> QED BY <2>4, <4>2, <4>3
    <3> QED BY <3>1, <3>2
  <2> QED BY <2>0, <2>1, <2>4, <2>5
<1> HIDE DEF Q
<1>10. \A i \in 0 .. last : i \in Q
  BY <1>1, <1>8, <1>9, Flat!InductionUpTo
<1>11. last \in Q
  BY <1>1, <1>10
<1>12. Holds(g[last], last)
  BY <1>11 DEF Q
<1> QED BY <1>1, <1>2, <1>6, <1>12

(* Every responder has been looked at, and what was looked at is current.  *)
LEMMA RecomputeSound ==
  ASSUME NEW w, SoundBut(w, {})
  PROVE  LET v == RecomputeSignals(w)
         IN  /\ SoundBut(v, {}) /\ Resighted(w, v) /\ Current(v, v.responders)
<1> DEFINE es == InOrder(w.responders)
           n == Len(es)
           v == RecomputeSignals(w)
<1>1. w.drawn \in Nat /\ w.responders \in SUBSET (1 .. w.drawn)
  BY DEF SoundBut, Shaped, Objects
<1>2. es \in Seq(w.responders) /\ \A r \in w.responders : \E j \in 1 .. n : es[j] = r
  BY <1>1, InOrderIs
<1>3. n \in Nat /\ \A j \in 1 .. n : es[j] \in w.responders
  BY <1>2
<1>4. PICK g : /\ g[0] = w /\ \A i \in 1 .. n : g[i] = Resignal(g[i - 1], es[i])
               /\ FoldLeft(Resignal, w, es) = g[n]
  BY <1>2, ResignalsTrace
<1>5. v = g[n]
  BY <1>4 DEF RecomputeSignals
<1>6. g[0] = w /\ \A i \in 1 .. n : g[i] = Resignal(g[i - 1], es[i])
  BY <1>4
<1> HIDE DEF es, n, v
<1> DEFINE Seen(i) == {es[j] : j \in 1 .. i}
           Kept(x, i) == /\ SoundBut(x, {}) /\ Resighted(w, x) /\ Current(x, Seen(i))
           Q == {i \in 0 .. n : Kept(g[i], i)}
<1>7. 0 \in Q
  <2>1. Seen(0) = {} /\ 0 \in 0 .. n
    BY <1>3
  <2> QED BY <1>1, <1>6, <2>1 DEF Resighted, Same, Current
<1>8. ASSUME NEW i \in 1 .. n, i - 1 \in Q
      PROVE  i \in Q
  <2> DEFINE x == g[i - 1]
             r == es[i]
             y == Resignal(x, r)
  <2>1. Kept(x, i - 1)
    BY <1>8
  <2>2. r \in x.responders /\ Seen(i - 1) \subseteq w.responders /\ x.responders = w.responders
    <3>1. \A j \in 1 .. i - 1 : j \in 1 .. n
      BY <1>3
    <3> QED BY <1>3, <2>1, <3>1 DEF Resighted, Same
  <2>3. /\ SoundBut(y, {}) /\ Resighted(x, y) /\ Current(y, {r})
        /\ \A j \in x.responders : j # r => y.heap.responders[j] = x.heap.responders[j]
    BY <2>1, <2>2, ResignalSound
  <2>4. Seen(i) \subseteq Seen(i - 1) \union {r}
    <3>1. \A j \in 1 .. i : j \in 1 .. i - 1 \/ j = i
      BY <1>3
    <3> QED BY <3>1
  <2>5. g[i] = y /\ i \in 0 .. n
    BY <1>3, <1>6
  <2> HIDE DEF Seen, y, x, r
  <2>6. Current(y, Seen(i))
    BY <2>1, <2>2, <2>3, <2>4 DEF Current, Resighted, Same
  <2>7. Resighted(w, y)
    BY <2>1, <2>2, <2>3 DEF Resighted, Same
  <2> QED BY <2>3, <2>5, <2>6, <2>7
<1> HIDE DEF Q
<1>9. \A i \in 0 .. n : i \in Q
  BY <1>3, <1>7, <1>8, Flat!InductionUpTo
<1>10. n \in Q
  BY <1>3, <1>9
<1>11. Kept(v, n)
  BY <1>5, <1>10 DEF Q
<1>12. v.responders \subseteq Seen(n)
  BY <1>2, <1>11 DEF Resighted, Same, n, es
<1> HIDE DEF Seen
<1> QED BY <1>11, <1>12 DEF Current, v
-----------------------------------------------------------------------------
(* 6. Moves *)

LEMMA SetTwice ==
  ASSUME NEW w, Shaped(w), NEW r \in DOMAIN w.heap.responders, NEW row, NEW told
  PROVE  SetResponder(SetResponder(w, r, row), r, told) = SetResponder(w, r, told)
<1> DEFINE rows == [w.heap.responders EXCEPT ![r] = row]
           Made(rs) == [exists |-> w.exists, control |-> w.control, mountains |-> w.mountains,
             fires |-> w.fires, responders |-> w.responders,
             heap |-> [fires |-> w.heap.fires, responders |-> rs],
             recent |-> w.recent, drawn |-> w.drawn, listening |-> w.listening,
             store |-> w.store]
<1>1. SetResponder(w, r, row) = Made(rows)
  BY DEF Shaped, SetResponder
<1>2. SetResponder(w, r, told) = Made([w.heap.responders EXCEPT ![r] = told])
  BY DEF Shaped, SetResponder
<1>3. [rows EXCEPT ![r] = told] = [w.heap.responders EXCEPT ![r] = told]
  OBVIOUS
<1> HIDE DEF rows
<1>4. SetResponder(Made(rows), r, told) = Made([rows EXCEPT ![r] = told])
  BY DEF SetResponder
<1> QED BY <1>1, <1>2, <1>3, <1>4

Carries(row, told) ==
  /\ told.at = row.at /\ told.status = row.status /\ told.signal_status = row.signal_status

(* A move carries all of a row but the assignment and the path: either     *)
(* these stay, or there are none any more.                                 *)
LEMMA EmitMoveSound ==
  ASSUME NEW w, NEW S, SoundBut(w, S), NEW r \in w.responders, NEW row \in UnitRow,
         LET old == w.heap.responders[r]
         IN  \/ row.path = NoPath /\ row.assigned_fire = NoFire
             \/ /\ old.path # NoPath
                /\ row.path = old.path /\ row.assigned_fire = old.assigned_fire,
         row.signal_status = "blocked" => Busy(w, row),
         row.signal_status = "connected" => Busy(w, [row EXCEPT !.last_known = row.at])
  PROVE  LET v == EmitMove(SetResponder(w, r, row), r)
             told == v.heap.responders[r]
         IN  SoundBut(v, S \ {r}) /\ Rewrites(w, v, r, told) /\ Carries(row, told)
<1> DEFINE old == w.heap.responders[r]
           known == IF row.signal_status = "connected" THEN row.at ELSE row.last_known
           told == [row EXCEPT !.last_known = known]
           u == SetResponder(w, r, row)
           e == [type |-> "RESPONDER_MOVED", responder |-> r, position |-> told.at,
                 last_known |-> told.last_known, path_index |-> told.path_index,
                 status |-> told.status, signal_status |-> told.signal_status]
           event == Numbered(w.drawn + 1, e)
           v == EmitMove(u, r)
<1>1. r \in DOMAIN w.heap.responders /\ Shaped(w)
  BY DEF SoundBut, Objects
<1>2. u.heap.responders[r] = row
  BY <1>1, SetResponderIs
<1>3. SetResponder(u, r, told) = SetResponder(w, r, told)
  BY <1>1, SetTwice
<1> HIDE DEF u
<1>4. v = Emit(SetResponder(w, r, told), e)
  BY <1>2, <1>3 DEF EmitMove
<1>5. known \in Grid
  BY DEF UnitRow
<1> HIDE DEF known
<1>6. /\ told \in UnitRow /\ told.at = row.at /\ told.last_known = known
      /\ told.status = row.status /\ told.signal_status = row.signal_status
      /\ told.assigned_fire = row.assigned_fire /\ told.path = row.path
      /\ told.path_index = row.path_index
  BY <1>5 DEF UnitRow
<1>7. Busy(w, told)
  <2>1. CASE row.signal_status = "connected"
    BY <2>1 DEF known
  <2>2. CASE row.signal_status = "blocked"
    BY <1>6, <2>2 DEF Busy, Engaged, OnRoute
  <2>3. row.signal_status \in {"connected", "blocked"}
    BY DEF UnitRow
  <2> QED BY <2>1, <2>2, <2>3
<1>8. /\ e.type = "RESPONDER_MOVED" /\ e.responder = r
      /\ "type" \in DOMAIN e /\ "responder" \in DOMAIN e
      /\ event.type = "RESPONDER_MOVED" /\ event.position = told.at
      /\ event.last_known = told.last_known /\ event.path_index = told.path_index
      /\ event.status = told.status /\ event.signal_status = told.signal_status
  BY NumberedIs
<1> HIDE DEF e, event, told
<1>9. /\ told.at \in Grid /\ told.last_known \in Grid /\ told.path_index \in Nat
      /\ told.status \in {"idle", "moving", "fighting_fire"}
      /\ told.signal_status \in {"connected", "blocked"}
  BY <1>6 DEF UnitRow
<1>10. \A x \in UnitRow :
         LET y == ResponderAfter(x, event)
         IN  /\ y \in UnitRow /\ y.at = told.at /\ y.last_known = told.last_known
             /\ y.status = told.status /\ y.signal_status = told.signal_status
             /\ y.assigned_fire = x.assigned_fire /\ y.path = x.path
             /\ y.path_index = told.path_index
  BY <1>8, <1>9, MovedIs
<1>11. Match(told, ResponderAfter(told, event))
  BY <1>6, <1>7, <1>10 DEF Match, Busy
<1>12. \A shown : Match(old, shown) => Match(told, ResponderAfter(shown, event))
  BY <1>6, <1>10 DEF Match
<1>13. e.type \in OfResponder
  BY <1>8 DEF OfResponder
<1>14. SoundBut(v, S \ {r}) /\ Rewrites(w, v, r, told)
  <2> HIDE DEF v, old
  <2>1. Match(told, ResponderAfter(told, Numbered(w.drawn + 1, e)))
    BY <1>11 DEF event
  <2>2. \A shown : Match(w.heap.responders[r], shown) =>
                     Match(told, ResponderAfter(shown, Numbered(w.drawn + 1, e)))
    BY <1>12 DEF event, old
  <2>3. told \in UnitRow /\ "type" \in DOMAIN e /\ "responder" \in DOMAIN e /\ e.responder = r
    BY <1>6, <1>8
  <2> QED BY <1>4, <1>7, <1>13, <2>1, <2>2, <2>3, ToldSound
<1>15. v.heap.responders[r] = told
  BY <1>14 DEF Rewrites
<1>16. Carries(row, told)
  BY <1>6 DEF Carries
<1> HIDE DEF v
<1> QED BY <1>14, <1>15, <1>16 DEF u, v

(* Where a responder on its way is after a step, or what it does there.    *)
LEMMA StepIs ==
  ASSUME NEW w, NEW row \in UnitRow, Busy(w, row), row.status = "moving"
  PROVE  LET m == Moved(w, row)
         IN  /\ m \in UnitRow /\ m.path = row.path /\ m.assigned_fire = row.assigned_fire
             /\ m.signal_status = row.signal_status
             /\ \/ m.status = "moving" /\ OnRoute(w, m)
                \/ m.status = "fighting_fire" /\ w.heap.fires[m.assigned_fire].at = m.at
<1> DEFINE index == row.path_index + 1
           last == Len(row.path)
           next == [row EXCEPT !.path_index = index, !.at = row.path[index + 1]]
           fighting(x) == [x EXCEPT !.status = "fighting_fire"]
<1>1. /\ Engaged(w, row) /\ row.path \in Seq(Grid) /\ last \in Nat /\ row.path_index \in Nat
      /\ row.path # NoPath /\ row.path_index < last
      /\ row.path[index] = row.at
      /\ row.path[last] = w.heap.fires[row.assigned_fire].at
  BY DEF Busy, OnRoute, UnitRow
<1>2. \A x \in UnitRow :
        /\ fighting(x) \in UnitRow /\ fighting(x).path = x.path
        /\ fighting(x).assigned_fire = x.assigned_fire /\ fighting(x).at = x.at
        /\ fighting(x).signal_status = x.signal_status /\ fighting(x).status = "fighting_fire"
  BY DEF UnitRow
<1>3. CASE row.path_index >= last - 1
  <2>1. index = last
    BY <1>1, <1>3
  <2>2. w.heap.fires[row.assigned_fire].at = row.at
    BY <1>1, <2>1
  <2>3. Moved(w, row) = fighting(row)
    BY <1>1, <1>3, <2>2 DEF Moved, Arrived, AtItsFire, Engaged
  <2> HIDE DEF fighting
  <2> QED BY <1>2, <2>2, <2>3
<1>4. CASE ~(row.path_index >= last - 1)
  <2>1. index + 1 \in 1 .. last /\ index \in Nat
    BY <1>1, <1>4
  <2>2. row.path[index + 1] \in Grid
    BY <1>1, <2>1
  <2>3. /\ next \in UnitRow /\ next.path = row.path /\ next.assigned_fire = row.assigned_fire
        /\ next.signal_status = row.signal_status /\ next.status = "moving"
        /\ next.at = row.path[index + 1] /\ next.path_index = index
    BY <2>1, <2>2 DEF UnitRow
  <2>4. Moved(w, row) = IF index >= last - 1 THEN Arrived(w, next) ELSE next
    BY <1>4 DEF Moved
  <2> HIDE DEF next, index
  <2>5. CASE index >= last - 1
    <3>1. index + 1 = last
      BY <1>1, <2>1, <2>5
    <3>2. w.heap.fires[next.assigned_fire].at = next.at
      BY <1>1, <2>3, <3>1
    <3>3. Moved(w, row) = fighting(next)
      BY <1>1, <2>3, <2>4, <2>5, <3>2 DEF Arrived, AtItsFire, Engaged
    <3> HIDE DEF fighting
    <3> QED BY <1>2, <2>3, <3>2, <3>3
  <2>6. CASE ~(index >= last - 1)
    <3>1. index < last
      BY <1>1, <2>1, <2>6
    <3>2. OnRoute(w, next)
      BY <1>1, <2>3, <3>1 DEF OnRoute
    <3> QED BY <2>3, <2>4, <2>6, <3>2
  <2> QED BY <2>5, <2>6
<1> QED BY <1>3, <1>4

Driven(w, v) == Same(w, v) /\ v.heap.fires = w.heap.fires

LEMMA MoveResponderSound ==
  ASSUME NEW w, SoundBut(w, {}), NEW r \in w.responders
  PROVE  LET v == MoveResponder(w, r)
         IN  SoundBut(v, {}) /\ Driven(w, v)
<1> DEFINE row == w.heap.responders[r]
           m == Moved(w, row)
           v == MoveResponder(w, r)
<1>1. row \in UnitRow /\ Busy(w, row)
  BY DEF SoundBut, Objects, Crews
<1>2. CASE row.status # "moving" \/ row.path = NoPath
  <2>1. v = w
    BY <1>2 DEF MoveResponder
  <2> HIDE DEF v
  <2> QED BY <2>1 DEF Driven, Same, v
<1>3. CASE ~(row.status # "moving" \/ row.path = NoPath)
  <2>1. v = EmitMove(SetResponder(w, r, m), r)
    BY <1>3 DEF MoveResponder
  <2>2. /\ m \in UnitRow /\ m.path = row.path /\ m.assigned_fire = row.assigned_fire
        /\ m.signal_status = row.signal_status
        /\ \/ m.status = "moving" /\ OnRoute(w, m)
           \/ m.status = "fighting_fire" /\ w.heap.fires[m.assigned_fire].at = m.at
    BY <1>1, <1>3, StepIs
  <2> HIDE DEF m
  <2>3. Engaged(w, m)
    BY <1>1, <1>3, <2>2 DEF Busy, Engaged
  <2> DEFINE known == [m EXCEPT !.last_known = m.at]
  <2>4. m.signal_status = "blocked" => Busy(w, m)
    BY <1>1, <1>3, <2>2, <2>3 DEF Busy
  <2>5. Busy(w, known)
    <3>1. /\ known.at = m.at /\ known.last_known = m.at /\ known.status = m.status
          /\ known.signal_status = m.signal_status /\ known.path = m.path
          /\ known.assigned_fire = m.assigned_fire /\ known.path_index = m.path_index
      BY <2>2 DEF UnitRow
    <3> HIDE DEF known
    <3> QED BY <1>3, <2>2, <2>3, <3>1 DEF Busy, Engaged, OnRoute
  <2>6. row.path # NoPath
    BY <1>3
  <2>7. SoundBut(v, {} \ {r}) /\ Rewrites(w, v, r, v.heap.responders[r])
    <3> HIDE DEF v
    <3> QED BY <2>1, <2>2, <2>4, <2>5, <2>6, EmitMoveSound
  <2>8. {} \ {r} = {}
    OBVIOUS
  <2> HIDE DEF v
  <2> QED BY <2>7, <2>8 DEF Rewrites, Driven, v
<1> QED BY <1>2, <1>3

(* All the moves of a tick. *)
LEMMA MovesSound ==
  ASSUME NEW w, SoundBut(w, {})
  PROVE  LET v == FoldLeft(MoveResponder, w, InOrder(w.responders))
         IN  SoundBut(v, {}) /\ Driven(w, v)
<1> DEFINE es == InOrder(w.responders)
           n == Len(es)
           v == FoldLeft(MoveResponder, w, es)
<1>1. w.drawn \in Nat /\ w.responders \in SUBSET (1 .. w.drawn)
  BY DEF SoundBut, Shaped, Objects
<1>2. es \in Seq(w.responders)
  BY <1>1, InOrderIs
<1>3. n \in Nat /\ \A j \in 1 .. n : es[j] \in w.responders
  BY <1>2
<1>4. PICK g : /\ g[0] = w /\ \A i \in 1 .. n : g[i] = MoveResponder(g[i - 1], es[i])
               /\ v = g[n]
  BY <1>2, MovesTrace
<1> HIDE DEF es, n, v
<1> DEFINE Q == {i \in 0 .. n : SoundBut(g[i], {}) /\ Driven(w, g[i])}
<1>5. 0 \in Q
  BY <1>3, <1>4 DEF Driven, Same
<1>6. ASSUME NEW i \in 1 .. n, i - 1 \in Q
      PROVE  i \in Q
  <2> DEFINE x == g[i - 1]
             y == MoveResponder(x, es[i])
  <2>1. SoundBut(x, {}) /\ Driven(w, x) /\ es[i] \in x.responders
    BY <1>3, <1>6 DEF Driven, Same
  <2>2. SoundBut(y, {}) /\ Driven(x, y)
    BY <2>1, MoveResponderSound
  <2>3. g[i] = y /\ i \in 0 .. n
    BY <1>3, <1>4
  <2> HIDE DEF x, y
  <2>4. Driven(w, y)
    BY <2>1, <2>2 DEF Driven, Same
  <2> QED BY <2>2, <2>3, <2>4
<1> HIDE DEF Q
<1>7. \A i \in 0 .. n : i \in Q
  BY <1>3, <1>5, <1>6, Flat!InductionUpTo
<1>8. n \in Q
  BY <1>3, <1>7
<1> QED BY <1>4, <1>8 DEF Q, v, es
-----------------------------------------------------------------------------
(* 7. Fires *)

(* Crews are stood down where they are, and are in sight or not as before. *)
Stilled(w, v) ==
  /\ Same(w, v) /\ v.heap.fires = w.heap.fires
  /\ \A i \in w.responders : /\ v.heap.responders[i].at = w.heap.responders[i].at
                             /\ v.heap.responders[i].signal_status = w.heap.responders[i].signal_status

LEMMA StopSound ==
  ASSUME NEW w, NEW S, SoundBut(w, S), NEW r \in w.responders
  PROVE  LET v == Stop(w, r)
         IN  SoundBut(v, S \ {r}) /\ Stilled(w, v)
<1> DEFINE old == w.heap.responders[r]
           row == [old EXCEPT !.status = "idle", !.assigned_fire = NoFire, !.path = NoPath]
           v == Stop(w, r)
           told == v.heap.responders[r]
           known == [row EXCEPT !.last_known = row.at]
<1>1. old \in UnitRow /\ w.responders \subseteq DOMAIN w.heap.responders
  BY DEF SoundBut, Objects
<1>2. v = EmitMove(SetResponder(w, r, row), r)
  BY DEF Stop
<1>3. /\ row \in UnitRow /\ row.at = old.at /\ row.signal_status = old.signal_status
      /\ row.status = "idle" /\ row.assigned_fire = NoFire /\ row.path = NoPath
  <2>1. NoFire \in Nat /\ NoPath \in Seq(Grid)
    BY DEF NoFire, NoPath
  <2> HIDE DEF old
  <2> QED BY <1>1, <2>1 DEF UnitRow
<1> HIDE DEF row, old
<1>4. row.signal_status = "blocked" => Busy(w, row)
  BY <1>3 DEF Busy
<1>5. Busy(w, known)
  <2>1. /\ known.at = row.at /\ known.last_known = row.at /\ known.status = "idle"
        /\ known.assigned_fire = NoFire
    BY <1>3 DEF UnitRow
  <2> HIDE DEF known
  <2> QED BY <2>1 DEF Busy
<1>6. SoundBut(v, S \ {r}) /\ Rewrites(w, v, r, told) /\ Carries(row, told)
  <2> HIDE DEF v
  <2> QED BY <1>2, <1>3, <1>4, <1>5, EmitMoveSound
<1> HIDE DEF v
<1> QED BY <1>1, <1>3, <1>6 DEF Carries, Rewrites, Stilled, Same, v, old

LEMMA StandDownSound ==
  ASSUME NEW w, NEW f, SoundBut(w, AssignedTo(w, f))
  PROVE  LET v == StandDown(w, f)
         IN  SoundBut(v, {}) /\ Stilled(w, v)
<1> DEFINE S == AssignedTo(w, f)
           es == InOrder(S)
           n == Len(es)
           v == StandDown(w, f)
<1>1. w.drawn \in Nat /\ S \in SUBSET (1 .. w.drawn) /\ S \subseteq w.responders
  BY DEF SoundBut, Shaped, Objects, AssignedTo
<1> HIDE DEF S
<1>2. es \in Seq(S) /\ \A r \in S : \E j \in 1 .. n : es[j] = r
  BY <1>1, InOrderIs
<1>3. n \in Nat /\ \A j \in 1 .. n : es[j] \in S
  BY <1>2
<1>4. PICK g : /\ g[0] = w /\ \A i \in 1 .. n : g[i] = Stop(g[i - 1], es[i])
               /\ FoldLeft(Stop, w, es) = g[n]
  BY <1>2, StopsTrace
<1>5. v = g[n]
  BY <1>4 DEF StandDown, S
<1> HIDE DEF es, n, v
<1> DEFINE Left(i) == S \ {es[j] : j \in 1 .. i}
           Q == {i \in 0 .. n : SoundBut(g[i], Left(i)) /\ Stilled(w, g[i])}
<1>6. 0 \in Q
  <2>1. Left(0) = S /\ 0 \in 0 .. n
    BY <1>3
  <2> HIDE DEF Left
  <2> QED BY <1>4, <2>1 DEF Stilled, Same, S
<1>7. ASSUME NEW i \in 1 .. n, i - 1 \in Q
      PROVE  i \in Q
  <2> DEFINE x == g[i - 1]
             r == es[i]
             y == Stop(x, r)
  <2>1. SoundBut(x, Left(i - 1)) /\ Stilled(w, x)
    BY <1>7
  <2>2. r \in x.responders
    BY <1>1, <1>3, <2>1 DEF Stilled, Same
  <2>3. Left(i - 1) \ {r} = Left(i)
    <3>1. \A j : j \in 1 .. i <=> j \in 1 .. i - 1 \/ j = i
      BY <1>3
    <3> QED BY <3>1
  <2>4. g[i] = y /\ i \in 0 .. n
    BY <1>3, <1>4
  <2> HIDE DEF Left, x, y, r
  <2>5. SoundBut(y, Left(i - 1) \ {r}) /\ Stilled(x, y)
    BY <2>1, <2>2, StopSound DEF y
  <2>6. Stilled(w, y)
    BY <2>1, <2>5 DEF Stilled, Same
  <2> QED BY <2>3, <2>4, <2>5, <2>6
<1> HIDE DEF Q
<1>8. \A i \in 0 .. n : i \in Q
  BY <1>3, <1>6, <1>7, Flat!InductionUpTo
<1>9. n \in Q
  BY <1>3, <1>8
<1>10. SoundBut(v, Left(n)) /\ Stilled(w, v)
  BY <1>5, <1>9 DEF Q
<1>11. Left(n) = {}
  BY <1>2 DEF n, es
<1> HIDE DEF Left
<1> QED BY <1>10, <1>11 DEF v

(* Only the row of one fire is another. *)
Rekindles(w, v, f, row) ==
  /\ Same(w, v) /\ v.heap.responders = w.heap.responders /\ v.heap.fires[f] = row
  /\ DOMAIN v.heap.fires = DOMAIN w.heap.fires
  /\ \A i \in DOMAIN w.heap.fires : i # f => v.heap.fires[i] = w.heap.fires[i]

(* So far only in the mock. *)
Lit(w, u, f, row) ==
  /\ Shaped(u) /\ Rekindles(w, u, f, row)
  /\ u.drawn = w.drawn /\ u.store = w.store /\ u.recent = w.recent

LEMMA SetFireIs ==
  ASSUME NEW w, Shaped(w), NEW f \in DOMAIN w.heap.fires, NEW row
  PROVE  Lit(w, SetFire(w, f, row), f, row)
<1> DEFINE rows == [w.heap.fires EXCEPT ![f] = row]
           v == SetFire(w, f, row)
<1>1. /\ DOMAIN rows = DOMAIN w.heap.fires /\ rows[f] = row
      /\ \A i \in DOMAIN w.heap.fires : i # f => rows[i] = w.heap.fires[i]
  OBVIOUS
<1> HIDE DEF rows
<1>2. v = [exists |-> w.exists, control |-> w.control, mountains |-> w.mountains,
          fires |-> w.fires, responders |-> w.responders,
          heap |-> [fires |-> rows, responders |-> w.heap.responders],
          recent |-> w.recent, drawn |-> w.drawn, listening |-> w.listening,
          store |-> w.store]
  BY DEF Shaped, SetFire, rows
<1> HIDE DEF v
<1>3. Lit(w, v, f, row)
  BY <1>1, <1>2 DEF Shaped, Lit, Rekindles, Same
<1> QED BY <1>3 DEF v

(* A fire burns lower or is out, and the store is told so.  Those assigned *)
(* to a fire that is out have nothing to do there.                         *)
LEMMA BurntSound ==
  ASSUME NEW w, NEW S, SoundBut(w, S), NEW f \in w.fires, NEW row \in FireRow,
         NEW u, Lit(w, u, f, row),
         LET old == w.heap.fires[f]
         IN  /\ row.at = old.at
             /\ row.status = "active" => old.status = "active" /\ row.intensity > 0
             /\ row.status = "active" \/ AssignedTo(w, f) \subseteq S,
         NEW e, "type" \in DOMAIN e, "fire" \in DOMAIN e, e.type \in OfFire, e.fire = f,
         FireAfter(row, Numbered(w.drawn + 1, e)) = row,
         FireAfter(w.heap.fires[f], Numbered(w.drawn + 1, e)) = row
  PROVE  LET v == Emit(u, e)
         IN  SoundBut(v, S) /\ Rekindles(w, v, f, row)
<1> DEFINE v == Emit(u, e)
           event == Numbered(w.drawn + 1, e)
           m == w.store.state
<1>0. /\ Shaped(w) /\ Messages(w) /\ Objects(w) /\ Fires(w) /\ Crews(w, S)
      /\ Agrees(w, NoResponder, {}) /\ f \in DOMAIN w.heap.fires
      /\ w.fires \subseteq DOMAIN w.heap.fires
  BY DEF SoundBut, Objects
<1>1. /\ Shaped(u) /\ u.heap.responders = w.heap.responders /\ u.drawn = w.drawn
      /\ DOMAIN u.heap.fires = DOMAIN w.heap.fires
      /\ u.heap.fires[f] = row
      /\ \A i \in DOMAIN w.heap.fires : i # f => u.heap.fires[i] = w.heap.fires[i]
      /\ u.control = w.control /\ u.mountains = w.mountains /\ u.fires = w.fires
      /\ u.responders = w.responders /\ u.listening = w.listening /\ u.exists = w.exists
      /\ u.store = w.store /\ u.recent = w.recent
  BY DEF Lit, Rekindles, Same
<1>2. event.type \in OfFire /\ event.fire = f
  BY NumberedIs
<1> HIDE DEF event
<1>3. Messages(u)
  BY <1>0, <1>1 DEF Messages
<1>4. /\ Shaped(v) /\ v.heap = u.heap /\ v.drawn = u.drawn + 1
      /\ v.control = u.control /\ v.mountains = u.mountains /\ v.fires = u.fires
      /\ v.responders = u.responders /\ v.listening = u.listening /\ v.exists = u.exists
      /\ v.store.cursor = u.store.cursor
  BY <1>1, EmitIs
<1>5. /\ Messages(v)
      /\ u.listening /\ u.store.state # NoState =>
           v.store.state = Reduce(u.heap, u.store.state, event)
  BY <1>1, <1>3, EmitHeard DEF event
<1> HIDE DEF v
<1>6. Objects(v)
  <2>1. w.drawn \in Nat
    BY <1>0 DEF Shaped
  <2>2. DOMAIN v.heap.fires \subseteq 1 .. v.drawn /\ DOMAIN v.heap.responders \subseteq 1 .. v.drawn
    BY <1>0, <1>1, <1>4, <2>1 DEF Objects
  <2>3. \A i \in DOMAIN v.heap.fires : v.heap.fires[i] \in FireRow
    BY <1>0, <1>1, <1>4 DEF Objects
  <2> QED BY <1>0, <1>1, <1>4, <2>2, <2>3 DEF Objects
<1>7. ASSUME w.listening
      PROVE  Agrees(v, NoResponder, {})
  <2> DEFINE rows == [m.fires EXCEPT ![f] = row]
             n == v.store.state
  <2>1. /\ m = [control |-> w.control, mountains |-> w.mountains, fires |-> m.fires,
                responders |-> m.responders]
        /\ DOMAIN m.fires = w.fires
        /\ \A i \in w.fires : m.fires[i] \in {Shared, w.heap.fires[i]}
        /\ DOMAIN m.responders = w.responders
        /\ \A i \in w.responders :
             m.responders[i] = Shared \/ Match(w.heap.responders[i], m.responders[i])
    BY <1>0, <1>7 DEF Agrees
  <2>2. m # NoState
    BY <2>1 DEF NoState
  <2>3. n = MapFire(u.heap, m, event)
    BY <1>1, <1>2, <1>5, <1>7, <2>2, ReduceIs
  <2>4. FireAfter(Row(u.heap.fires, m.fires, f), event) = row
    <3>1. CASE m.fires[f] = Shared
      BY <1>1, <3>1 DEF Row, event
    <3>2. CASE m.fires[f] # Shared
      BY <1>1, <2>1, <3>2 DEF Row, event
    <3> QED BY <3>1, <3>2
  <2>5. /\ DOMAIN rows = w.fires /\ rows[f] = row
        /\ \A i \in w.fires : i # f => rows[i] = m.fires[i]
    BY <2>1
  <2>6. MapFire(u.heap, m, event) = [m EXCEPT !.fires = rows]
    BY <1>2, <2>1, <2>4 DEF MapFire
  <2> HIDE DEF m, rows
  <2>7. [m EXCEPT !.fires = rows]
          = [control |-> w.control, mountains |-> w.mountains, fires |-> rows,
             responders |-> m.responders]
    BY <2>1
  <2>8. n = [control |-> w.control, mountains |-> w.mountains, fires |-> rows,
             responders |-> m.responders]
    BY <2>3, <2>6, <2>7
  <2> HIDE DEF n
  <2>9. n.fires = rows /\ n.responders = m.responders
    BY <2>8
  <2>10. \A i \in w.fires : rows[i] \in {Shared, v.heap.fires[i]}
    BY <1>0, <1>1, <1>4, <2>1, <2>5
  <2>11. \A i \in w.responders :
           \/ n.responders[i] = Shared \/ Match(v.heap.responders[i], n.responders[i])
    BY <1>1, <1>4, <2>1, <2>9
  <2>12. \A i \in w.responders : i # NoResponder
    BY <1>0 DEF Objects, NoResponder, Shaped
  <2> QED BY <1>1, <1>4, <2>1, <2>5, <2>8, <2>9, <2>10, <2>11, <2>12 DEF Agrees, n
<1>8. Agrees(v, NoResponder, {})
  BY <1>1, <1>4, <1>7 DEF Agrees
<1>9. Rekindles(w, v, f, row)
  BY <1>1, <1>4 DEF Rekindles, Same
<1>10. Fires(v)
  BY <1>0, <1>1, <1>4 DEF Fires
<1>11. Crews(v, S)
  <2> SUFFICES ASSUME NEW r \in w.responders \ S
               PROVE  Busy(v, w.heap.responders[r])
    BY <1>1, <1>4 DEF Crews
  <2> DEFINE x == w.heap.responders[r]
  <2>1. Busy(w, x)
    BY <1>0 DEF Crews
  <2>2. row.status = "active" \/ x.assigned_fire # f
    BY DEF AssignedTo
  <2> HIDE DEF x
  <2>3. Engaged(w, x) => Engaged(v, x) /\ v.heap.fires[x.assigned_fire].at = w.heap.fires[x.assigned_fire].at
    BY <1>0, <1>1, <1>4, <2>2 DEF Engaged
  <2>4. Busy(v, x)
    BY <2>1, <2>3 DEF Busy, OnRoute
  <2> QED BY <2>4 DEF x
<1>12. SoundBut(v, S)
  BY <1>4, <1>5, <1>6, <1>8, <1>10, <1>11 DEF SoundBut
<1> QED BY <1>9, <1>12 DEF v

(* Where the responders are, and whether they are in sight, stays.         *)
Sprayed(w, v) ==
  /\ Same(w, v)
  /\ \A i \in w.responders : /\ v.heap.responders[i].at = w.heap.responders[i].at
                             /\ v.heap.responders[i].signal_status = w.heap.responders[i].signal_status

LEMMA DampenSound ==
  ASSUME NEW w, SoundBut(w, {}), NEW f \in w.fires, w.heap.fires[f].status = "active",
         NEW left \in Nat
  PROVE  LET v == Dampen(w, f, left)
         IN  SoundBut(v, {}) /\ Sprayed(w, v) /\ v.heap.fires[f].intensity = left
<1> DEFINE out == left = 0
           fire == w.heap.fires[f]
           burnt == [fire EXCEPT !.intensity = left, !.status = IF out THEN "extinguished" ELSE fire.status]
           e == [type |-> "FIRE_INTENSITY_CHANGED", fire |-> f, intensity |-> left,
                 status |-> burnt.status]
           event == Numbered(w.drawn + 1, e)
           told == Emit(SetFire(w, f, burnt), e)
           v == Dampen(w, f, left)
<1>1. /\ Shaped(w) /\ fire \in FireRow /\ f \in DOMAIN w.heap.fires
      /\ fire.status = "active"
  BY DEF SoundBut, Objects
<1>2. /\ burnt \in FireRow /\ burnt.at = fire.at /\ burnt.intensity = left
      /\ burnt.status = IF out THEN "extinguished" ELSE "active"
  <2> HIDE DEF fire
  <2> QED BY <1>1 DEF FireRow
<1>3. v = IF out THEN StandDown(Emit(told, [type |-> "FIRE_EXTINGUISHED", fire |-> f]), f) ELSE told
  BY DEF Dampen
<1>4. /\ e.type = "FIRE_INTENSITY_CHANGED" /\ e.fire = f
      /\ "type" \in DOMAIN e /\ "fire" \in DOMAIN e
      /\ event.type = "FIRE_INTENSITY_CHANGED" /\ event.intensity = left
      /\ event.status = burnt.status
  BY NumberedIs
<1>5. Lit(w, SetFire(w, f, burnt), f, burnt)
  BY <1>1, SetFireIs
<1> HIDE DEF v, e, event
<1>6. FireAfter(burnt, event) = burnt /\ FireAfter(fire, event) = burnt
  <2>1. \A x : FireAfter(x, event) = [x EXCEPT !.intensity = left, !.status = burnt.status]
    BY <1>4 DEF FireAfter
  <2> HIDE DEF fire
  <2>2. [fire EXCEPT !.intensity = left, !.status = burnt.status] = burnt
    BY <1>1 DEF FireRow
  <2> HIDE DEF burnt
  <2>3. [burnt EXCEPT !.intensity = left, !.status = burnt.status] = burnt
    BY <1>2 DEF FireRow
  <2> QED BY <2>1, <2>2, <2>3
<1> HIDE DEF burnt
<1>7. e.type \in OfFire
  BY <1>4 DEF OfFire
<1> DEFINE S == IF out THEN AssignedTo(w, f) ELSE {}
<1>8. SoundBut(w, S)
  BY DEF SoundBut, Crews
<1>9. SoundBut(told, S) /\ Rekindles(w, told, f, burnt)
  <2>1. /\ burnt.at = w.heap.fires[f].at
        /\ burnt.status = "active" => w.heap.fires[f].status = "active" /\ burnt.intensity > 0
        /\ burnt.status = "active" \/ AssignedTo(w, f) \subseteq S
    BY <1>1, <1>2
  <2>2. /\ FireAfter(burnt, Numbered(w.drawn + 1, e)) = burnt
        /\ FireAfter(w.heap.fires[f], Numbered(w.drawn + 1, e)) = burnt
    BY <1>6 DEF event
  <2>3. burnt \in FireRow /\ "type" \in DOMAIN e /\ "fire" \in DOMAIN e /\ e.fire = f
    BY <1>2, <1>4
  <2> HIDE DEF S, fire
  <2> QED BY <1>5, <1>7, <1>8, <2>1, <2>2, <2>3, BurntSound
<1> HIDE DEF told
<1>10. CASE ~out
  <2>1. v = told /\ S = {}
    BY <1>3, <1>10
  <2>2. v.heap.fires[f].intensity = left /\ Sprayed(w, v)
    BY <1>2, <1>9, <2>1 DEF Rekindles, Sprayed, Same
  <2> QED BY <1>9, <2>1, <2>2 DEF v
<1>11. CASE out
  <2> DEFINE e2 == [type |-> "FIRE_EXTINGUISHED", fire |-> f]
             event2 == Numbered(told.drawn + 1, e2)
             ended == Emit(told, e2)
  <2>1. v = StandDown(ended, f)
    BY <1>3, <1>11
  <2>2. e2.type \in OfFire /\ e2.fire = f /\ "type" \in DOMAIN e2 /\ "fire" \in DOMAIN e2
    BY DEF OfFire
  <2>3. event2.type = "FIRE_EXTINGUISHED"
    BY NumberedIs
  <2> HIDE DEF e2
  <2>4. FireAfter(burnt, event2) = burnt /\ burnt.status = "extinguished"
    <3> HIDE DEF event2
    <3>1. FireAfter(burnt, event2) = [burnt EXCEPT !.intensity = 0, !.status = "extinguished"]
      BY <2>3 DEF FireAfter
    <3>2. burnt.intensity = 0 /\ burnt.status = "extinguished" /\ burnt \in FireRow
      BY <1>2, <1>11
    <3>3. [burnt EXCEPT !.intensity = 0, !.status = "extinguished"] = burnt
      BY <3>2 DEF FireRow
    <3> QED BY <3>1, <3>2, <3>3
  <2>5. f \in told.fires /\ told.heap.fires[f] = burnt /\ Lit(told, told, f, burnt)
    BY <1>9 DEF Rekindles, Same, Lit, SoundBut
  <2>6. AssignedTo(told, f) = S
    BY <1>9, <1>11 DEF AssignedTo, Rekindles, Same
  <2> HIDE DEF S
  <2>7. SoundBut(ended, S) /\ Rekindles(told, ended, f, burnt)
    <3>1. /\ burnt.at = told.heap.fires[f].at
          /\ burnt.status = "active" => told.heap.fires[f].status = "active" /\ burnt.intensity > 0
          /\ burnt.status = "active" \/ AssignedTo(told, f) \subseteq S
      BY <2>4, <2>5, <2>6
    <3>2. /\ FireAfter(burnt, Numbered(told.drawn + 1, e2)) = burnt
          /\ FireAfter(told.heap.fires[f], Numbered(told.drawn + 1, e2)) = burnt
      BY <2>4, <2>5
    <3>3. burnt \in FireRow
      BY <1>2
    <3> QED BY <1>9, <2>2, <2>5, <3>1, <3>2, <3>3, BurntSound
  <2> HIDE DEF ended
  <2>8. AssignedTo(ended, f) = S
    BY <2>6, <2>7 DEF AssignedTo, Rekindles, Same
  <2>9. SoundBut(v, {}) /\ Stilled(ended, v)
    BY <2>1, <2>7, <2>8, StandDownSound
  <2>10. Sprayed(w, v)
    BY <1>9, <2>7, <2>9 DEF Rekindles, Sprayed, Stilled, Same
  <2>11. v.heap.fires[f].intensity = left
    BY <1>2, <2>7, <2>9 DEF Rekindles, Stilled
  <2> QED BY <2>9, <2>10, <2>11 DEF v
<1> QED BY <1>10, <1>11

LEMMA CrewIs ==
  ASSUME NEW w, Shaped(w), Objects(w), NEW cell
  PROVE  Crew(w, cell) \in Nat
<1> DEFINE crew == {r \in w.responders : /\ w.heap.responders[r].at = cell
                                         /\ w.heap.responders[r].status = "fighting_fire"}
<1>1. w.drawn \in Nat /\ crew \subseteq 1 .. w.drawn
  BY DEF Shaped, Objects
<1> HIDE DEF crew
<1>2. IsFiniteSet(crew)
  <2>1. IsFiniteSet(1 .. w.drawn) /\ crew \in SUBSET (1 .. w.drawn)
    BY <1>1, FS_Interval
  <2> QED BY <2>1, FS_Subset
<1>3. Cardinality(crew) \in Nat
  BY <1>2, FS_CardinalityType
<1> QED BY <1>3 DEF Crew, crew

(* What a fire loses to the crew on the scene. *)
LEMMA ApplyFireSound ==
  ASSUME NEW w, SoundBut(w, {}), NEW f \in w.fires
  PROVE  LET v == ApplyFire(w, f)
         IN  /\ SoundBut(v, {}) /\ Sprayed(w, v)
             /\ LET water == Crew(w, w.heap.fires[f].at) * ExtinguishRate
                    burning == w.heap.fires[f].intensity
                IN  /\ water \in Nat
                    /\ w.heap.fires[f].status = "active" =>
                         v.heap.fires[f].intensity = IF burning > water THEN burning - water ELSE 0
<1> DEFINE fire == w.heap.fires[f]
           water == Crew(w, fire.at) * ExtinguishRate
           left == IF fire.intensity > water THEN fire.intensity - water ELSE 0
           v == ApplyFire(w, f)
<1>1. Shaped(w) /\ Objects(w) /\ fire \in FireRow
  BY DEF SoundBut, Objects
<1>2. water \in Nat
  BY <1>1, CrewIs DEF ExtinguishRate
<1>3. fire.intensity \in Nat /\ fire.status \in {"active", "extinguished"}
  BY <1>1 DEF FireRow
<1>4. fire.status = "active" => fire.intensity > 0
  BY DEF SoundBut, Fires
<1>5. v = IF fire.status = "extinguished" \/ water = 0 THEN w ELSE Dampen(w, f, left)
  BY DEF ApplyFire
<1> HIDE DEF v, fire, water
<1>6. left \in Nat
  BY <1>2, <1>3
<1>7. CASE fire.status = "extinguished" \/ water = 0
  <2>1. v = w
    BY <1>5, <1>7
  <2>2. Sprayed(w, v) /\ SoundBut(v, {})
    BY <2>1 DEF Sprayed, Same
  <2>3. fire.status = "active" => v.heap.fires[f].intensity = left
    BY <1>3, <1>4, <1>7, <2>1 DEF fire
  <2> QED BY <1>2, <2>2, <2>3 DEF v, fire, water
<1>8. CASE ~(fire.status = "extinguished" \/ water = 0)
  <2>1. fire.status = "active" /\ v = Dampen(w, f, left)
    BY <1>3, <1>5, <1>8
  <2> HIDE DEF left
  <2>2. SoundBut(v, {}) /\ Sprayed(w, v) /\ v.heap.fires[f].intensity = left
    BY <1>6, <2>1, DampenSound DEF fire
  <2> QED BY <1>2, <2>2 DEF v, fire, water, left
<1> QED BY <1>7, <1>8

(* Signals are looked at between the moves and the fires: these move       *)
(* nobody.                                                                 *)
LEMMA TickSound ==
  ASSUME NEW w, SoundBut(w, {})
  PROVE  LET v == Tick(w)
         IN  Sound(v) /\ Same(w, v)
<1> DEFINE moved == FoldLeft(MoveResponder, w, InOrder(w.responders))
           seen == RecomputeSignals(moved)
           es == InOrder(seen.fires)
           n == Len(es)
           v == Tick(w)
<1>1. SoundBut(moved, {}) /\ Driven(w, moved)
  BY MovesSound
<1> HIDE DEF moved
<1>2. SoundBut(seen, {}) /\ Resighted(moved, seen) /\ Current(seen, seen.responders)
  BY <1>1, RecomputeSound
<1> HIDE DEF seen
<1>3. seen.drawn \in Nat /\ seen.fires \in SUBSET (1 .. seen.drawn)
  BY <1>2 DEF SoundBut, Shaped, Objects
<1>4. es \in Seq(seen.fires)
  BY <1>3, InOrderIs
<1>5. n \in Nat /\ \A j \in 1 .. n : es[j] \in seen.fires
  BY <1>4
<1>6. PICK g : /\ g[0] = seen /\ \A i \in 1 .. n : g[i] = ApplyFire(g[i - 1], es[i])
               /\ FoldLeft(ApplyFire, seen, es) = g[n]
  BY <1>4, SpraysTrace
<1>7. v = g[n]
  BY <1>6 DEF Tick, seen, moved
<1> HIDE DEF es, n, v
<1> DEFINE Q == {i \in 0 .. n : SoundBut(g[i], {}) /\ Sprayed(seen, g[i])}
<1>8. 0 \in Q
  BY <1>2, <1>5, <1>6 DEF Sprayed, Same
<1>9. ASSUME NEW i \in 1 .. n, i - 1 \in Q
      PROVE  i \in Q
  <2> DEFINE x == g[i - 1]
             y == ApplyFire(x, es[i])
  <2>1. SoundBut(x, {}) /\ Sprayed(seen, x) /\ es[i] \in x.fires
    BY <1>5, <1>9 DEF Sprayed, Same
  <2>2. SoundBut(y, {}) /\ Sprayed(x, y)
    BY <2>1, ApplyFireSound
  <2>3. g[i] = y /\ i \in 0 .. n
    BY <1>5, <1>6
  <2> HIDE DEF x, y
  <2>4. Sprayed(seen, y)
    BY <2>1, <2>2 DEF Sprayed, Same
  <2> QED BY <2>2, <2>3, <2>4
<1> HIDE DEF Q
<1>10. \A i \in 0 .. n : i \in Q
  BY <1>5, <1>8, <1>9, Flat!InductionUpTo
<1>11. n \in Q
  BY <1>5, <1>10
<1>12. SoundBut(v, {}) /\ Sprayed(seen, v)
  BY <1>7, <1>11 DEF Q
<1>13. Current(v, v.responders)
  BY <1>2, <1>12 DEF Sprayed, Same, Current
<1>14. Same(w, v)
  BY <1>1, <1>2, <1>12 DEF Driven, Resighted, Sprayed, Same
<1> QED BY <1>12, <1>13, <1>14 DEF Sound, v
-----------------------------------------------------------------------------
(* 8. Commands *)

(* A row more, field by field.                                             *)
Kindled(w, n, ids, rows) == [w EXCEPT !.drawn = n, !.fires = ids, !.heap.fires = rows]

Enlisted(w, n, ids, rows) == [w EXCEPT !.drawn = n, !.responders = ids, !.heap.responders = rows]

LEMMA WithFires ==
  ASSUME NEW w, Shaped(w), NEW n \in Nat, NEW ids, NEW rows
  PROVE  LET u == Kindled(w, n, ids, rows)
         IN  /\ Shaped(u) /\ u.control = w.control /\ u.mountains = w.mountains
             /\ u.fires = ids /\ u.responders = w.responders
             /\ u.heap.fires = rows /\ u.heap.responders = w.heap.responders
             /\ u.recent = w.recent /\ u.drawn = n /\ u.listening = w.listening
             /\ u.store = w.store
<1> DEFINE u == [w EXCEPT !.drawn = n, !.fires = ids]
<1>0. w = [exists |-> w.exists, control |-> w.control, mountains |-> w.mountains,
           fires |-> w.fires, responders |-> w.responders, heap |-> w.heap,
           recent |-> w.recent, drawn |-> w.drawn, listening |-> w.listening, store |-> w.store]
  BY DEF Shaped
<1>1. u = [exists |-> w.exists, control |-> w.control, mountains |-> w.mountains,
           fires |-> ids, responders |-> w.responders, heap |-> w.heap,
           recent |-> w.recent, drawn |-> n, listening |-> w.listening, store |-> w.store]
  <2> DEFINE t == [w EXCEPT !.drawn = n]
  <2>1. t = [exists |-> w.exists, control |-> w.control, mountains |-> w.mountains,
             fires |-> w.fires, responders |-> w.responders, heap |-> w.heap,
             recent |-> w.recent, drawn |-> n, listening |-> w.listening, store |-> w.store]
    BY <1>0
  <2> HIDE DEF t
  <2>2. [t EXCEPT !.fires = ids]
          = [exists |-> w.exists, control |-> w.control, mountains |-> w.mountains,
             fires |-> ids, responders |-> w.responders, heap |-> w.heap,
             recent |-> w.recent, drawn |-> n, listening |-> w.listening, store |-> w.store]
    BY <2>1
  <2> QED BY <2>2 DEF t
<1>2. [u EXCEPT !.heap.fires = rows] = [u EXCEPT !.heap = [w.heap EXCEPT !.fires = rows]]
  <2> HIDE DEF u
  <2> QED BY <1>1
<1>3. [w.heap EXCEPT !.fires = rows] = [fires |-> rows, responders |-> w.heap.responders]
  BY DEF Shaped
<1>4. Kindled(w, n, ids, rows) = [u EXCEPT !.heap.fires = rows]
  BY DEF Kindled
<1> HIDE DEF u
<1>5. Kindled(w, n, ids, rows)
        = [exists |-> w.exists, control |-> w.control, mountains |-> w.mountains,
           fires |-> ids, responders |-> w.responders, heap |-> [fires |-> rows, responders |-> w.heap.responders],
           recent |-> w.recent, drawn |-> n, listening |-> w.listening, store |-> w.store]
  BY <1>1, <1>2, <1>3, <1>4
<1> QED BY <1>5 DEF Shaped

LEMMA WithResponders ==
  ASSUME NEW w, Shaped(w), NEW n \in Nat, NEW ids, NEW rows
  PROVE  LET u == Enlisted(w, n, ids, rows)
         IN  /\ Shaped(u) /\ u.control = w.control /\ u.mountains = w.mountains
             /\ u.fires = w.fires /\ u.responders = ids
             /\ u.heap.fires = w.heap.fires /\ u.heap.responders = rows
             /\ u.recent = w.recent /\ u.drawn = n /\ u.listening = w.listening
             /\ u.store = w.store
<1> DEFINE u == [w EXCEPT !.drawn = n, !.responders = ids]
<1>0. w = [exists |-> w.exists, control |-> w.control, mountains |-> w.mountains,
           fires |-> w.fires, responders |-> w.responders, heap |-> w.heap,
           recent |-> w.recent, drawn |-> w.drawn, listening |-> w.listening, store |-> w.store]
  BY DEF Shaped
<1>1. u = [exists |-> w.exists, control |-> w.control, mountains |-> w.mountains,
           fires |-> w.fires, responders |-> ids, heap |-> w.heap,
           recent |-> w.recent, drawn |-> n, listening |-> w.listening, store |-> w.store]
  <2> DEFINE t == [w EXCEPT !.drawn = n]
  <2>1. t = [exists |-> w.exists, control |-> w.control, mountains |-> w.mountains,
             fires |-> w.fires, responders |-> w.responders, heap |-> w.heap,
             recent |-> w.recent, drawn |-> n, listening |-> w.listening, store |-> w.store]
    BY <1>0
  <2> HIDE DEF t
  <2>2. [t EXCEPT !.responders = ids]
          = [exists |-> w.exists, control |-> w.control, mountains |-> w.mountains,
             fires |-> w.fires, responders |-> ids, heap |-> w.heap,
             recent |-> w.recent, drawn |-> n, listening |-> w.listening, store |-> w.store]
    BY <2>1
  <2> QED BY <2>2 DEF t
<1>2. [u EXCEPT !.heap.responders = rows] = [u EXCEPT !.heap = [w.heap EXCEPT !.responders = rows]]
  <2> HIDE DEF u
  <2> QED BY <1>1
<1>3. [w.heap EXCEPT !.responders = rows] = [fires |-> w.heap.fires, responders |-> rows]
  BY DEF Shaped
<1>4. Enlisted(w, n, ids, rows) = [u EXCEPT !.heap.responders = rows]
  BY DEF Enlisted
<1> HIDE DEF u
<1>5. Enlisted(w, n, ids, rows)
        = [exists |-> w.exists, control |-> w.control, mountains |-> w.mountains,
           fires |-> w.fires, responders |-> ids, heap |-> [fires |-> w.heap.fires, responders |-> rows],
           recent |-> w.recent, drawn |-> n, listening |-> w.listening, store |-> w.store]
  BY <1>1, <1>2, <1>3, <1>4
<1> QED BY <1>5 DEF Shaped

(* A new fire on free ground.  Its row is the mock's own object.           *)
LEMMA PlaceFireSound ==
  ASSUME NEW w, Sound(w), NEW cell
  PROVE  LET v == PlaceFire(w, cell)
         IN  /\ Sound(v) /\ v.listening = w.listening
             /\ cell \in Grid \ w.mountains /\ BurningAt(w, cell) = {} => v.fires # w.fires
<1> DEFINE f == w.drawn + 1
           row == [at |-> cell, intensity |-> FireIntensity, status |-> "active"]
           rows == Put(w.heap.fires, f, row)
           u == [w EXCEPT !.drawn = f, !.fires = w.fires \union {f}, !.heap.fires = rows]
           e == [type |-> "FIRE_CREATED", fire |-> f, row |-> Shared]
           event == Numbered(f + 1, e)
           m == w.store.state
           v == Emit(u, e)
<1>0. /\ Shaped(w) /\ Messages(w) /\ Objects(w) /\ Fires(w) /\ Crews(w, {})
      /\ Agrees(w, NoResponder, {}) /\ Current(w, w.responders) /\ w.drawn \in Nat
      /\ f \notin w.fires /\ f \notin DOMAIN w.heap.fires /\ w.fires \subseteq DOMAIN w.heap.fires
  BY DEF Sound, SoundBut, Shaped, Objects
<1> SUFFICES ASSUME cell \in Grid, cell \notin w.mountains
             PROVE  Sound(v) /\ v.listening = w.listening /\ v.fires # w.fires
  BY DEF PlaceFire
<1>1. /\ DOMAIN rows = DOMAIN w.heap.fires \union {f} /\ rows[f] = row
      /\ \A i \in DOMAIN w.heap.fires : rows[i] = w.heap.fires[i]
  BY <1>0 DEF Put
<1>2. /\ row \in FireRow /\ row.at = cell /\ row.intensity > 0 /\ row.status = "active"
  BY LimitsAssumption DEF FireRow
<1> HIDE DEF rows, row
<1>3. u = Kindled(w, f, w.fires \union {f}, rows)
  BY DEF Kindled
<1> HIDE DEF u
<1>4. /\ Shaped(u) /\ u.control = w.control /\ u.mountains = w.mountains
      /\ u.fires = w.fires \union {f} /\ u.responders = w.responders
      /\ u.heap.fires = rows /\ u.heap.responders = w.heap.responders
      /\ u.recent = w.recent /\ u.drawn = f /\ u.listening = w.listening /\ u.store = w.store
  BY <1>0, <1>3, WithFires
<1>5. Messages(u)
  <2>1. 1 .. w.drawn \subseteq 1 .. f
    BY <1>0
  <2> QED BY <1>0, <1>4, <2>1 DEF Messages
<1>6. /\ Shaped(v) /\ v.heap = u.heap /\ v.drawn = f + 1
      /\ v.control = u.control /\ v.mountains = u.mountains /\ v.fires = u.fires
      /\ v.responders = u.responders /\ v.listening = u.listening
  BY <1>4, EmitIs
<1>7. /\ Messages(v)
      /\ w.listening /\ m # NoState => v.store.state = Reduce(u.heap, m, event)
  BY <1>4, <1>5, EmitHeard
<1>8. event.type = "FIRE_CREATED" /\ event.fire = f /\ event.row = Shared
  BY NumberedIs
<1> HIDE DEF v, event
<1>9. Objects(v)
  <2>1. DOMAIN v.heap.fires \subseteq 1 .. v.drawn /\ DOMAIN v.heap.responders \subseteq 1 .. v.drawn
    BY <1>0, <1>1, <1>4, <1>6 DEF Objects
  <2>2. \A i \in DOMAIN v.heap.fires : v.heap.fires[i] \in FireRow
    BY <1>0, <1>1, <1>2, <1>4, <1>6 DEF Objects
  <2> QED BY <1>0, <1>1, <1>4, <1>6, <2>1, <2>2 DEF Objects
<1>10. Fires(v)
  BY <1>0, <1>1, <1>2, <1>4, <1>6 DEF Fires
<1>11. Crews(v, {})
  <2>1. \A x : Busy(w, x) => Busy(v, x)
    BY <1>0, <1>1, <1>4, <1>6 DEF Busy, Engaged, OnRoute
  <2> QED BY <1>0, <1>4, <1>6, <2>1 DEF Crews
<1>12. ASSUME w.listening
       PROVE  Agrees(v, NoResponder, {})
  <2> DEFINE n == v.store.state
             shown == Put(m.fires, f, Shared)
  <2>1. /\ m = [control |-> w.control, mountains |-> w.mountains, fires |-> m.fires,
                responders |-> m.responders]
        /\ DOMAIN m.fires = w.fires
        /\ \A i \in w.fires : m.fires[i] \in {Shared, w.heap.fires[i]}
        /\ DOMAIN m.responders = w.responders
        /\ \A i \in w.responders :
             m.responders[i] = Shared \/ Match(w.heap.responders[i], m.responders[i])
    BY <1>0, <1>12 DEF Agrees
  <2>2. m # NoState
    BY <2>1 DEF NoState
  <2>3. n = FireCreated(m, event)
    BY <1>7, <1>8, <1>12, <2>2, ReduceIs
  <2>4. FireCreated(m, event) = [m EXCEPT !.fires = shown]
    BY <1>0, <1>8, <2>1 DEF FireCreated
  <2>5. /\ DOMAIN shown = w.fires \union {f} /\ shown[f] = Shared
        /\ \A i \in w.fires : shown[i] = m.fires[i]
    BY <1>0, <2>1 DEF Put
  <2> HIDE DEF m, shown
  <2>6. [m EXCEPT !.fires = shown]
          = [control |-> w.control, mountains |-> w.mountains, fires |-> shown,
             responders |-> m.responders]
    BY <2>1
  <2>7. n = [control |-> w.control, mountains |-> w.mountains, fires |-> shown,
             responders |-> m.responders]
    BY <2>3, <2>4, <2>6
  <2> HIDE DEF n
  <2>8. n.fires = shown /\ n.responders = m.responders
    BY <2>7
  <2>9. \A i \in v.fires : shown[i] \in {Shared, v.heap.fires[i]}
    BY <1>0, <1>1, <1>4, <1>6, <2>1, <2>5
  <2>10. \A i \in w.responders : i # NoResponder
    BY <1>0 DEF Objects, NoResponder
  <2> QED BY <1>4, <1>6, <2>1, <2>5, <2>7, <2>8, <2>9, <2>10 DEF Agrees, n
<1>13. Agrees(v, NoResponder, {})
  BY <1>4, <1>6, <1>12 DEF Agrees
<1>14. Current(v, v.responders)
  BY <1>0, <1>4, <1>6 DEF Current
<1>15. v.fires # w.fires
  BY <1>0, <1>4, <1>6
<1> QED BY <1>4, <1>6, <1>7, <1>9, <1>10, <1>11, <1>13, <1>14, <1>15 DEF Sound, SoundBut

(* Other ground under the fires, or another place of mission control.      *)
Regrounded(w, control, mountains) ==
  [exists |-> w.exists, control |-> control, mountains |-> mountains,
   fires |-> w.fires, responders |-> w.responders, heap |-> w.heap,
   recent |-> w.recent, drawn |-> w.drawn, listening |-> w.listening,
   store |-> w.store]

(* The event does to a mission what was done to the mock's.                *)
Retells(w, control, mountains, event) ==
  \A heap, m :
    m = [control |-> w.control, mountains |-> w.mountains, fires |-> m.fires,
         responders |-> m.responders]
      => Reduce(heap, m, event) = [control |-> control, mountains |-> mountains,
                                   fires |-> m.fires, responders |-> m.responders]

(* The store is told, then signals are looked at again.                    *)
LEMMA AnnouncedSound ==
  ASSUME NEW w, Sound(w), NEW control, NEW mountains \in SUBSET MountainCells,
         \A f \in w.fires : w.heap.fires[f].status = "active" =>
                              w.heap.fires[f].at \notin mountains,
         NEW e, Retells(w, control, mountains, Numbered(w.drawn + 1, e))
  PROVE  LET v == Announce(Regrounded(w, control, mountains), e)
         IN  /\ Sound(v) /\ v.listening = w.listening
             /\ v.control = control /\ v.mountains = mountains /\ v.fires = w.fires
<1> DEFINE u == Regrounded(w, control, mountains)
           event == Numbered(w.drawn + 1, e)
           m == w.store.state
           x == Emit(u, e)
           v == Announce(u, e)
<1>0. /\ Shaped(w) /\ Messages(w) /\ Objects(w) /\ Fires(w) /\ Crews(w, {})
      /\ Agrees(w, NoResponder, {}) /\ w.drawn \in Nat
  BY DEF Sound, SoundBut, Shaped
<1>1. /\ Shaped(u) /\ u.control = control /\ u.mountains = mountains
      /\ u.fires = w.fires /\ u.responders = w.responders /\ u.heap = w.heap
      /\ u.recent = w.recent /\ u.drawn = w.drawn /\ u.listening = w.listening
      /\ u.store = w.store
  BY <1>0 DEF Shaped, Regrounded
<1> HIDE DEF u, event
<1>2. Messages(u)
  BY <1>0, <1>1 DEF Messages
<1>3. /\ Shaped(x) /\ x.heap = u.heap /\ x.drawn = u.drawn + 1
      /\ x.control = u.control /\ x.mountains = u.mountains /\ x.fires = u.fires
      /\ x.responders = u.responders /\ x.listening = u.listening
  BY <1>1, EmitIs
<1>4. /\ Messages(x)
      /\ w.listening /\ m # NoState => x.store.state = Reduce(u.heap, m, event)
  BY <1>1, <1>2, EmitHeard DEF event
<1> HIDE DEF x
<1>5. Objects(x)
  <2>1. DOMAIN x.heap.fires \subseteq 1 .. x.drawn /\ DOMAIN x.heap.responders \subseteq 1 .. x.drawn
    BY <1>0, <1>1, <1>3 DEF Objects
  <2> QED BY <1>0, <1>1, <1>3, <2>1 DEF Objects
<1>6. Fires(x)
  BY <1>0, <1>1, <1>3 DEF Fires
<1>7. Crews(x, {})
  <2>1. \A row : Busy(w, row) => Busy(x, row)
    BY <1>1, <1>3 DEF Busy, Engaged, OnRoute
  <2> QED BY <1>0, <1>1, <1>3, <2>1 DEF Crews
<1>8. ASSUME w.listening
      PROVE  Agrees(x, NoResponder, {})
  <2> DEFINE n == x.store.state
  <2>1. /\ m = [control |-> w.control, mountains |-> w.mountains, fires |-> m.fires,
                responders |-> m.responders]
        /\ DOMAIN m.fires = w.fires
        /\ \A i \in w.fires : m.fires[i] \in {Shared, w.heap.fires[i]}
        /\ DOMAIN m.responders = w.responders
        /\ \A i \in w.responders :
             m.responders[i] = Shared \/ Match(w.heap.responders[i], m.responders[i])
    BY <1>0, <1>8 DEF Agrees
  <2>2. m # NoState
    BY <2>1 DEF NoState
  <2>3. n = Reduce(u.heap, m, event)
    BY <1>4, <1>8, <2>2
  <2> HIDE DEF m, n
  <2>4. n = [control |-> control, mountains |-> mountains, fires |-> m.fires,
             responders |-> m.responders]
    BY <2>1, <2>3 DEF Retells, event
  <2>5. n.fires = m.fires /\ n.responders = m.responders
    BY <2>4
  <2>6. \A i \in w.responders : i # NoResponder
    BY <1>0 DEF Objects, NoResponder
  <2> QED BY <1>1, <1>3, <2>1, <2>4, <2>5, <2>6 DEF Agrees, n
<1>9. Agrees(x, NoResponder, {})
  BY <1>1, <1>3, <1>8 DEF Agrees
<1>10. SoundBut(x, {})
  BY <1>3, <1>4, <1>5, <1>6, <1>7, <1>9 DEF SoundBut
<1>11. v = RecomputeSignals(x)
  BY DEF Announce, x
<1> HIDE DEF v
<1>12. SoundBut(v, {}) /\ Resighted(x, v) /\ Current(v, v.responders)
  BY <1>10, <1>11, RecomputeSound
<1> QED BY <1>1, <1>3, <1>12 DEF Sound, Resighted, Same, v, u

(* The mock itself does not look for a fire where a mountain is raised.    *)
LEMMA PlaceMountainSound ==
  ASSUME NEW w, Sound(w), NEW cell \in MountainCells, BurningAt(w, cell) = {}
  PROVE  LET v == PlaceMountain(w, cell)
         IN  /\ Sound(v) /\ v.listening = w.listening /\ v.fires = w.fires
             /\ cell \in Grid \ w.mountains => v.mountains # w.mountains
<1> DEFINE mountains == w.mountains \union {cell}
           e == [type |-> "MOUNTAIN_PLACED", cell |-> cell]
           event == Numbered(w.drawn + 1, e)
           v == Announce(Regrounded(w, w.control, mountains), e)
<1>1. Shaped(w) /\ Objects(w) /\ Fires(w)
  BY DEF Sound, SoundBut
<1>2. mountains \in SUBSET MountainCells
  BY <1>1 DEF Objects
<1>3. \A f \in w.fires : w.heap.fires[f].status = "active" => w.heap.fires[f].at \notin mountains
  BY <1>1 DEF BurningAt, Fires
<1>4. event.type = "MOUNTAIN_PLACED" /\ event.cell = cell
  BY NumberedIs
<1> HIDE DEF e, event
<1>5. Retells(w, w.control, mountains, event)
  <2> SUFFICES ASSUME NEW heap, NEW m,
                      m = [control |-> w.control, mountains |-> w.mountains, fires |-> m.fires,
                           responders |-> m.responders]
               PROVE  Reduce(heap, m, event)
                        = [control |-> w.control, mountains |-> mountains, fires |-> m.fires,
                           responders |-> m.responders]
    BY DEF Retells
  <2>1. Reduce(heap, m, event) = [m EXCEPT !.mountains = m.mountains \union {cell}]
    BY <1>4, ReduceIs
  <2> QED BY <2>1
<1> HIDE DEF mountains
<1>6. /\ Sound(v) /\ v.listening = w.listening
      /\ v.control = w.control /\ v.mountains = mountains /\ v.fires = w.fires
  <2> HIDE DEF v
  <2> QED BY <1>2, <1>3, <1>5, AnnouncedSound DEF v, event
<1>7. [w EXCEPT !.mountains = mountains] = Regrounded(w, w.control, mountains)
  BY <1>1 DEF Shaped, Regrounded
<1>8. PlaceMountain(w, cell) = IF cell \notin Grid \/ cell \in w.mountains THEN w ELSE v
  BY <1>7 DEF PlaceMountain, mountains, e
<1>9. cell \in mountains
  BY DEF mountains
<1> HIDE DEF v
<1> QED BY <1>6, <1>8, <1>9

LEMMA RemoveMountainSound ==
  ASSUME NEW w, Sound(w), NEW cell
  PROVE  LET v == RemoveMountain(w, cell)
         IN  /\ Sound(v) /\ v.listening = w.listening
             /\ cell \in w.mountains => v.mountains # w.mountains
<1> DEFINE mountains == w.mountains \ {cell}
           e == [type |-> "MOUNTAIN_REMOVED", cell |-> cell]
           event == Numbered(w.drawn + 1, e)
           v == Announce(Regrounded(w, w.control, mountains), e)
<1>1. Shaped(w) /\ Objects(w) /\ Fires(w)
  BY DEF Sound, SoundBut
<1>2. mountains \in SUBSET MountainCells
  BY <1>1 DEF Objects
<1>3. \A f \in w.fires : w.heap.fires[f].status = "active" => w.heap.fires[f].at \notin mountains
  BY <1>1 DEF Fires
<1>4. event.type = "MOUNTAIN_REMOVED" /\ event.cell = cell
  BY NumberedIs
<1> HIDE DEF e, event
<1>5. Retells(w, w.control, mountains, event)
  <2> SUFFICES ASSUME NEW heap, NEW m,
                      m = [control |-> w.control, mountains |-> w.mountains, fires |-> m.fires,
                           responders |-> m.responders]
               PROVE  Reduce(heap, m, event)
                        = [control |-> w.control, mountains |-> mountains, fires |-> m.fires,
                           responders |-> m.responders]
    BY DEF Retells
  <2>1. Reduce(heap, m, event) = [m EXCEPT !.mountains = m.mountains \ {cell}]
    BY <1>4, ReduceIs
  <2> QED BY <2>1
<1> HIDE DEF mountains
<1>6. Sound(v) /\ v.listening = w.listening /\ v.mountains = mountains
  <2> HIDE DEF v
  <2> QED BY <1>2, <1>3, <1>5, AnnouncedSound DEF v, event
<1>7. [w EXCEPT !.mountains = mountains] = Regrounded(w, w.control, mountains)
  BY <1>1 DEF Shaped, Regrounded
<1>8. RemoveMountain(w, cell) = IF cell \notin w.mountains THEN w ELSE v
  BY <1>7 DEF RemoveMountain, mountains, e
<1>9. cell \notin mountains
  BY DEF mountains
<1> HIDE DEF v
<1> QED BY <1>6, <1>8, <1>9

LEMMA MoveMissionControlSound ==
  ASSUME NEW w, Sound(w), NEW cell
  PROVE  LET v == MoveMissionControl(w, cell)
         IN  Sound(v) /\ v.listening = w.listening
<1> DEFINE e == [type |-> "MISSION_CONTROL_MOVED", cell |-> cell]
           event == Numbered(w.drawn + 1, e)
           v == Announce(Regrounded(w, cell, w.mountains), e)
<1>1. Shaped(w) /\ Objects(w) /\ Fires(w)
  BY DEF Sound, SoundBut
<1>2. /\ w.mountains \in SUBSET MountainCells
      /\ \A f \in w.fires : w.heap.fires[f].status = "active" =>
                             w.heap.fires[f].at \notin w.mountains
  BY <1>1 DEF Objects, Fires
<1>3. event.type = "MISSION_CONTROL_MOVED" /\ event.cell = cell
  BY NumberedIs
<1> HIDE DEF e, event
<1>4. Retells(w, cell, w.mountains, event)
  <2> SUFFICES ASSUME NEW heap, NEW m,
                      m = [control |-> w.control, mountains |-> w.mountains, fires |-> m.fires,
                           responders |-> m.responders]
               PROVE  Reduce(heap, m, event)
                        = [control |-> cell, mountains |-> w.mountains, fires |-> m.fires,
                           responders |-> m.responders]
    BY DEF Retells
  <2>1. Reduce(heap, m, event) = [m EXCEPT !.control = cell]
    BY <1>3, ReduceIs
  <2> QED BY <2>1
<1>5. Sound(v) /\ v.listening = w.listening
  <2> HIDE DEF v
  <2> QED BY <1>2, <1>4, AnnouncedSound DEF v, event
<1>6. [w EXCEPT !.control = cell] = Regrounded(w, cell, w.mountains)
  BY <1>1 DEF Shaped, Regrounded
<1>7. MoveMissionControl(w, cell) = v
  BY <1>6 DEF MoveMissionControl, e
<1> HIDE DEF v
<1> QED BY <1>5, <1>7

(* A new responder, like a new fire; then its signal is looked at.         *)
LEMMA CreateResponderSound ==
  ASSUME NEW w, Sound(w), NEW cell
  PROVE  LET v == CreateResponder(w, cell)
         IN  /\ Sound(v) /\ v.listening = w.listening
             /\ cell \in Grid => v.responders # w.responders
<1> DEFINE r == w.drawn + 1
           row == [at |-> cell, last_known |-> cell, status |-> "idle",
                   signal_status |-> "connected", assigned_fire |-> NoFire,
                   path |-> NoPath, path_index |-> 0]
           rows == Put(w.heap.responders, r, row)
           u == [w EXCEPT !.drawn = r, !.responders = w.responders \union {r},
                          !.heap.responders = rows]
           e == [type |-> "RESPONDER_CREATED", responder |-> r, row |-> Shared]
           event == Numbered(r + 1, e)
           m == w.store.state
           x == Emit(u, e)
           v == Announce(u, e)
<1>0. /\ Shaped(w) /\ Messages(w) /\ Objects(w) /\ Fires(w) /\ Crews(w, {})
      /\ Agrees(w, NoResponder, {}) /\ w.drawn \in Nat
      /\ r \notin w.responders /\ r \notin DOMAIN w.heap.responders
      /\ w.responders \subseteq DOMAIN w.heap.responders
  BY DEF Sound, SoundBut, Shaped, Objects
<1> SUFFICES ASSUME cell \in Grid
             PROVE  Sound(v) /\ v.listening = w.listening /\ v.responders # w.responders
  BY DEF CreateResponder
<1>1. /\ DOMAIN rows = DOMAIN w.heap.responders \union {r} /\ rows[r] = row
      /\ \A i \in DOMAIN w.heap.responders : rows[i] = w.heap.responders[i]
  BY <1>0 DEF Put
<1>2. /\ row \in UnitRow /\ row.at = cell /\ row.last_known = cell /\ row.status = "idle"
      /\ row.assigned_fire = NoFire
  BY DEF UnitRow, NoFire, NoPath
<1> HIDE DEF rows, row
<1>3. u = Enlisted(w, r, w.responders \union {r}, rows)
  BY DEF Enlisted
<1> HIDE DEF u
<1>4. /\ Shaped(u) /\ u.control = w.control /\ u.mountains = w.mountains
      /\ u.fires = w.fires /\ u.responders = w.responders \union {r}
      /\ u.heap.responders = rows /\ u.heap.fires = w.heap.fires
      /\ u.recent = w.recent /\ u.drawn = r /\ u.listening = w.listening /\ u.store = w.store
  BY <1>0, <1>3, WithResponders
<1>5. Messages(u)
  <2>1. 1 .. w.drawn \subseteq 1 .. r
    BY <1>0
  <2> QED BY <1>0, <1>4, <2>1 DEF Messages
<1>6. /\ Shaped(x) /\ x.heap = u.heap /\ x.drawn = r + 1
      /\ x.control = u.control /\ x.mountains = u.mountains /\ x.fires = u.fires
      /\ x.responders = u.responders /\ x.listening = u.listening
  BY <1>4, EmitIs
<1>7. /\ Messages(x)
      /\ w.listening /\ m # NoState => x.store.state = Reduce(u.heap, m, event)
  BY <1>4, <1>5, EmitHeard
<1>8. event.type = "RESPONDER_CREATED" /\ event.responder = r /\ event.row = Shared
  BY NumberedIs
<1> HIDE DEF x, event
<1>9. Objects(x)
  <2>1. DOMAIN x.heap.fires \subseteq 1 .. x.drawn /\ DOMAIN x.heap.responders \subseteq 1 .. x.drawn
    BY <1>0, <1>1, <1>4, <1>6 DEF Objects
  <2>2. \A i \in DOMAIN x.heap.responders : x.heap.responders[i] \in UnitRow
    BY <1>0, <1>1, <1>2, <1>4, <1>6 DEF Objects
  <2> QED BY <1>0, <1>1, <1>4, <1>6, <2>1, <2>2 DEF Objects
<1>10. Fires(x)
  BY <1>0, <1>4, <1>6 DEF Fires
<1>11. Crews(x, {})
  <2>1. \A y : Busy(w, y) => Busy(x, y)
    BY <1>4, <1>6 DEF Busy, Engaged, OnRoute
  <2>2. Busy(x, row)
    BY <1>2 DEF Busy
  <2> QED BY <1>0, <1>1, <1>4, <1>6, <2>1, <2>2 DEF Crews
<1>12. ASSUME w.listening
       PROVE  Agrees(x, NoResponder, {})
  <2> DEFINE n == x.store.state
             shown == Put(m.responders, r, Shared)
  <2>1. /\ m = [control |-> w.control, mountains |-> w.mountains, fires |-> m.fires,
                responders |-> m.responders]
        /\ DOMAIN m.fires = w.fires
        /\ \A i \in w.fires : m.fires[i] \in {Shared, w.heap.fires[i]}
        /\ DOMAIN m.responders = w.responders
        /\ \A i \in w.responders :
             m.responders[i] = Shared \/ Match(w.heap.responders[i], m.responders[i])
    BY <1>0, <1>12 DEF Agrees
  <2>2. m # NoState
    BY <2>1 DEF NoState
  <2>3. n = ResponderCreated(m, event)
    BY <1>7, <1>8, <1>12, <2>2, ReduceIs
  <2>4. ResponderCreated(m, event) = [m EXCEPT !.responders = shown]
    BY <1>0, <1>8, <2>1 DEF ResponderCreated
  <2>5. /\ DOMAIN shown = w.responders \union {r} /\ shown[r] = Shared
        /\ \A i \in w.responders : shown[i] = m.responders[i]
    BY <1>0, <2>1 DEF Put
  <2> HIDE DEF m, shown
  <2>6. [m EXCEPT !.responders = shown]
          = [control |-> w.control, mountains |-> w.mountains, fires |-> m.fires,
             responders |-> shown]
    BY <2>1
  <2>7. n = [control |-> w.control, mountains |-> w.mountains, fires |-> m.fires,
             responders |-> shown]
    BY <2>3, <2>4, <2>6
  <2> HIDE DEF n
  <2>8. n.fires = m.fires /\ n.responders = shown
    BY <2>7
  <2>9. \A i \in x.responders :
          \/ shown[i] = Shared
          \/ i # NoResponder /\ Match(x.heap.responders[i], shown[i])
    <3>1. \A i \in w.responders : i # NoResponder
      BY <1>0 DEF Objects, NoResponder
    <3> QED BY <1>0, <1>1, <1>4, <1>6, <2>1, <2>5, <3>1
  <2> QED BY <1>4, <1>6, <2>1, <2>5, <2>7, <2>8, <2>9 DEF Agrees, n
<1>13. Agrees(x, NoResponder, {})
  BY <1>4, <1>6, <1>12 DEF Agrees
<1>14. SoundBut(x, {})
  BY <1>6, <1>7, <1>9, <1>10, <1>11, <1>13 DEF SoundBut
<1>15. v = RecomputeSignals(x)
  BY DEF Announce, x
<1> HIDE DEF v
<1>16. SoundBut(v, {}) /\ Resighted(x, v) /\ Current(v, v.responders)
  BY <1>14, <1>15, RecomputeSound
<1>17. v.responders # w.responders
  BY <1>0, <1>4, <1>6, <1>16 DEF Resighted, Same
<1> QED BY <1>4, <1>6, <1>16, <1>17 DEF Sound, Resighted, Same

(* Between its two events a dispatched responder moves in the store        *)
(* already, and keeps its last path in both.                               *)
Sent(row, shown) ==
  /\ shown \in UnitRow
  /\ row.at = shown.at /\ row.last_known = shown.last_known /\ row.path_index = shown.path_index
  /\ row.signal_status = shown.signal_status /\ row.assigned_fire = shown.assigned_fire

Sendings == {p \in UnitRow \X UnitRow : Sent(p[1], p[2])}

LEMMA AssignHeard ==
  ASSUME NEW w, SoundBut(w, {}), NEW r \in w.responders, NEW f \in w.fires
  PROVE  LET v == Assign(w, r, f)
         IN  /\ Shaped(v) /\ Messages(v) /\ Objects(v) /\ Agrees(v, r, Sendings)
             /\ Rewrites(w, v, r, [w.heap.responders[r] EXCEPT !.assigned_fire = f])
<1> DEFINE old == w.heap.responders[r]
           row == [old EXCEPT !.assigned_fire = f]
           e == [type |-> "RESPONDER_DISPATCHED", responder |-> r, fire |-> f]
           event == Numbered(w.drawn + 1, e)
           v == Assign(w, r, f)
<1>1. /\ Shaped(w) /\ Messages(w) /\ Objects(w) /\ Agrees(w, NoResponder, {})
      /\ old \in UnitRow /\ f \in Nat
  BY DEF SoundBut, Objects
<1>2. v = Emit(SetResponder(w, r, row), e)
  BY DEF Assign
<1>3. /\ row \in UnitRow /\ row.at = old.at /\ row.last_known = old.last_known
      /\ row.signal_status = old.signal_status /\ row.path_index = old.path_index
      /\ row.assigned_fire = f
  <2> HIDE DEF old
  <2> QED BY <1>1 DEF UnitRow
<1>4. /\ event.type = "RESPONDER_DISPATCHED" /\ event.fire = f
      /\ e.type \in OfResponder /\ e.responder = r
      /\ "type" \in DOMAIN e /\ "responder" \in DOMAIN e
  BY NumberedIs DEF OfResponder
<1> HIDE DEF e, event, row, v
<1>5. \A x \in UnitRow :
        LET y == ResponderAfter(x, event)
        IN  /\ y \in UnitRow /\ y.at = x.at /\ y.last_known = x.last_known
            /\ y.signal_status = x.signal_status /\ y.assigned_fire = f
            /\ y.path_index = x.path_index
  BY <1>1, <1>4, DispatchedIs
<1>6. Agrees(w, r, Matches)
  BY <1>1, Refocus
<1>7. <<row, ResponderAfter(row, event)>> \in Sendings
  BY <1>3, <1>5 DEF Sendings, Sent
<1>8. \A shown : <<old, shown>> \in Matches => <<row, ResponderAfter(shown, event)>> \in Sendings
  <2> SUFFICES ASSUME NEW shown, <<old, shown>> \in Matches
               PROVE  <<row, ResponderAfter(shown, event)>> \in Sendings
    OBVIOUS
  <2>1. shown \in UnitRow /\ Match(old, shown)
    BY DEF Matches
  <2> DEFINE y == ResponderAfter(shown, event)
  <2>2. y \in UnitRow /\ Sent(row, y)
    BY <1>3, <1>5, <2>1 DEF Match, Sent
  <2> HIDE DEF y
  <2> QED BY <1>3, <2>2 DEF Sendings, y
<1>9. /\ Shaped(v) /\ Messages(v) /\ Objects(v) /\ Agrees(v, r, Sendings)
      /\ Rewrites(w, v, r, row)
  BY <1>1, <1>2, <1>3, <1>4, <1>6, <1>7, <1>8, Told DEF event
<1> QED BY <1>9 DEF v, row

(* What then settles r, with or without a route.                           *)
LEMMA SettledSound ==
  ASSUME NEW w, Sound(w), NEW r \in w.responders, NEW u, NEW old,
         Shaped(u), Messages(u), Objects(u), Agrees(u, r, Sendings),
         Rewrites(w, u, r, old),
         NEW row \in UnitRow, Busy(w, row),
         row.at = w.heap.responders[r].at, row.signal_status = w.heap.responders[r].signal_status,
         NEW e, "type" \in DOMAIN e, "responder" \in DOMAIN e,
         e.type \in OfResponder, e.responder = r,
         \A shown \in UnitRow :
           Sent(old, shown) => Match(row, ResponderAfter(shown, Numbered(u.drawn + 1, e))),
         Match(row, ResponderAfter(row, Numbered(u.drawn + 1, e)))
  PROVE  LET v == Emit(SetResponder(u, r, row), e)
         IN  Sound(v) /\ v.listening = w.listening
<1> DEFINE event == Numbered(u.drawn + 1, e)
           v == Emit(SetResponder(u, r, row), e)
<1>0. /\ Fires(w) /\ Crews(w, {}) /\ Current(w, w.responders) /\ Objects(w)
      /\ u.heap.responders[r] = old
  BY DEF Sound, SoundBut, Rewrites
<1>1. \A a, b : Match(a, b) /\ a \in UnitRow => <<a, b>> \in Matches
  BY DEF Matches, Match
<1>2. \A a, b : <<a, b>> \in Sendings => b \in UnitRow /\ Sent(a, b)
  BY DEF Sendings
<1>3. <<row, ResponderAfter(row, event)>> \in Matches
  BY <1>1
<1>4. \A shown : <<u.heap.responders[r], shown>> \in Sendings =>
                   <<row, ResponderAfter(shown, event)>> \in Matches
  BY <1>0, <1>1, <1>2
<1>5. r \in u.responders
  BY DEF Rewrites, Same
<1>6. /\ Shaped(v) /\ Messages(v) /\ Objects(v) /\ Agrees(v, r, Matches)
      /\ Rewrites(u, v, r, row)
  BY <1>3, <1>4, <1>5, Told
<1> HIDE DEF v
<1>7. /\ v.heap.fires = w.heap.fires /\ v.heap.responders[r] = row
      /\ \A i \in w.responders : i # r => v.heap.responders[i] = w.heap.responders[i]
      /\ v.control = w.control /\ v.mountains = w.mountains /\ v.fires = w.fires
      /\ v.responders = w.responders /\ v.listening = w.listening
  BY <1>0, <1>6 DEF Rewrites, Same, Objects
<1>8. Agrees(v, NoResponder, {})
  BY <1>6, Refocus
<1>9. Fires(v)
  BY <1>0, <1>7 DEF Fires
<1>10. Crews(v, {})
  <2>1. \A x : Busy(w, x) => Busy(v, x)
    BY <1>7 DEF Busy, Engaged, OnRoute
  <2> QED BY <1>0, <1>7, <2>1 DEF Crews
<1>11. Current(v, v.responders)
  BY <1>0, <1>7 DEF Current
<1> QED BY <1>6, <1>7, <1>8, <1>9, <1>10, <1>11 DEF Sound, SoundBut, v

(* To a fire that burns, with a route or, when there is none, sent home.   *)
LEMMA DispatchSound ==
  ASSUME NEW w, Sound(w), NEW r, NEW f
  PROVE  LET v == DispatchResponder(w, r, f)
         IN  Sound(v) /\ v.listening = w.listening
<1> DEFINE old == w.heap.responders[r]
           fire == w.heap.fires[f]
           path == PathBetween(old.at, fire.at, w.mountains)
           u == Assign(w, r, f)
           sent == [old EXCEPT !.assigned_fire = f]
           v == DispatchResponder(w, r, f)
<1> SUFFICES ASSUME r \in w.responders, f \in w.fires, fire.status # "extinguished"
             PROVE  Sound(v) /\ v.listening = w.listening
  BY DEF DispatchResponder
<1>1. v = IF path = NoPath THEN Unroute(u, r, f) ELSE Route(u, r, path)
  BY DEF DispatchResponder
<1>2. /\ old \in UnitRow /\ Busy(w, old) /\ fire \in FireRow /\ f \in Nat
      /\ w.mountains \in SUBSET MountainCells
  BY DEF Sound, SoundBut, Objects, Crews
<1>3. fire.status = "active" /\ fire.at \in Grid /\ old.at \in Grid
  BY <1>2 DEF FireRow, UnitRow
<1>4. path \in Seq(Grid) /\ (path # NoPath => path[1] = old.at /\ path[Len(path)] = fire.at)
  BY <1>2, <1>3, RouteAssumption
<1>5. /\ Shaped(u) /\ Messages(u) /\ Objects(u) /\ Agrees(u, r, Sendings)
      /\ Rewrites(w, u, r, sent)
  BY AssignHeard DEF Sound
<1>6. u.heap.responders[r] = sent
  BY <1>5 DEF Rewrites
<1>7. /\ sent \in UnitRow /\ sent.at = old.at /\ sent.last_known = old.last_known
      /\ sent.signal_status = old.signal_status /\ sent.path_index = old.path_index
      /\ sent.assigned_fire = f
  <2> HIDE DEF old
  <2> QED BY <1>2 DEF UnitRow
<1> HIDE DEF u, v, sent, path
<1>8. CASE path = NoPath
  <2> DEFINE row == [sent EXCEPT !.status = "idle", !.assigned_fire = NoFire, !.path = NoPath]
             e == [type |-> "ROUTE_NOT_FOUND", responder |-> r, fire |-> f]
             event == Numbered(u.drawn + 1, e)
  <2>1. v = Emit(SetResponder(u, r, row), e)
    BY <1>1, <1>6, <1>8 DEF Unroute
  <2>2. /\ row \in UnitRow /\ row.at = old.at /\ row.last_known = old.last_known
        /\ row.signal_status = old.signal_status /\ row.path_index = old.path_index
        /\ row.status = "idle" /\ row.assigned_fire = NoFire /\ row.path = NoPath
    <3>1. NoFire \in Nat /\ NoPath \in Seq(Grid)
      BY DEF NoFire, NoPath
    <3> HIDE DEF old
    <3> QED BY <1>7, <3>1 DEF UnitRow
  <2>3. /\ event.type = "ROUTE_NOT_FOUND"
        /\ e.type \in OfResponder /\ e.responder = r
        /\ "type" \in DOMAIN e /\ "responder" \in DOMAIN e
    BY NumberedIs DEF OfResponder
  <2> HIDE DEF row, e, event
  <2>4. \A x \in UnitRow :
          LET y == ResponderAfter(x, event)
          IN  /\ y \in UnitRow /\ y.at = x.at /\ y.last_known = x.last_known
              /\ y.status = "idle" /\ y.signal_status = x.signal_status
              /\ y.assigned_fire = NoFire /\ y.path = NoPath /\ y.path_index = x.path_index
    BY <2>3, NoRouteIs
  <2>5. Busy(w, row)
    BY <1>2, <2>2 DEF Busy
  <2>6. Match(row, ResponderAfter(row, event))
    BY <2>2, <2>4 DEF Match
  <2>7. \A shown \in UnitRow : Sent(sent, shown) => Match(row, ResponderAfter(shown, event))
    BY <1>7, <2>2, <2>4 DEF Match, Sent
  <2> QED BY <1>5, <2>1, <2>2, <2>3, <2>5, <2>6, <2>7, SettledSound DEF event
<1>9. CASE path # NoPath
  <2> DEFINE row == [sent EXCEPT !.path = path, !.path_index = 0, !.status = "moving"]
             e == [type |-> "RESPONDER_PATH_ASSIGNED", responder |-> r, path |-> path]
             event == Numbered(u.drawn + 1, e)
  <2>1. v = Emit(SetResponder(u, r, row), e)
    BY <1>1, <1>6, <1>9 DEF Route
  <2>2. /\ row \in UnitRow /\ row.at = old.at /\ row.last_known = old.last_known
        /\ row.signal_status = old.signal_status /\ row.path_index = 0
        /\ row.status = "moving" /\ row.assigned_fire = f /\ row.path = path
    <3>1. 0 \in Nat /\ "moving" \in {"idle", "moving", "fighting_fire"}
      OBVIOUS
    <3> HIDE DEF old
    <3> QED BY <1>4, <1>7, <3>1 DEF UnitRow
  <2>3. /\ event.type = "RESPONDER_PATH_ASSIGNED" /\ event.path = path
        /\ e.type \in OfResponder /\ e.responder = r
        /\ "type" \in DOMAIN e /\ "responder" \in DOMAIN e
    BY NumberedIs DEF OfResponder
  <2> HIDE DEF row, e, event
  <2>4. \A x \in UnitRow :
          LET y == ResponderAfter(x, event)
          IN  /\ y \in UnitRow /\ y.at = x.at /\ y.last_known = x.last_known
              /\ y.status = "moving" /\ y.signal_status = x.signal_status
              /\ y.assigned_fire = x.assigned_fire /\ y.path = path /\ y.path_index = 0
    BY <1>4, <2>3, PathAssignedIs
  <2>5. Busy(w, row)
    <3>1. Engaged(w, row)
      BY <1>3, <2>2 DEF Engaged
    <3>2. Len(path) \in Nat /\ Len(path) > 0
      BY <1>4, <1>9 DEF NoPath
    <3>3. OnRoute(w, row)
      BY <1>4, <1>9, <2>2, <3>2 DEF OnRoute
    <3> QED BY <1>2, <1>9, <2>2, <3>1, <3>3 DEF Busy
  <2>6. Match(row, ResponderAfter(row, event))
    BY <1>9, <2>2, <2>4 DEF Match
  <2>7. \A shown \in UnitRow : Sent(sent, shown) => Match(row, ResponderAfter(shown, event))
    BY <1>7, <1>9, <2>2, <2>4 DEF Match, Sent
  <2> QED BY <1>5, <2>1, <2>2, <2>3, <2>5, <2>6, <2>7, SettledSound DEF event
<1> QED BY <1>8, <1>9

(* A dispatch of a responder of the mission to a fire that burns is told   *)
(* twice, whether or not there is a route.                                 *)
LEMMA DispatchTells ==
  ASSUME NEW w, Sound(w), NEW r \in w.responders, NEW f \in w.fires,
         w.heap.fires[f].status # "extinguished"
  PROVE  DispatchResponder(w, r, f) # w
<1> DEFINE u == Assign(w, r, f)
           v == DispatchResponder(w, r, f)
<1>1. /\ Shaped(u) /\ Objects(u) /\ u.drawn = w.drawn + 1 /\ u.responders = w.responders
      /\ w.drawn \in Nat
  <2>1. SoundBut(w, {})
    BY DEF Sound
  <2>2. /\ Shaped(u) /\ Objects(u)
        /\ Rewrites(w, u, r, [w.heap.responders[r] EXCEPT !.assigned_fire = f])
    BY <2>1, AssignHeard
  <2> HIDE DEF u
  <2>3. u.drawn = w.drawn + 1 /\ u.responders = w.responders
    BY <2>2 DEF Rewrites, Same
  <2>4. w.drawn \in Nat
    BY <2>1 DEF SoundBut, Shaped
  <2> QED BY <2>2, <2>3, <2>4
<1>2. \E row, e : v = Emit(SetResponder(u, r, row), e)
  BY DEF DispatchResponder, Route, Unroute
<1> HIDE DEF u, v
<1>3. PICK row, e : v = Emit(SetResponder(u, r, row), e)
  BY <1>2
<1>4. r \in DOMAIN u.heap.responders
  BY <1>1 DEF Objects
<1> DEFINE s == SetResponder(u, r, row)
<1>5. Shaped(s) /\ s.drawn = w.drawn + 1
  BY <1>1, <1>4, SetResponderIs
<1> HIDE DEF s
<1>6. Emit(s, e).drawn = w.drawn + 2
  BY <1>1, <1>5, EmitIs
<1>7. v.drawn # w.drawn
  BY <1>1, <1>3, <1>6 DEF s
<1> QED BY <1>7 DEF v

LEMMA ResetMissionSound ==
  ASSUME NEW w, Sound(w)
  PROVE  LET v == ResetMission(w)
         IN  Sound(v) /\ v.listening = w.listening
<1> DEFINE u == [w EXCEPT !.mountains = {}, !.fires = {}, !.responders = {}, !.control = Spawn]
           e == [type |-> "MISSION_RESET", cell |-> Spawn]
           event == Numbered(w.drawn + 1, e)
           m == w.store.state
           v == ResetMission(w)
<1>0. /\ Shaped(w) /\ Messages(w) /\ Objects(w) /\ Agrees(w, NoResponder, {}) /\ w.drawn \in Nat
  BY DEF Sound, SoundBut, Shaped
<1>1. v = Emit(u, e)
  BY DEF ResetMission
<1>2. u = [exists |-> w.exists, control |-> Spawn, mountains |-> {},
           fires |-> {}, responders |-> {}, heap |-> w.heap,
           recent |-> w.recent, drawn |-> w.drawn, listening |-> w.listening, store |-> w.store]
  <2> DEFINE Made(control, mountains, fires, responders) ==
               [exists |-> w.exists, control |-> control, mountains |-> mountains,
                fires |-> fires, responders |-> responders, heap |-> w.heap,
                recent |-> w.recent, drawn |-> w.drawn, listening |-> w.listening,
                store |-> w.store]
             bare == [w EXCEPT !.mountains = {}]
             cold == [bare EXCEPT !.fires = {}]
             empty == [cold EXCEPT !.responders = {}]
  <2>1. w = Made(w.control, w.mountains, w.fires, w.responders)
    BY <1>0 DEF Shaped
  <2>2. bare = Made(w.control, {}, w.fires, w.responders)
    BY <2>1
  <2> HIDE DEF bare
  <2>3. cold = Made(w.control, {}, {}, w.responders)
    BY <2>2
  <2> HIDE DEF cold
  <2>4. empty = Made(w.control, {}, {}, {})
    BY <2>3
  <2> HIDE DEF empty
  <2>5. [empty EXCEPT !.control = Spawn] = Made(Spawn, {}, {}, {})
    BY <2>4
  <2>6. u = [empty EXCEPT !.control = Spawn]
    BY DEF empty, cold, bare
  <2> HIDE DEF u
  <2> QED BY <2>5, <2>6
<1> HIDE DEF u
<1>3. /\ Shaped(u) /\ u.control = Spawn /\ u.mountains = {} /\ u.fires = {} /\ u.responders = {}
      /\ u.heap = w.heap /\ u.recent = w.recent /\ u.drawn = w.drawn
      /\ u.listening = w.listening /\ u.store = w.store
  BY <1>0, <1>2 DEF Shaped
<1>4. Messages(u)
  BY <1>0, <1>3 DEF Messages
<1> HIDE DEF v
<1>5. /\ Shaped(v) /\ v.heap = u.heap /\ v.drawn = u.drawn + 1
      /\ v.control = u.control /\ v.mountains = u.mountains /\ v.fires = u.fires
      /\ v.responders = u.responders /\ v.listening = u.listening
  BY <1>1, <1>3, EmitIs
<1>6. /\ Messages(v)
      /\ w.listening /\ m # NoState => v.store.state = Reduce(u.heap, m, event)
  BY <1>1, <1>3, <1>4, EmitHeard
<1>7. event.type = "MISSION_RESET" /\ event.cell = Spawn
  BY NumberedIs
<1> HIDE DEF event
<1>8. Objects(v)
  <2>1. DOMAIN v.heap.fires \subseteq 1 .. v.drawn /\ DOMAIN v.heap.responders \subseteq 1 .. v.drawn
    BY <1>0, <1>3, <1>5 DEF Objects
  <2> QED BY <1>0, <1>3, <1>5, <2>1 DEF Objects
<1>9. Fires(v) /\ Crews(v, {}) /\ Current(v, v.responders)
  BY <1>3, <1>5 DEF Fires, Crews, Current
<1>10. ASSUME w.listening
       PROVE  Agrees(v, NoResponder, {})
  <2> DEFINE n == v.store.state
  <2>1. m = [control |-> w.control, mountains |-> w.mountains, fires |-> m.fires,
             responders |-> m.responders]
    BY <1>0, <1>10 DEF Agrees
  <2>2. m # NoState
    BY <2>1 DEF NoState
  <2>3. n = Bare(Spawn)
    BY <1>6, <1>7, <1>10, <2>2, ReduceIs
  <2> HIDE DEF n
  <2>4. /\ n = [control |-> Spawn, mountains |-> {}, fires |-> n.fires, responders |-> n.responders]
        /\ DOMAIN n.fires = {} /\ DOMAIN n.responders = {}
    BY <2>3 DEF Bare
  <2> QED BY <1>3, <1>5, <2>4 DEF Agrees, n
<1>11. Agrees(v, NoResponder, {})
  BY <1>3, <1>5, <1>10 DEF Agrees
<1> QED BY <1>3, <1>5, <1>6, <1>8, <1>9, <1>11 DEF Sound, SoundBut, v
-----------------------------------------------------------------------------
(* 9. A mission made and seeded *)

With(w, exists) == [w EXCEPT !.exists = exists]

LEMMA WithIs ==
  ASSUME NEW w, Shaped(w), NEW exists
  PROVE  LET u == With(w, exists)
         IN  /\ Shaped(u) /\ u.control = w.control /\ u.mountains = w.mountains
             /\ u.fires = w.fires /\ u.responders = w.responders /\ u.heap = w.heap
             /\ u.recent = w.recent /\ u.drawn = w.drawn /\ u.listening = w.listening
             /\ u.store = w.store
<1>1. w = [exists |-> w.exists, control |-> w.control, mountains |-> w.mountains,
           fires |-> w.fires, responders |-> w.responders, heap |-> w.heap,
           recent |-> w.recent, drawn |-> w.drawn, listening |-> w.listening,
           store |-> w.store]
  BY DEF Shaped
<1> DEFINE u == With(w, exists)
<1>2. u = [exists |-> exists, control |-> w.control, mountains |-> w.mountains,
           fires |-> w.fires, responders |-> w.responders, heap |-> w.heap,
           recent |-> w.recent, drawn |-> w.drawn, listening |-> w.listening,
           store |-> w.store]
  BY <1>1 DEF With
<1> HIDE DEF u
<1> QED BY <1>2 DEF Shaped, u

LEMMA CreateMissionSound ==
  Sound(CreateMission) /\ ~CreateMission.listening /\ CreateMission.fires = {}
<1> DEFINE yes == TRUE
           u == With(NoWorld, yes)
           v == CreateMission
<1>1. /\ Shaped(NoWorld)
      /\ NoWorld.mountains = {} /\ NoWorld.fires = {} /\ NoWorld.responders = {}
      /\ NoWorld.control = Spawn /\ NoWorld.heap = [fires |-> << >>, responders |-> << >>]
      /\ NoWorld.recent = << >> /\ NoWorld.drawn = 0 /\ ~NoWorld.listening
      /\ NoWorld.store = EmptyStore
  BY DEF NoWorld, Shaped, EmptyStore
<1>2. v = Emit(u, [type |-> "MISSION_CREATED"])
  BY DEF CreateMission, With
<1> HIDE DEF yes, u, v
<1>3. /\ u.mountains = {} /\ u.fires = {} /\ u.responders = {} /\ u.control = Spawn
      /\ u.heap = [fires |-> << >>, responders |-> << >>]
      /\ u.recent = << >> /\ u.drawn = 0 /\ ~u.listening /\ u.store = EmptyStore
      /\ Shaped(u)
  BY <1>1, WithIs DEF u
<1>4. Shaped(u)
  BY <1>3
<1>5. Messages(u)
  <2>1. u.recent \in Seq({}) /\ u.store.events \in Seq({})
    BY <1>3 DEF EmptyStore
  <2> QED BY <2>1 DEF Messages
<1>6. /\ Shaped(v) /\ v.heap = u.heap /\ v.drawn = u.drawn + 1
      /\ v.control = u.control /\ v.mountains = u.mountains /\ v.fires = u.fires
      /\ v.responders = u.responders /\ v.listening = u.listening
  BY <1>2, <1>4, EmitIs
<1>7. Messages(v)
  BY <1>2, <1>4, <1>5, EmitHeard
<1>8. Objects(v)
  <2>1. DOMAIN v.heap.fires = {} /\ DOMAIN v.heap.responders = {}
    BY <1>3, <1>6
  <2> QED BY <1>3, <1>6, <2>1 DEF Objects
<1>9. Fires(v) /\ Crews(v, {}) /\ Current(v, v.responders) /\ Agrees(v, NoResponder, {})
  BY <1>3, <1>6 DEF Fires, Crews, Current, Agrees
<1> QED BY <1>3, <1>6, <1>7, <1>8, <1>9 DEF Sound, SoundBut, v

(* Mountains first, while nothing burns. *)
LEMMA SeededSound ==
  ASSUME NEW w, Sound(w), w.fires = {}
  PROVE  LET v == Seeded(w)
         IN  Sound(v) /\ v.listening = w.listening
<1> DEFINE raised == FoldLeft(PlaceMountain, w, SeedMountains)
           kindled == FoldLeft(PlaceFire, raised, SeedFires)
           v == Seeded(w)
<1>1. Sound(raised) /\ raised.listening = w.listening
  <2> DEFINE n == Len(SeedMountains)
  <2>0. SeedMountains \in Seq(MountainCells) /\ n \in Nat /\ \A j \in 1 .. n : SeedMountains[j] \in MountainCells
    BY BoardAssumption
  <2>1. PICK g : /\ g[0] = w /\ \A i \in 1 .. n : g[i] = PlaceMountain(g[i - 1], SeedMountains[i])
                 /\ raised = g[n]
    BY <2>0, RaisesTrace
  <2> HIDE DEF n, raised
  <2> DEFINE Q == {i \in 0 .. n : Sound(g[i]) /\ g[i].listening = w.listening /\ g[i].fires = {}}
  <2>2. 0 \in Q
    BY <2>0, <2>1
  <2>3. ASSUME NEW i \in 1 .. n, i - 1 \in Q
        PROVE  i \in Q
    <3> DEFINE x == g[i - 1]
               y == PlaceMountain(x, SeedMountains[i])
    <3>1. Sound(x) /\ x.listening = w.listening /\ x.fires = {} /\ SeedMountains[i] \in MountainCells
      BY <2>0, <2>3
    <3>2. BurningAt(x, SeedMountains[i]) = {}
      BY <3>1 DEF BurningAt
    <3>3. Sound(y) /\ y.listening = x.listening /\ y.fires = x.fires
      BY <3>1, <3>2, PlaceMountainSound
    <3>4. g[i] = y /\ i \in 0 .. n
      BY <2>0, <2>1
    <3> HIDE DEF x, y
    <3> QED BY <3>1, <3>3, <3>4
  <2> HIDE DEF Q
  <2>4. \A i \in 0 .. n : i \in Q
    BY <2>0, <2>2, <2>3, Flat!InductionUpTo
  <2>5. n \in Q
    BY <2>0, <2>4
  <2> QED BY <2>1, <2>5 DEF Q
<1> HIDE DEF raised
<1>2. Sound(kindled) /\ kindled.listening = w.listening
  <2> DEFINE n == Len(SeedFires)
  <2>0. SeedFires \in Seq(Grid) /\ n \in Nat
    BY BoardAssumption
  <2>1. PICK g : /\ g[0] = raised /\ \A i \in 1 .. n : g[i] = PlaceFire(g[i - 1], SeedFires[i])
                 /\ kindled = g[n]
    BY <2>0, KindlesTrace
  <2> HIDE DEF n, kindled
  <2> DEFINE Q == {i \in 0 .. n : Sound(g[i]) /\ g[i].listening = w.listening}
  <2>2. 0 \in Q
    BY <1>1, <2>0, <2>1
  <2>3. ASSUME NEW i \in 1 .. n, i - 1 \in Q
        PROVE  i \in Q
    <3> DEFINE x == g[i - 1]
               y == PlaceFire(x, SeedFires[i])
    <3>1. Sound(x) /\ x.listening = w.listening
      BY <2>3
    <3>2. Sound(y) /\ y.listening = x.listening
      BY <3>1, PlaceFireSound
    <3>3. g[i] = y /\ i \in 0 .. n
      BY <2>0, <2>1
    <3> HIDE DEF x, y
    <3> QED BY <3>1, <3>2, <3>3
  <2> HIDE DEF Q
  <2>4. \A i \in 0 .. n : i \in Q
    BY <2>0, <2>2, <2>3, Flat!InductionUpTo
  <2>5. n \in Q
    BY <2>0, <2>4
  <2> QED BY <2>1, <2>5 DEF Q
<1> HIDE DEF kindled
<1>3. v = FoldLeft(CreateResponder, kindled, SeedResponders)
  BY DEF Seeded, kindled, raised
<1> HIDE DEF v
<1>4. Sound(v) /\ v.listening = w.listening
  <2> DEFINE n == Len(SeedResponders)
  <2>0. SeedResponders \in Seq(Grid) /\ n \in Nat
    BY BoardAssumption
  <2>1. PICK g : /\ g[0] = kindled /\ \A i \in 1 .. n : g[i] = CreateResponder(g[i - 1], SeedResponders[i])
                 /\ FoldLeft(CreateResponder, kindled, SeedResponders) = g[n]
    BY <2>0, StationsTrace
  <2> HIDE DEF n
  <2> DEFINE Q == {i \in 0 .. n : Sound(g[i]) /\ g[i].listening = w.listening}
  <2>2. 0 \in Q
    BY <1>2, <2>0, <2>1
  <2>3. ASSUME NEW i \in 1 .. n, i - 1 \in Q
        PROVE  i \in Q
    <3> DEFINE x == g[i - 1]
               y == CreateResponder(x, SeedResponders[i])
    <3>1. Sound(x) /\ x.listening = w.listening
      BY <2>3
    <3>2. Sound(y) /\ y.listening = x.listening
      BY <3>1, CreateResponderSound
    <3>3. g[i] = y /\ i \in 0 .. n
      BY <2>0, <2>1
    <3> HIDE DEF x, y
    <3> QED BY <3>1, <3>2, <3>3
  <2> HIDE DEF Q
  <2>4. \A i \in 0 .. n : i \in Q
    BY <2>0, <2>2, <2>3, Flat!InductionUpTo
  <2>5. n \in Q
    BY <2>0, <2>4
  <2> QED BY <1>3, <2>1, <2>5 DEF Q
<1> QED BY <1>4 DEF v

(* The page's own part of the world. *)
Attached(w, store, listening) == [w EXCEPT !.store = store, !.listening = listening]

LEMMA AttachedIs ==
  ASSUME NEW w, Shaped(w), NEW listening \in BOOLEAN, NEW store,
         store = [state |-> store.state, events |-> store.events, base |-> store.base,
                  timeline |-> store.timeline, cursor |-> store.cursor]
  PROVE  LET v == Attached(w, store, listening)
         IN  /\ Shaped(v) /\ v.control = w.control /\ v.mountains = w.mountains
             /\ v.fires = w.fires /\ v.responders = w.responders /\ v.heap = w.heap
             /\ v.recent = w.recent /\ v.drawn = w.drawn /\ v.listening = listening
             /\ v.store = store
<1> DEFINE u == [w EXCEPT !.store = store]
           v == [u EXCEPT !.listening = listening]
<1>1. w = [exists |-> w.exists, control |-> w.control, mountains |-> w.mountains,
           fires |-> w.fires, responders |-> w.responders, heap |-> w.heap,
           recent |-> w.recent, drawn |-> w.drawn, listening |-> w.listening,
           store |-> w.store]
  BY DEF Shaped
<1>2. u = [exists |-> w.exists, control |-> w.control, mountains |-> w.mountains,
           fires |-> w.fires, responders |-> w.responders, heap |-> w.heap,
           recent |-> w.recent, drawn |-> w.drawn, listening |-> w.listening,
           store |-> store]
  BY <1>1
<1>3. v = Attached(w, store, listening)
  BY DEF Attached
<1> HIDE DEF u
<1>4. v = [exists |-> w.exists, control |-> w.control, mountains |-> w.mountains,
           fires |-> w.fires, responders |-> w.responders, heap |-> w.heap,
           recent |-> w.recent, drawn |-> w.drawn, listening |-> listening,
           store |-> store]
  BY <1>2
<1> HIDE DEF v
<1>5. /\ v.exists = w.exists /\ v.control = w.control /\ v.mountains = w.mountains
      /\ v.fires = w.fires /\ v.responders = w.responders /\ v.heap = w.heap
      /\ v.recent = w.recent /\ v.drawn = w.drawn /\ v.listening = listening
      /\ v.store = store
  BY <1>4
<1>6. Shaped(v)
  BY <1>4, <1>5 DEF Shaped
<1> QED BY <1>3, <1>5, <1>6

LEMMA AttachedSound ==
  ASSUME NEW w, Sound(w), NEW listening \in BOOLEAN, NEW store,
         store = [state |-> store.state, events |-> store.events, base |-> store.base,
                  timeline |-> store.timeline, cursor |-> store.cursor],
         store.events \in {<< >>, w.recent, w.store.events},
         Agrees(Attached(w, store, listening), NoResponder, {})
  PROVE  LET v == Attached(w, store, listening)
         IN  Sound(v) /\ v.listening = listening
<1> DEFINE v == Attached(w, store, listening)
<1>1. /\ Shaped(w) /\ Messages(w) /\ Objects(w) /\ Fires(w) /\ Crews(w, {})
      /\ Current(w, w.responders)
  BY DEF Sound, SoundBut
<1>2. /\ Shaped(v) /\ v.control = w.control /\ v.mountains = w.mountains
      /\ v.fires = w.fires /\ v.responders = w.responders /\ v.heap = w.heap
      /\ v.recent = w.recent /\ v.drawn = w.drawn /\ v.listening = listening
      /\ v.store = store
  BY <1>1, AttachedIs
<1> HIDE DEF v
<1>3. Messages(v)
  <2>1. PICK T : /\ w.recent \in Seq(T) /\ w.store.events \in Seq(T)
                 /\ \A e \in T : e.id \in 1 .. w.drawn
    BY <1>1 DEF Messages
  <2>2. << >> \in Seq(T)
    OBVIOUS
  <2>3. store.events \in Seq(T)
    BY <2>1, <2>2
  <2> QED BY <1>2, <2>1, <2>3 DEF Messages
<1>4. Objects(v) /\ Fires(v) /\ Current(v, v.responders)
  <2>1. Objects(v)
    BY <1>1, <1>2 DEF Objects
  <2>2. Fires(v)
    BY <1>1, <1>2 DEF Fires
  <2>3. Current(v, v.responders)
    BY <1>1, <1>2 DEF Current
  <2> QED BY <2>1, <2>2, <2>3
<1>5. Crews(v, {})
  <2>1. ASSUME NEW row, Busy(w, row)
        PROVE  Busy(v, row)
    <3>1. Engaged(w, row) => Engaged(v, row)
      BY <1>2 DEF Engaged
    <3>2. OnRoute(w, row) => OnRoute(v, row)
      BY <1>2 DEF OnRoute
    <3> QED BY <1>2, <2>1, <3>1, <3>2 DEF Busy
  <2> QED BY <1>1, <1>2, <2>1 DEF Crews
<1> QED BY <1>2, <1>3, <1>4, <1>5 DEF Sound, SoundBut, v

(* To load the mission page: the mission by value, and its recent events.  *)
LEMMA OpenSound ==
  ASSUME NEW w, Sound(w)
  PROVE  LET v == [w EXCEPT !.store = Store(w.heap)!SetSnapshot(@, Mission(w), w.recent),
                            !.listening = TRUE]
         IN  Sound(v) /\ v.listening = TRUE
<1> DEFINE m == Mission(w)
           store == [state |-> m, events |-> w.recent, base |-> m,
                     timeline |-> << >>, cursor |-> NoEvent]
           yes == TRUE
           v == Attached(w, store, yes)
<1>1. v = [w EXCEPT !.store = Store(w.heap)!SetSnapshot(@, Mission(w), w.recent), !.listening = TRUE]
  BY DEF Store!SetSnapshot, Attached
<1>2. /\ store = [state |-> store.state, events |-> store.events, base |-> store.base,
                  timeline |-> store.timeline, cursor |-> store.cursor]
      /\ store.state = m /\ store.events = w.recent
  OBVIOUS
<1>3. Shaped(w) /\ Objects(w) /\ Crews(w, {})
  BY DEF Sound, SoundBut
<1>10. yes \in BOOLEAN
  OBVIOUS
<1> HIDE DEF store, yes
<1>4. /\ v.control = w.control /\ v.mountains = w.mountains /\ v.fires = w.fires
      /\ v.responders = w.responders /\ v.heap = w.heap /\ v.store = store
  BY <1>2, <1>3, <1>10, AttachedIs
<1>5. /\ m = [control |-> w.control, mountains |-> w.mountains, fires |-> m.fires,
              responders |-> m.responders]
      /\ m.fires = [f \in w.fires |-> w.heap.fires[f]]
      /\ m.responders = [r \in w.responders |-> w.heap.responders[r]]
  BY DEF Mission
<1> HIDE DEF m
<1>6. ASSUME NEW i \in w.responders
      PROVE  Match(w.heap.responders[i], m.responders[i]) /\ i # NoResponder
  <2> DEFINE row == w.heap.responders[i]
  <2>1. row \in UnitRow /\ Busy(w, row) /\ i \in 1 .. w.drawn /\ w.drawn \in Nat
    BY <1>3 DEF Objects, Crews, Shaped
  <2>2. m.responders[i] = row
    BY <1>5
  <2> HIDE DEF row
  <2>3. Match(row, row)
    BY <2>1 DEF Match, Busy
  <2> QED BY <2>1, <2>2, <2>3 DEF NoResponder, row
<1>7. /\ DOMAIN m.fires = w.fires /\ DOMAIN m.responders = w.responders
      /\ \A f \in w.fires : m.fires[f] = w.heap.fires[f]
  BY <1>5
<1>8. Agrees(v, NoResponder, {})
  <2> HIDE DEF v
  <2> QED BY <1>2, <1>4, <1>5, <1>6, <1>7 DEF Agrees
<1>9. Sound(v) /\ v.listening = yes
  BY <1>2, <1>8, <1>10, AttachedSound
<1> HIDE DEF v
<1> QED BY <1>1, <1>9 DEF yes

(* To leave it. *)
LEMMA LeaveSound ==
  ASSUME NEW w, Sound(w)
  PROVE  LET v == [w EXCEPT !.store = EmptyStore, !.listening = FALSE]
         IN  Sound(v) /\ v.listening = FALSE
<1> DEFINE v == Attached(w, EmptyStore, FALSE)
<1>1. v = [w EXCEPT !.store = EmptyStore, !.listening = FALSE]
  BY DEF Attached
<1>2. /\ EmptyStore = [state |-> EmptyStore.state, events |-> EmptyStore.events,
                       base |-> EmptyStore.base, timeline |-> EmptyStore.timeline,
                       cursor |-> EmptyStore.cursor]
      /\ EmptyStore.events = << >>
  BY DEF EmptyStore
<1>3. v.listening = FALSE
  BY <1>2, AttachedIs DEF Sound, SoundBut
<1>4. Agrees(v, NoResponder, {})
  BY <1>3 DEF Agrees
<1>5. Sound(v)
  BY <1>2, <1>4, AttachedSound
<1> HIDE DEF v
<1> QED BY <1>1, <1>3, <1>5

(* To replay. *)
LEMMA ReplaySound ==
  ASSUME NEW w, Sound(w), NEW e
  PROVE  LET v == [w EXCEPT !.store = Store(w.heap)!SetReplayCursor(@, e)]
         IN  Sound(v) /\ v.listening = w.listening
<1> DEFINE store == [w.store EXCEPT !.cursor = e]
           u == [w EXCEPT !.store = store]
           v == Attached(w, store, w.listening)
<1>1. u = [w EXCEPT !.store = Store(w.heap)!SetReplayCursor(@, e)]
  BY DEF Store!SetReplayCursor
<1>2. /\ Shaped(w) /\ Agrees(w, NoResponder, {}) /\ w.listening \in BOOLEAN
  BY DEF Sound, SoundBut, Shaped
<1>3. store = [state |-> w.store.state, events |-> w.store.events, base |-> w.store.base,
               timeline |-> w.store.timeline, cursor |-> e]
  BY <1>2 DEF Shaped
<1> HIDE DEF store
<1>4. /\ store.state = w.store.state /\ store.events = w.store.events
      /\ store = [state |-> store.state, events |-> store.events, base |-> store.base,
                  timeline |-> store.timeline, cursor |-> store.cursor]
  BY <1>3
<1>5. u = [exists |-> w.exists, control |-> w.control, mountains |-> w.mountains,
           fires |-> w.fires, responders |-> w.responders, heap |-> w.heap,
           recent |-> w.recent, drawn |-> w.drawn, listening |-> w.listening,
           store |-> store]
  BY <1>2 DEF Shaped
<1>6. v = [u EXCEPT !.listening = w.listening]
  BY DEF Attached
<1> HIDE DEF u
<1>7. v = u
  BY <1>5, <1>6
<1>8. /\ v.control = w.control /\ v.mountains = w.mountains /\ v.fires = w.fires
      /\ v.responders = w.responders /\ v.heap = w.heap /\ v.store = store
      /\ v.listening = w.listening
  BY <1>2, <1>4, AttachedIs
<1>9. Agrees(v, NoResponder, {})
  <2> HIDE DEF v
  <2> QED BY <1>2, <1>4, <1>8 DEF Agrees
<1>10. Sound(v)
  BY <1>2, <1>4, <1>9, AttachedSound
<1> HIDE DEF v
<1> QED BY <1>1, <1>7, <1>8, <1>10

(* What the store shows, and what it is the picture of. *)
LEMMA ShownIs ==
  ASSUME NEW w, SoundBut(w, {}), w.listening
  PROVE  LET m == Resolve(w.heap, w.store.state)
         IN  /\ m = [control |-> w.control, mountains |-> w.mountains,
                     fires |-> [f \in w.fires |-> w.heap.fires[f]],
                     responders |-> m.responders]
             /\ m.responders = [r \in w.responders |-> m.responders[r]]
             /\ \A r \in w.responders : Match(w.heap.responders[r], m.responders[r])
<1> DEFINE s == w.store.state
           fires == [f \in DOMAIN s.fires |-> Row(w.heap.fires, s.fires, f)]
           crews == [r \in DOMAIN s.responders |-> Row(w.heap.responders, s.responders, r)]
           m == Resolve(w.heap, s)
<1>1. /\ Shaped(w) /\ Objects(w) /\ Crews(w, {}) /\ Agrees(w, NoResponder, {})
  BY DEF SoundBut
<1>2. /\ s = [control |-> w.control, mountains |-> w.mountains, fires |-> s.fires,
              responders |-> s.responders]
      /\ DOMAIN s.fires = w.fires
      /\ \A f \in w.fires : s.fires[f] \in {Shared, w.heap.fires[f]}
      /\ DOMAIN s.responders = w.responders
      /\ \A i \in w.responders :
           s.responders[i] = Shared \/ Match(w.heap.responders[i], s.responders[i])
  BY <1>1 DEF Agrees
<1>3. fires = [f \in w.fires |-> w.heap.fires[f]]
  BY <1>2 DEF Row
<1>4. crews = [r \in w.responders |-> crews[r]]
  BY <1>2
<1>5. ASSUME NEW r \in w.responders
      PROVE  Match(w.heap.responders[r], crews[r])
  <2> DEFINE row == w.heap.responders[r]
  <2>1. row \in UnitRow /\ Busy(w, row)
    BY <1>1 DEF Objects, Crews
  <2>2. crews[r] = row \/ Match(row, crews[r])
    BY <1>2 DEF Row
  <2> HIDE DEF row, crews
  <2>3. Match(row, row)
    BY <2>1 DEF Match, Busy
  <2> QED BY <2>2, <2>3 DEF row
<1> DEFINE lit == [s EXCEPT !.fires = fires]
<1>6. m = [lit EXCEPT !.responders = crews]
  BY DEF Resolve
<1> HIDE DEF fires, crews
<1>7. m = [control |-> w.control, mountains |-> w.mountains, fires |-> fires, responders |-> crews]
  <2> HIDE DEF s
  <2>1. lit = [control |-> w.control, mountains |-> w.mountains, fires |-> fires,
               responders |-> s.responders]
    BY <1>2
  <2> HIDE DEF lit
  <2> QED BY <1>6, <2>1
<1> HIDE DEF m
<1>8. m.responders = crews
  BY <1>7
<1>9. /\ m = [control |-> w.control, mountains |-> w.mountains,
              fires |-> [f \in w.fires |-> w.heap.fires[f]], responders |-> m.responders]
      /\ m.responders = [r \in w.responders |-> m.responders[r]]
      /\ \A r \in w.responders : Match(w.heap.responders[r], m.responders[r])
  BY <1>3, <1>4, <1>5, <1>7, <1>8
<1> QED BY <1>9 DEF m
-----------------------------------------------------------------------------
(* 10. The page and the operator *)

LEMMA LeastIs ==
  ASSUME NEW n \in Nat, NEW S \in SUBSET (1 .. n)
  PROVE  /\ Find(S) = 0 <=> S = {}
         /\ S # {} => Find(S) \in S
<1>1. CASE S # {}
  <2>1. S \in SUBSET Nat
    OBVIOUS
  <2>2. \E q \in S : \A p \in S : q <= p
    BY <1>1, <2>1, Flat!Least
  <2>3. Min(S) \in S
    BY <2>2 DEF Min
  <2>4. Find(S) = Min(S)
    BY <1>1 DEF Find
  <2>5. Find(S) \in S
    BY <2>3, <2>4
  <2>6. 0 \notin S
    OBVIOUS
  <2>7. Find(S) # 0
    BY <2>5, <2>6
  <2> QED BY <1>1, <2>5, <2>7
<1>2. CASE S = {}
  BY <1>2 DEF Find
<1> QED BY <1>1, <1>2

(* With no replay the tactical view shows the mission now, and the fire a  *)
(* click finds in a cell is one that burns there.                          *)
LEMMA ClickedIs ==
  ASSUME Inductive, open, ~Locked, NEW cell
  PROVE  /\ Clicked(cell).inGrid <=> cell \in Grid
         /\ Clicked(cell).mountain <=> cell \in world.mountains
         /\ Clicked(cell).fire = 0 <=> BurningAt(world, cell) = {}
         /\ Clicked(cell).fire # 0 => Clicked(cell).fire \in BurningAt(world, cell)
<1> DEFINE w == world
           m == Resolve(w.heap, w.store.state)
<1>1. Sound(w) /\ w.listening
  BY DEF Inductive
<1>2. Display = m
  BY DEF Locked, Display, Store!TacticalState
<1>3. /\ m.fires = [f \in w.fires |-> w.heap.fires[f]] /\ m.mountains = w.mountains
  <2>1. m = [control |-> w.control, mountains |-> w.mountains,
             fires |-> [f \in w.fires |-> w.heap.fires[f]], responders |-> m.responders]
    BY <1>1, ShownIs DEF Sound
  <2> HIDE DEF m, w
  <2> QED BY <2>1
<1>4. FiresAt(m, cell) = BurningAt(w, cell)
  <2> HIDE DEF m, w
  <2> QED BY <1>3 DEF FiresAt, BurningAt, Burning
<1>5. BurningAt(w, cell) \in SUBSET (1 .. w.drawn) /\ w.drawn \in Nat
  BY <1>1 DEF BurningAt, Sound, SoundBut, Objects, Shaped
<1> HIDE DEF m, w
<1>6. Clicked(cell) = Meta(m, cell)
  BY <1>2 DEF Clicked
<1>7. /\ Clicked(cell).inGrid = (cell \in Grid) /\ Clicked(cell).mountain = Raised(m, cell)
      /\ Clicked(cell).fire = Find(FiresAt(m, cell))
  BY <1>6 DEF Meta
<1>8. /\ Find(FiresAt(m, cell)) = 0 <=> BurningAt(w, cell) = {}
      /\ Find(FiresAt(m, cell)) # 0 => Find(FiresAt(m, cell)) \in BurningAt(w, cell)
  BY <1>4, <1>5, LeastIs
<1> QED BY <1>3, <1>7, <1>8 DEF Raised, w

(* A command that keeps the world sound; while a replay is on, none.       *)
LEMMA CommandKeeps ==
  ASSUME Inductive, NEW v, Sound(v), v.listening = world.listening,
         Act(v), open' = open
  PROVE  Inductive'
<1>1. world' = v \/ world' = world
  BY DEF Act, Guarded
<1> QED BY <1>1 DEF Inductive

LEMMA InitKeeps == Init => Inductive
<1> SUFFICES ASSUME Init PROVE Inductive
  OBVIOUS
<1>1. world = NoWorld /\ open = FALSE
  BY DEF Init
<1> DEFINE w == NoWorld
<1>2. /\ w.mountains = {} /\ w.fires = {} /\ w.responders = {} /\ w.control = Spawn
      /\ w.heap = [fires |-> << >>, responders |-> << >>]
      /\ w.recent = << >> /\ w.drawn = 0 /\ w.listening = FALSE /\ w.store = EmptyStore
      /\ EmptyStore.events = << >>
  BY DEF NoWorld, EmptyStore
<1>3. Shaped(w)
  BY DEF NoWorld, Shaped, EmptyStore
<1> HIDE DEF w
<1>4. Messages(w)
  <2>1. w.recent \in Seq({}) /\ w.store.events \in Seq({})
    BY <1>2
  <2> QED BY <2>1 DEF Messages
<1>5. Objects(w)
  <2>1. DOMAIN w.heap.fires = {} /\ DOMAIN w.heap.responders = {}
    BY <1>2
  <2> QED BY <1>2, <2>1 DEF Objects
<1>6. Fires(w) /\ Crews(w, {}) /\ Current(w, w.responders) /\ Agrees(w, NoResponder, {})
  BY <1>2 DEF Fires, Crews, Current, Agrees
<1>7. Sound(w)
  BY <1>3, <1>4, <1>5, <1>6 DEF Sound, SoundBut
<1> QED BY <1>1, <1>2, <1>7 DEF Inductive, w

LEMMA LaunchKeeps ==
  ASSUME Inductive, NEW demo \in BOOLEAN, Launch(demo)
  PROVE  Inductive'
<1>1. Sound(CreateMission) /\ ~CreateMission.listening /\ CreateMission.fires = {}
  BY CreateMissionSound
<1>2. Sound(Seeded(CreateMission)) /\ Seeded(CreateMission).listening = CreateMission.listening
  BY <1>1, SeededSound
<1>3. world' = Seeded(CreateMission) \/ world' = CreateMission
  BY DEF Launch
<1>4. ~open' /\ ~world.listening /\ world.listening \in BOOLEAN
  BY DEF Launch, Inductive, Sound, SoundBut, Shaped
<1>5. Sound(world') /\ ~world'.listening /\ world'.listening \in BOOLEAN
  BY <1>1, <1>2, <1>3 DEF Sound, SoundBut, Shaped
<1>6. open' = world'.listening
  BY <1>4, <1>5 DEF Launch, Inductive
<1> QED BY <1>5, <1>6 DEF Inductive

LEMMA OpenKeeps ==
  ASSUME Inductive, Open
  PROVE  Inductive'
<1> DEFINE w == IF world.exists THEN world ELSE CreateMission
           v == [w EXCEPT !.store = Store(w.heap)!SetSnapshot(@, Mission(w), w.recent),
                          !.listening = TRUE]
<1>1. Sound(w)
  BY CreateMissionSound DEF Inductive
<1>2. world' = v /\ open' = TRUE
  BY DEF Open
<1> HIDE DEF w
<1>3. Sound(v) /\ v.listening = TRUE
  BY <1>1, OpenSound
<1> HIDE DEF v
<1> QED BY <1>2, <1>3 DEF Inductive

LEMMA LeaveKeeps ==
  ASSUME Inductive, Leave
  PROVE  Inductive'
<1> DEFINE v == [world EXCEPT !.store = EmptyStore, !.listening = FALSE]
<1>1. Sound(v) /\ v.listening = FALSE
  BY LeaveSound DEF Inductive
<1>2. world' = v /\ open' = FALSE
  BY DEF Leave
<1> HIDE DEF v
<1> QED BY <1>1, <1>2 DEF Inductive

LEMMA ReplayKeeps ==
  ASSUME Inductive, NEW e, Replay(e)
  PROVE  Inductive'
<1> DEFINE v == [world EXCEPT !.store = Store(world.heap)!SetReplayCursor(@, e)]
<1>1. Sound(v) /\ v.listening = world.listening
  BY ReplaySound DEF Inductive
<1>2. world' = v /\ open' = open
  BY DEF Replay
<1> HIDE DEF v
<1> QED BY <1>1, <1>2 DEF Inductive

LEMMA TimerTicksKeeps ==
  ASSUME Inductive, TimerTicks
  PROVE  Inductive'
<1>1. Sound(Tick(world)) /\ Same(world, Tick(world))
  BY TickSound DEF Inductive, Sound
<1>2. world' = Tick(world) /\ open' = open
  BY DEF TimerTicks
<1> QED BY <1>1, <1>2 DEF Inductive, Same

(* A mountain is raised where the grid shows no fire, and only while it    *)
(* shows the mission now.                                                  *)
LEMMA ClickMountainKeeps ==
  ASSUME Inductive, NEW cell \in MountainCells, ClickMountain(cell)
  PROVE  Inductive'
<1>1. open' = open /\ Act(PlaceMountain(world, cell)) /\ open /\ Clicked(cell).fire = 0
  BY DEF ClickMountain, Command
<1>2. CASE Locked
  <2>1. world' = world
    BY <1>1, <1>2 DEF Act, Guarded
  <2> QED BY <1>1, <2>1 DEF Inductive
<1>3. CASE ~Locked
  <2>1. BurningAt(world, cell) = {}
    BY <1>1, <1>3, ClickedIs
  <2>2. /\ Sound(PlaceMountain(world, cell))
        /\ PlaceMountain(world, cell).listening = world.listening
    BY <2>1, PlaceMountainSound DEF Inductive
  <2> QED BY <1>1, <2>2, CommandKeeps
<1> QED BY <1>2, <1>3

LEMMA NextKeeps == Inductive /\ [Next]_vars => Inductive'
<1> SUFFICES ASSUME Inductive, [Next]_vars
             PROVE  Inductive'
  OBVIOUS
<1>0. Sound(world)
  BY DEF Inductive
<1>1. ASSUME NEW cell, ClickFire(cell)
      PROVE  Inductive'
  BY <1>0, <1>1, PlaceFireSound, CommandKeeps DEF ClickFire, Command
<1>2. ASSUME NEW cell, ClickRemoveMountain(cell)
      PROVE  Inductive'
  BY <1>0, <1>2, RemoveMountainSound, CommandKeeps DEF ClickRemoveMountain, Command
<1>3. ASSUME NEW cell, ClickResponder(cell)
      PROVE  Inductive'
  BY <1>0, <1>3, CreateResponderSound, CommandKeeps DEF ClickResponder, Command
<1>4. ASSUME NEW cell, ClickMissionControl(cell)
      PROVE  Inductive'
  BY <1>0, <1>4, MoveMissionControlSound, CommandKeeps DEF ClickMissionControl, Command
<1>5. ASSUME NEW cell, ClickDispatch(cell)
      PROVE  Inductive'
  BY <1>0, <1>5, DispatchSound, CommandKeeps DEF ClickDispatch, Command
<1>6. ASSUME NEW f, Go(f)
      PROVE  Inductive'
  BY <1>0, <1>6, DispatchSound, CommandKeeps DEF Go, Command
<1>7. CASE ConfirmReset
  BY <1>0, <1>7, ResetMissionSound, CommandKeeps DEF ConfirmReset
<1>8. ASSUME UNCHANGED <<world, open>>
      PROVE  Inductive'
  BY <1>8 DEF Inductive
<1>9. CASE ArmReset \/ ConfirmExpires \/ UNCHANGED vars
  BY <1>8, <1>9 DEF ArmReset, ConfirmExpires, vars
<1>10. ASSUME NEW cell, ClickSelect(cell)
       PROVE  Inductive'
  BY <1>8, <1>10 DEF ClickSelect
<1>11. ASSUME NEW r, ToggleRow(r)
       PROVE  Inductive'
  BY <1>8, <1>11 DEF ToggleRow
<1>12. CASE \E demo \in BOOLEAN : Launch(demo)
  BY <1>12, LaunchKeeps
<1>13. CASE Open \/ Leave \/ TimerTicks
  BY <1>13, OpenKeeps, LeaveKeeps, TimerTicksKeeps
<1>14. CASE (\E i \in DOMAIN world.store.events : Replay(world.store.events[i])) \/ Replay(NoEvent)
  BY <1>14, ReplayKeeps
<1>15. CASE \E cell \in MountainCells : ClickMountain(cell)
  BY <1>15, ClickMountainKeeps
<1> QED BY <1>1, <1>2, <1>3, <1>4, <1>5, <1>6, <1>7, <1>9, <1>10, <1>11, <1>12, <1>13,
           <1>14, <1>15, Zenon DEF Next

LEMMA InductiveHolds == Spec => []Inductive
BY InitKeeps, NextKeeps, PTL DEF Spec
-----------------------------------------------------------------------------
(* 11. What follows *)

LEMMA Beheld ==
  ASSUME Inductive, open
  PROVE  /\ Live = [control |-> world.control, mountains |-> world.mountains,
                    fires |-> Live.fires, responders |-> Live.responders]
         /\ Live.fires = [f \in world.fires |-> world.heap.fires[f]]
         /\ DOMAIN Live.responders = world.responders
         /\ Live.responders = [r \in world.responders |-> Live.responders[r]]
         /\ \A r \in world.responders : Match(world.heap.responders[r], Live.responders[r])
<1> DEFINE m == Live
<1>1. SoundBut(world, {}) /\ world.listening
  BY DEF Inductive, Sound
<1>2. m = Resolve(world.heap, world.store.state)
  BY DEF Live
<1> HIDE DEF m
<1>3. /\ m = [control |-> world.control, mountains |-> world.mountains,
              fires |-> [f \in world.fires |-> world.heap.fires[f]],
              responders |-> m.responders]
      /\ m.responders = [r \in world.responders |-> m.responders[r]]
      /\ \A r \in world.responders : Match(world.heap.responders[r], m.responders[r])
  BY <1>1, <1>2, ShownIs
<1>4. m.fires = [f \in world.fires |-> world.heap.fires[f]]
  BY <1>3
<1> QED BY <1>3, <1>4 DEF m

LEMMA SoundWorld ==
  ASSUME Inductive
  PROVE  /\ Objects(world) /\ Fires(world) /\ Crews(world, {}) /\ Current(world, world.responders)
         /\ world.drawn \in Nat
BY DEF Inductive, Sound, SoundBut, Shaped

LEMMA InductiveWorld == Inductive => MockWorldSound
<1> SUFFICES ASSUME Inductive
             PROVE  FiresStandClear /\ FightersAtWork /\ SignalsAreCurrent
  BY DEF MockWorldSound
<1>1. FiresStandClear
  BY SoundWorld DEF FiresStandClear, Objects, Fires, FireRow
<1>2. FightersAtWork
  BY SoundWorld DEF FightersAtWork, Crews, Busy, Engaged
<1>3. SignalsAreCurrent
  BY SoundWorld DEF SignalsAreCurrent, Current
<1> QED BY <1>1, <1>2, <1>3

LEMMA InductiveStore == Inductive => StoreAgreesWithMock
<1> SUFFICES ASSUME Inductive, open
             PROVE  /\ [Live EXCEPT !.responders = << >>] = [Mission(world) EXCEPT !.responders = << >>]
                    /\ DOMAIN Live.responders = world.responders
                    /\ \A r \in world.responders :
                         LET row == world.heap.responders[r]
                             shown == Live.responders[r]
                         IN  row = IF row.path = NoPath
                                   THEN [shown EXCEPT !.assigned_fire = NoFire, !.path = NoPath]
                                   ELSE shown
  BY DEF StoreAgreesWithMock
<1> DEFINE m == Live
           n == Mission(world)
           none == << >>
<1>1. /\ m = [control |-> world.control, mountains |-> world.mountains,
              fires |-> m.fires, responders |-> m.responders]
      /\ m.fires = [f \in world.fires |-> world.heap.fires[f]]
      /\ DOMAIN m.responders = world.responders
      /\ \A r \in world.responders : Match(world.heap.responders[r], m.responders[r])
  BY Beheld
<1>2. n = [control |-> world.control, mountains |-> world.mountains,
           fires |-> [f \in world.fires |-> world.heap.fires[f]], responders |-> n.responders]
  BY DEF Mission
<1> HIDE DEF m, n, none
<1>3. [m EXCEPT !.responders = none]
        = [control |-> world.control, mountains |-> world.mountains,
           fires |-> m.fires, responders |-> none]
  BY <1>1
<1>4. [n EXCEPT !.responders = none]
        = [control |-> world.control, mountains |-> world.mountains,
           fires |-> [f \in world.fires |-> world.heap.fires[f]], responders |-> none]
  BY <1>2
<1>5. [m EXCEPT !.responders = none] = [n EXCEPT !.responders = none]
  BY <1>1, <1>3, <1>4
<1>6. ASSUME NEW r \in world.responders
      PROVE  LET row == world.heap.responders[r]
                 shown == m.responders[r]
             IN  row = IF row.path = NoPath
                       THEN [shown EXCEPT !.assigned_fire = NoFire, !.path = NoPath]
                       ELSE shown
  <2> DEFINE row == world.heap.responders[r]
             shown == m.responders[r]
             free == [shown EXCEPT !.assigned_fire = NoFire]
             bare == [free EXCEPT !.path = NoPath]
  <2>1. row \in UnitRow /\ Match(row, shown)
    BY <1>1, SoundWorld DEF Objects
  <2> HIDE DEF row, shown
  <2>2. /\ shown = [at |-> shown.at, last_known |-> shown.last_known, status |-> shown.status,
                    signal_status |-> shown.signal_status, assigned_fire |-> shown.assigned_fire,
                    path |-> shown.path, path_index |-> shown.path_index]
        /\ row = [at |-> row.at, last_known |-> row.last_known, status |-> row.status,
                  signal_status |-> row.signal_status, assigned_fire |-> row.assigned_fire,
                  path |-> row.path, path_index |-> row.path_index]
    BY <2>1 DEF Match, UnitRow
  <2>3. row.path # NoPath => row = shown
    BY <2>1, <2>2 DEF Match
  <2>4. free = [at |-> shown.at, last_known |-> shown.last_known, status |-> shown.status,
                signal_status |-> shown.signal_status, assigned_fire |-> NoFire,
                path |-> shown.path, path_index |-> shown.path_index]
    BY <2>2
  <2> HIDE DEF free
  <2>5. bare = [at |-> shown.at, last_known |-> shown.last_known, status |-> shown.status,
                signal_status |-> shown.signal_status, assigned_fire |-> NoFire,
                path |-> NoPath, path_index |-> shown.path_index]
    BY <2>4
  <2> HIDE DEF bare
  <2>6. row.path = NoPath => row = bare
    BY <2>1, <2>2, <2>5 DEF Match
  <2> QED BY <2>3, <2>6 DEF row, shown, bare, free
<1> QED BY <1>1, <1>5, <1>6 DEF m, n, none

LEMMA MaxWithZero ==
  ASSUME NEW i \in Int
  PROVE  Max({0, i}) = IF i > 0 THEN i ELSE 0
<1>1. \E x \in {0, i} : \A y \in {0, i} : x >= y
  BY SMT
<1>2. Max({0, i}) \in {0, i} /\ \A y \in {0, i} : Max({0, i}) >= y
  BY <1>1 DEF Max
<1> HIDE DEF Max
<1> QED BY <1>2

LEMMA RingShows ==
  ASSUME NEW i \in Nat
  PROVE  Max({0, Min({100, i})}) > 0 <=> i > 0
<1>1. \E x \in {100, i} : \A y \in {100, i} : x =< y
  BY SMT
<1>2. Min({100, i}) \in {100, i} /\ \A y \in {100, i} : Min({100, i}) =< y
  BY <1>1 DEF Min
<1>3. Min({100, i}) \in Int /\ (Min({100, i}) > 0 <=> i > 0)
  BY <1>2
<1> QED BY <1>3, MaxWithZero

LEMMA InductiveRoutes ==
  ASSUME Inductive, open
  PROVE  RoutesTrue
<1> SUFFICES ASSUME NEW r \in DOMAIN Live.responders, HasRoute(Live.responders[r])
             PROVE  LET row == Live.responders[r]
                        route == Remaining(row)
                        fire == world.heap.fires[row.assigned_fire]
                    IN  /\ Head(route) = world.heap.responders[r].at
                        /\ Last(route) = fire.at /\ Burning(fire)
  BY DEF RoutesTrue
<1> DEFINE row == Live.responders[r]
           own == world.heap.responders[r]
           route == Remaining(row)
<1>1. /\ own \in UnitRow /\ Busy(world, own) /\ Match(own, row)
  BY Beheld, SoundWorld DEF Objects, Crews
<1>2. HasRoute(row)
  OBVIOUS
<1> HIDE DEF row, own
<1>3. /\ Engaged(world, own) /\ OnRoute(world, own)
  BY <1>1, <1>2 DEF HasRoute, Match, Busy
<1>4. /\ row.path = own.path /\ row.assigned_fire = own.assigned_fire
      /\ row.path_index = own.path_index /\ own.path_index \in Nat
      /\ own.path \in Seq(Grid) /\ own.path_index < Len(own.path)
  BY <1>1, <1>3 DEF OnRoute, Match, UnitRow
<1>5. route = SubSeq(own.path, own.path_index + 1, Len(own.path))
  <2>1. row.path_index \in Int /\ ~(row.path_index < 0)
    BY <1>4
  <2>2. Max({0, row.path_index}) = row.path_index
    BY <2>1, MaxWithZero
  <2> QED BY <1>4, <2>2 DEF Remaining
<1> DEFINE path == own.path
           i == own.path_index
<1>6. path \in Seq(Grid) /\ i \in Nat /\ i < Len(path) /\ Len(path) \in Nat
  BY <1>4
<1> HIDE DEF path, i
<1>7. /\ Head(SubSeq(path, i + 1, Len(path))) = path[i + 1]
      /\ Last(SubSeq(path, i + 1, Len(path))) = path[Len(path)]
  <2> DEFINE s == SubSeq(path, i + 1, Len(path))
  <2>1. s \in Seq(Grid) /\ Len(s) = Len(path) - i /\ s[1] = path[i + 1] /\ s[Len(path) - i] = path[Len(path)]
    <3>1. /\ i + 1 \in 1 .. Len(path) + 1 /\ Len(path) \in i + 1 - 1 .. Len(path)
          /\ 1 \in 1 .. Len(path) - (i + 1) + 1 /\ Len(path) - i \in 1 .. Len(path) - (i + 1) + 1
          /\ (i + 1) + 1 - 1 = i + 1 /\ (i + 1) + (Len(path) - i) - 1 = Len(path)
          /\ Len(path) - (i + 1) + 1 = Len(path) - i /\ i + 1 <= Len(path)
      BY <1>6
    <3>2. /\ s \in Seq(Grid)
          /\ Len(s) = IF i + 1 <= Len(path) THEN Len(path) - (i + 1) + 1 ELSE 0
          /\ \A j \in 1 .. Len(path) - (i + 1) + 1 : s[j] = path[(i + 1) + j - 1]
      BY <1>6, <3>1, SubSeqProperties
    <3> HIDE DEF s
    <3>3. Len(s) = Len(path) - i
      BY <3>1, <3>2
    <3>4. s[1] = path[i + 1]
      BY <3>1, <3>2
    <3>5. s[Len(path) - i] = path[Len(path)]
      BY <3>1, <3>2
    <3> QED BY <3>2, <3>3, <3>4, <3>5
  <2> HIDE DEF s
  <2>2. Len(s) > 0
    BY <1>6, <2>1
  <2>3. Head(s) = s[1] /\ Last(s) = s[Len(s)]
    BY <2>1, <2>2 DEF Last
  <2> QED BY <2>1, <2>3 DEF s
<1> QED BY <1>3, <1>4, <1>5, <1>7 DEF OnRoute, Engaged, Burning, path, i, row, own

LEMMA InductiveRays ==
  ASSUME Inductive, open
  PROVE  RaysTrue /\ PicksTrue
<1>1. ASSUME NEW r \in DOMAIN Live.responders
      PROVE  LET row == Live.responders[r]
             IN  ~Blocked(row) => /\ Sees(Live.control, row.at, Live.mountains)
                                  /\ row.last_known = row.at
  <2> DEFINE row == Live.responders[r]
             own == world.heap.responders[r]
  <2>1. Live.control = world.control /\ Live.mountains = world.mountains
    BY Beheld
  <2>2. /\ own \in UnitRow /\ Busy(world, own) /\ Match(own, row)
        /\ own.signal_status = IF Sees(world.control, own.at, world.mountains)
                               THEN "connected" ELSE "blocked"
    BY Beheld, SoundWorld DEF Objects, Crews, Current
  <2> HIDE DEF row, own
  <2>3. /\ own.at = row.at /\ own.last_known = row.last_known
        /\ own.signal_status = row.signal_status
    BY <2>2 DEF Match
  <2> SUFFICES ASSUME ~Blocked(row)
               PROVE  Sees(world.control, row.at, world.mountains) /\ row.last_known = row.at
    BY <2>1 DEF row
  <2>4. own.signal_status = "connected" /\ Sees(world.control, own.at, world.mountains)
    BY <2>2, <2>3 DEF Blocked
  <2> QED BY <2>2, <2>3, <2>4 DEF Busy
<1>2. RaysTrue
  BY <1>1 DEF RaysTrue, RayTarget
<1>3. PicksTrue
  BY <1>1 DEF PicksTrue, RespondersAt, Markers, RayTarget
<1> QED BY <1>2, <1>3

LEMMA InductivePreviews ==
  ASSUME Inductive, open
  PROVE  PreviewsTrue
<1>1. Sound(world)
  BY DEF Inductive
<1>2. ASSUME NEW cell, ~Locked
      PROVE  /\ Clicked(cell).inGrid <=> cell \in Grid
             /\ Clicked(cell).mountain <=> cell \in world.mountains
             /\ Clicked(cell).fire = 0 <=> BurningAt(world, cell) = {}
             /\ Clicked(cell).fire # 0 => Clicked(cell).fire \in BurningAt(world, cell)
  BY <1>2, ClickedIs
<1>3. ASSUME NEW cell, PreviewValid("fire", cell), Clicked(cell).fire = 0
      PROVE  PlaceFire(world, cell) # world
  <2>1. cell \in Grid \ world.mountains /\ BurningAt(world, cell) = {}
    BY <1>2, <1>3 DEF PreviewValid, Valid
  <2> QED BY <1>1, <2>1, PlaceFireSound
<1>4. ASSUME NEW cell \in MountainCells, PreviewValid("mountain", cell)
      PROVE  PlaceMountain(world, cell) # world
  <2>1. cell \in Grid \ world.mountains /\ BurningAt(world, cell) = {}
    BY <1>2, <1>4 DEF PreviewValid, Valid
  <2> QED BY <1>1, <2>1, PlaceMountainSound
<1>5. ASSUME NEW cell, PreviewValid("remove_mountain", cell)
      PROVE  RemoveMountain(world, cell) # world
  <2>1. cell \in world.mountains
    BY <1>2, <1>5 DEF PreviewValid, Valid
  <2> QED BY <1>1, <2>1, RemoveMountainSound
<1>6. ASSUME NEW cell, PreviewValid("responder", cell)
      PROVE  CreateResponder(world, cell) # world
  <2>1. cell \in Grid
    BY <1>2, <1>6 DEF PreviewValid, Valid
  <2> QED BY <1>1, <2>1, CreateResponderSound
<1>7. ASSUME NEW cell, PreviewValid("dispatch", cell), Clicked(cell).responder = 0,
             selected \in world.responders
      PROVE  DispatchResponder(world, selected, Clicked(cell).fire) # world
  <2>1. Clicked(cell).fire \in BurningAt(world, cell)
    BY <1>2, <1>7 DEF PreviewValid, Valid
  <2> QED BY <1>1, <1>7, <2>1, DispatchTells DEF BurningAt
<1> QED BY <1>3, <1>4, <1>5, <1>6, <1>7 DEF PreviewsTrue

LEMMA InductiveRates ==
  ASSUME Inductive, open
  PROVE  RatesTrue
<1> SUFFICES ASSUME NEW f \in DOMAIN Live.fires, Burning(Live.fires[f])
             PROVE  ApplyFire(world, f).heap.fires[f].intensity
                      = Max({0, Live.fires[f].intensity - RateShown(Live, f)})
  BY DEF RatesTrue
<1> DEFINE m == Live
           fire == world.heap.fires[f]
           water == Crew(world, fire.at) * ExtinguishRate
<1>1. /\ m.fires = [g \in world.fires |-> world.heap.fires[g]]
      /\ DOMAIN m.responders = world.responders
      /\ \A r \in world.responders : Match(world.heap.responders[r], m.responders[r])
  BY Beheld
<1>2. f \in DOMAIN m.fires /\ Burning(m.fires[f])
  OBVIOUS
<1> HIDE DEF m
<1>3. f \in world.fires /\ m.fires[f] = fire /\ Burning(fire)
  BY <1>1, <1>2
<1>4. fire \in FireRow
  BY <1>3, SoundWorld DEF Objects
<1>5. fire.status = "active" /\ fire.intensity \in Nat
  BY <1>3, <1>4 DEF FireRow, Burning
<1>6. SoundBut(world, {})
  BY DEF Inductive, Sound
<1>7. /\ water \in Nat
      /\ ApplyFire(world, f).heap.fires[f].intensity
           = IF fire.intensity > water THEN fire.intensity - water ELSE 0
  BY <1>3, <1>5, <1>6, ApplyFireSound
<1>8. {r \in DOMAIN m.responders : /\ m.responders[r].at = m.fires[f].at
                                   /\ m.responders[r].status = "fighting_fire"}
        = {r \in world.responders : /\ world.heap.responders[r].at = fire.at
                                    /\ world.heap.responders[r].status = "fighting_fire"}
  <2> HIDE DEF fire
  <2> QED BY <1>1, <1>3 DEF Match
<1>9. CrewShown(m, f) = Crew(world, fire.at)
  BY <1>8 DEF CrewShown, Crew, Quantify
<1>10. RateShown(m, f) = water
  BY <1>3, <1>9 DEF RateShown, ExtinguishRate
<1> HIDE DEF fire, water
<1>11. Max({0, fire.intensity - water})
         = IF fire.intensity > water THEN fire.intensity - water ELSE 0
  <2>1. fire.intensity - water \in Int
    BY <1>5, <1>7
  <2> QED BY <1>5, <1>7, <2>1, MaxWithZero
<1> QED BY <1>3, <1>7, <1>10, <1>11 DEF m

LEMMA InductiveFigures ==
  ASSUME Inductive, open
  PROVE  FiguresTrue
<1> DEFINE m == Live
<1>1. /\ m.fires = [g \in world.fires |-> world.heap.fires[g]]
      /\ DOMAIN m.responders = world.responders
      /\ \A r \in world.responders : Match(world.heap.responders[r], m.responders[r])
  BY Beheld
<1> HIDE DEF m
<1>2. {r \in DOMAIN m.responders : Blocked(m.responders[r])}
        = {r \in world.responders :
             ~Sees(world.control, world.heap.responders[r].at, world.mountains)}
  <2>1. ASSUME NEW r \in world.responders
        PROVE  Blocked(m.responders[r])
                 <=> ~Sees(world.control, world.heap.responders[r].at, world.mountains)
    <3>1. world.heap.responders[r].signal_status = m.responders[r].signal_status
      BY <1>1 DEF Match
    <3>2. world.heap.responders[r].signal_status
            = IF Sees(world.control, world.heap.responders[r].at, world.mountains)
              THEN "connected" ELSE "blocked"
      BY SoundWorld DEF Current
    <3> QED BY <3>1, <3>2 DEF Blocked
  <2> QED BY <1>1, <2>1
<1>3. {f \in DOMAIN m.fires : Burning(m.fires[f])} = {f \in DOMAIN m.fires : FireMark(m.fires[f]) > 0}
  <2>1. ASSUME NEW f \in DOMAIN m.fires
        PROVE  Burning(m.fires[f]) <=> FireMark(m.fires[f]) > 0
    <3> DEFINE fire == m.fires[f]
    <3>1. fire \in FireRow /\ (fire.status = "active" => fire.intensity > 0)
      BY <1>1, SoundWorld DEF Objects, Fires
    <3> HIDE DEF fire
    <3>2. fire.intensity \in Nat /\ (Burning(fire) => fire.intensity > 0)
      BY <3>1 DEF FireRow, Burning
    <3> QED BY <3>2, RingShows DEF FireMark, fire
  <2> QED BY <2>1
<1>4. Stats(m).noSignal = Quantify(DOMAIN m.responders, LAMBDA r : Blocked(m.responders[r]))
  BY DEF Stats
<1>5. Stats(m).fires = Quantify(DOMAIN m.fires, LAMBDA f : Burning(m.fires[f]))
  BY DEF Stats
<1>6. Stats(m).noSignal = Quantify(world.responders, LAMBDA r :
        ~Sees(world.control, world.heap.responders[r].at, world.mountains))
  BY <1>2, <1>4 DEF Quantify
<1>7. Stats(m).fires = Quantify(DOMAIN m.fires, LAMBDA f : FireMark(m.fires[f]) > 0)
  BY <1>3, <1>5 DEF Quantify
<1> QED BY <1>6, <1>7 DEF FiguresTrue, m

LEMMA InductiveGrid == Inductive => GridTellsTruth
BY InductiveRoutes, InductiveRays, InductivePreviews, InductiveRates, InductiveFigures
   DEF GridTellsTruth
-----------------------------------------------------------------------------
(* By events alone the store of the page agrees with the mock after every  *)
(* command and every tick: a reduction of each event gives what the        *)
(* command assigned (mockBackend.ts, missionStore.ts).                     *)
THEOREM StoreHolds == Spec => []StoreAgreesWithMock
BY InductiveHolds, InductiveStore, PTL

(* No mountain stands on a fire that burns, a crew fights only where a     *)
(* fire burns and a signal is never out of date in the mock.               *)
THEOREM WorldHolds == Spec => []MockWorldSound
BY InductiveHolds, InductiveWorld, PTL

(* What the grid and its panels show of the mock's mission is so.          *)
THEOREM GridHolds == Spec => []GridTellsTruth
BY InductiveHolds, InductiveGrid, PTL
=============================================================================
