-------------------------- MODULE ProjectionProofs --------------------------
(***************************************************************************)
(* Proofs about Simulation and the Projection that follows it, for any     *)
(* grid, any sight, any routes and any numbers of fires, responders,       *)
(* commands and failures.                                                  *)
(*                                                                         *)
(* Of the simulation: the types of the world, and what mission control     *)
(* knows of its responders.  Each command and each part of the tick keeps  *)
(* a sound world sound (section 2), hence so does each step of the worker  *)
(* (3), which gives the properties (4); the last known cell of a blackout  *)
(* is frozen (5) and no event of a step tells a dark position (6).         *)
(*                                                                         *)
(* Of the projection: which events can stop the projector, and that the    *)
(* read model is the world but for what is on its way.  The invariant (10) *)
(* is about the set of events three tasks have still to append: what the   *)
(* tables have wrong one of them puts right, whichever comes first (8).    *)
(* Section 9 says that what a step tells is true; 11 to 13 do the uploads, *)
(* the tick and the commands; in 14 an event is appended.                  *)
(***************************************************************************)
EXTENDS Projection, FiniteSetTheorems, TLAPS

Concatenated(s, t) == s \o t
Flat == INSTANCE FoldTheorems WITH Step <- Concatenated

USE PlacesAssumption, IntensityAssumption, CountsAssumption

(* 1. What is kept.  A responder, by itself and in a mission with fires:   *)
(* its signal, if connected, its backlog, if not, and its path end where   *)
(* its fire is.                                                            *)
UnitSound(u) ==
  /\ u \in UnitType
  /\ u.path # NoPath => u.path_index < Len(u.path)
  /\ u.signal_status = "connected" => u.last_known = u.at
  /\ u.signal_status = "blocked" /\ u.at # u.last_known =>
       u.local_log # << >> /\ u.local_log[Len(u.local_log)] = u.at

Bound(u, fires) ==
  /\ u.status # "idle" => u.assigned_fire \in Ids(fires)
  /\ u.status = "moving" =>
       u.path # NoPath /\ u.path[Len(u.path)] = fires[u.assigned_fire].at
  /\ u.status = "fighting_fire" => u.at = fires[u.assigned_fire].at

Hidden(u, m) == u.signal_status = "blocked" => ~Sees(m.control, u.at, m.mountains)

(* A mission but for its signal statuses, which a command may have made    *)
(* stale before they are recomputed.                                       *)
NearlySound(m, ids) ==
  /\ IsMission(m, ids)
  /\ \A r \in Ids(m.responders) : UnitSound(m.responders[r]) /\ Bound(m.responders[r], m.fires)

Sound(m, ids) ==
  NearlySound(m, ids) /\ \A r \in Ids(m.responders) : Hidden(m.responders[r], m)

DrawnType == [fires : Nat, responders : Nat]
-----------------------------------------------------------------------------
(* 2. The pure functions. *)
LEMMA RecomputeSound ==
  ASSUME NEW m, NEW ids \in DrawnType, NearlySound(m, ids)
  PROVE  Sound(RecomputeAllSignals(m).mission, ids)
<1> DEFINE n == RecomputeAllSignals(m).mission
           u(r) == m.responders[r]
           v(r) == Resignal(m, u(r))
<1>1. n = [m EXCEPT !.responders = [r \in Ids(m.responders) |-> v(r)]]
  BY DEF RecomputeAllSignals, Outcome
<1>2. /\ n.control = m.control /\ n.mountains = m.mountains /\ n.fires = m.fires
      /\ n.responders = [r \in Ids(m.responders) |-> v(r)]
      /\ n = [control |-> n.control, mountains |-> n.mountains,
              fires |-> n.fires, responders |-> n.responders]
  BY <1>1 DEF NearlySound, IsMission
<1>3. ASSUME NEW r \in Ids(m.responders)
      PROVE  UnitSound(v(r)) /\ Bound(v(r), m.fires) /\ Hidden(v(r), m)
  <2>1. UnitSound(u(r)) /\ Bound(u(r), m.fires)
    BY <1>3 DEF NearlySound
  <2>2. Signal(m, u(r).at) \in {"connected", "blocked"}
    BY DEF Signal
  <2>3. Signal(m, u(r).at) = "blocked" => ~Sees(m.control, u(r).at, m.mountains)
    BY DEF Signal
  <2>4. /\ v(r).at = u(r).at /\ v(r).status = u(r).status
        /\ v(r).assigned_fire = u(r).assigned_fire /\ v(r).path = u(r).path
        /\ v(r).path_index = u(r).path_index /\ v(r).local_log = u(r).local_log
        /\ v(r).signal_status = Signal(m, u(r).at)
        /\ v(r).last_known =
             IF u(r).signal_status = "blocked" /\ Signal(m, u(r).at) = "connected"
             THEN u(r).at ELSE u(r).last_known
        /\ v(r) \in UnitType
    BY <2>1, <2>2 DEF Resignal, UnitSound, UnitType
  <2>5. UnitSound(v(r))
    BY <2>1, <2>2, <2>4 DEF UnitSound, UnitType
  <2>6. Bound(v(r), m.fires)
    BY <2>1, <2>4 DEF Bound
  <2>7. Hidden(v(r), m)
    BY <2>3, <2>4 DEF Hidden
  <2> QED BY <2>5, <2>6, <2>7
<1>4. IsMission(n, ids)
  BY <1>2, <1>3 DEF NearlySound, IsMission, IsDict, Ids, UnitSound
<1>5. \A r \in Ids(n.responders) : UnitSound(n.responders[r]) /\ Bound(n.responders[r], n.fires)
                                   /\ Hidden(n.responders[r], n)
  BY <1>2, <1>3 DEF Ids, Hidden
<1> QED BY <1>4, <1>5 DEF Sound, NearlySound

LEMMA ThenRecomputeSound ==
  ASSUME NEW m, NEW ids \in DrawnType, NEW event, NearlySound(m, ids)
  PROVE  Sound(ThenRecompute(m, event).mission, ids)
<1>1. ThenRecompute(m, event).mission = RecomputeAllSignals(m).mission
  BY DEF ThenRecompute, Outcome
<1> QED BY <1>1, RecomputeSound

(* Commands that change the terrain or mission control's cell. *)
LEMMA MountainsSound ==
  ASSUME NEW m, NEW ids \in DrawnType, Sound(m, ids), NEW mountains \in SUBSET Cell
  PROVE  NearlySound([m EXCEPT !.mountains = mountains], ids)
BY DEF Sound, NearlySound, IsMission, IsDict, Ids

LEMMA TerrainSound ==
  ASSUME NEW m, NEW ids \in DrawnType, Sound(m, ids), NEW cell \in Cell
  PROVE  /\ Sound(PlaceMountain(m, cell).mission, ids)
         /\ Sound(RemoveMountain(m, cell).mission, ids)
         /\ Sound(MoveMissionControl(m, cell).mission, ids)
<1>0. m.mountains \union {cell} \in SUBSET Cell /\ m.mountains \ {cell} \in SUBSET Cell
  BY DEF Sound, NearlySound, IsMission
<1>1. NearlySound([m EXCEPT !.mountains = @ \union {cell}], ids)
  BY <1>0, MountainsSound
<1>2. NearlySound([m EXCEPT !.mountains = @ \ {cell}], ids)
  BY <1>0, MountainsSound
<1>3. NearlySound([m EXCEPT !.control = cell], ids)
  BY DEF Sound, NearlySound, IsMission, IsDict, Ids
<1> QED BY <1>1, <1>2, <1>3, ThenRecomputeSound
           DEF PlaceMountain, RemoveMountain, MoveMissionControl

LEMMA NewMissionSound ==
  ASSUME NEW ids \in DrawnType
  PROVE  Sound(NewMission, ids)
BY DEF Sound, NearlySound, IsMission, IsDict, Ids, NewMission, EmptyDict

(* Ids are drawn in order, so the new entry replaces none. *)
LEMMA PlaceFireSound ==
  ASSUME NEW m, NEW ids \in DrawnType, Sound(m, ids),
         NEW cell \in Cell, NEW intensity \in Nat
  PROVE  Sound(PlaceFire(m, ids.fires + 1, cell, intensity).mission,
               [ids EXCEPT !.fires = @ + 1])
<1> DEFINE f == ids.fires + 1
           fires == Put(m.fires, f, NewFire(cell, intensity))
           n == PlaceFire(m, f, cell, intensity).mission
           more == [ids EXCEPT !.fires = @ + 1]
<1>1. n = [m EXCEPT !.fires = fires]
  BY DEF PlaceFire, Outcome
<1>2. /\ n.control = m.control /\ n.mountains = m.mountains
      /\ n.responders = m.responders /\ n.fires = fires
      /\ n = [control |-> n.control, mountains |-> n.mountains,
              fires |-> n.fires, responders |-> n.responders]
  BY <1>1 DEF Sound, NearlySound, IsMission
<1>3. /\ more.fires = f /\ more.responders = ids.responders
      /\ f \notin Ids(m.fires) /\ Ids(m.fires) \subseteq 1 .. f
  BY DEF DrawnType, Sound, NearlySound, IsMission, IsDict, Ids
<1>4. NewFire(cell, intensity) \in FireType
  BY DEF NewFire, FireType
<1>5. /\ Ids(fires) = Ids(m.fires) \union {f}
      /\ \A i \in Ids(m.fires) : fires[i] = m.fires[i]
      /\ IsDict(fires, 1 .. f, FireType)
  BY <1>3, <1>4 DEF Put, Ids, IsDict, Sound, NearlySound, IsMission, DrawnType
<1>6. IsMission(n, more)
  BY <1>2, <1>3, <1>5 DEF Sound, NearlySound, IsMission
<1>7. ASSUME NEW r \in Ids(n.responders)
      PROVE  UnitSound(n.responders[r]) /\ Bound(n.responders[r], n.fires)
             /\ Hidden(n.responders[r], n)
  <2>1. /\ r \in Ids(m.responders) /\ n.responders[r] = m.responders[r]
        /\ UnitSound(m.responders[r]) /\ Bound(m.responders[r], m.fires)
        /\ Hidden(m.responders[r], m)
    BY <1>2, <1>7 DEF Sound, NearlySound
  <2>2. Bound(n.responders[r], n.fires)
    BY <1>2, <1>5, <2>1 DEF Bound
  <2>3. Hidden(n.responders[r], n)
    BY <1>2, <2>1 DEF Hidden
  <2> QED BY <2>1, <2>2, <2>3
<1> QED BY <1>6, <1>7 DEF Sound, NearlySound

LEMMA CreateResponderSound ==
  ASSUME NEW m, NEW ids \in DrawnType, Sound(m, ids), NEW cell \in Cell
  PROVE  Sound(CreateResponder(m, ids.responders + 1, cell).mission,
               [ids EXCEPT !.responders = @ + 1])
<1> DEFINE r == ids.responders + 1
           responders == Put(m.responders, r, NewResponder(cell))
           n == CreateResponder(m, r, cell).mission
           more == [ids EXCEPT !.responders = @ + 1]
<1>1. n = [m EXCEPT !.responders = responders]
  BY DEF CreateResponder, Outcome
<1>2. /\ n.control = m.control /\ n.mountains = m.mountains
      /\ n.responders = responders /\ n.fires = m.fires
      /\ n = [control |-> n.control, mountains |-> n.mountains,
              fires |-> n.fires, responders |-> n.responders]
  BY <1>1 DEF Sound, NearlySound, IsMission
<1>3. /\ more.responders = r /\ more.fires = ids.fires
      /\ Ids(m.responders) \subseteq 1 .. r
  BY DEF DrawnType, Sound, NearlySound, IsMission, IsDict, Ids
<1>4. /\ UnitSound(NewResponder(cell)) /\ Bound(NewResponder(cell), m.fires)
      /\ Hidden(NewResponder(cell), m)
  BY DEF NewResponder, UnitSound, UnitType, Bound, Hidden, NoPath, NoFire
<1>5. /\ Ids(responders) = Ids(m.responders) \union {r}
      /\ \A i \in Ids(responders) : \/ responders[i] = NewResponder(cell)
                                  \/ (i \in Ids(m.responders) /\ responders[i] = m.responders[i])
  BY DEF Put, Ids
<1>6. IsDict(responders, 1 .. r, UnitType)
  <2>1. \A i \in Ids(responders) : responders[i] \in UnitType
    BY <1>4, <1>5 DEF Sound, NearlySound, UnitSound
  <2>2. Ids(responders) \subseteq 1 .. r
    BY <1>3, <1>5 DEF DrawnType
  <2>3. responders = [i \in Ids(responders) |-> responders[i]]
    BY DEF Put, Ids
  <2> QED BY <2>1, <2>2, <2>3 DEF IsDict, Ids
<1>7. IsMission(n, more)
  BY <1>2, <1>3, <1>6 DEF Sound, NearlySound, IsMission
<1>8. ASSUME NEW i \in Ids(n.responders)
      PROVE  UnitSound(n.responders[i]) /\ Bound(n.responders[i], n.fires)
             /\ Hidden(n.responders[i], n)
  <2> DEFINE v == responders[i]
  <2>1. UnitSound(v) /\ Bound(v, m.fires) /\ Hidden(v, m)
    <3>1. CASE v = NewResponder(cell)
      BY <1>4, <3>1
    <3>2. CASE i \in Ids(m.responders) /\ v = m.responders[i]
      BY <3>2 DEF Sound, NearlySound
    <3> QED BY <1>2, <1>5, <1>8, <3>1, <3>2
  <2> HIDE DEF v
  <2>2. Hidden(v, n)
    BY <1>2, <2>1 DEF Hidden
  <2>3. n.responders[i] = v
    BY <1>2 DEF v
  <2> QED BY <1>2, <2>1, <2>2, <2>3
<1> QED BY <1>7, <1>8 DEF Sound, NearlySound

(* Commands and uploads that replace one responder. *)
LEMMA WithResponderSound ==
  ASSUME NEW m, NEW ids \in DrawnType, Sound(m, ids), NEW r \in Ids(m.responders), NEW u,
         UnitSound(u), Bound(u, m.fires), Hidden(u, m)
  PROVE  Sound(WithResponder(m, r, u), ids)
<1> DEFINE n == WithResponder(m, r, u)
<1>1. /\ n.control = m.control /\ n.mountains = m.mountains /\ n.fires = m.fires
      /\ n.responders = [m.responders EXCEPT ![r] = u]
      /\ n = [control |-> n.control, mountains |-> n.mountains,
              fires |-> n.fires, responders |-> n.responders]
  BY DEF WithResponder, Sound, NearlySound, IsMission
<1>2. /\ Ids(n.responders) = Ids(m.responders)
      /\ \A i \in Ids(n.responders) :
           n.responders[i] = IF i = r THEN u ELSE m.responders[i]
  BY <1>1 DEF Ids, Sound, NearlySound, IsMission, IsDict
<1>3. IsDict(n.responders, 1 .. ids.responders, UnitType)
  BY <1>1 DEF Ids, IsDict, Sound, NearlySound, IsMission, UnitSound
<1>4. IsMission(n, ids)
  BY <1>1, <1>3 DEF Sound, NearlySound, IsMission
<1>5. ASSUME NEW i \in Ids(n.responders)
      PROVE  UnitSound(n.responders[i]) /\ Bound(n.responders[i], n.fires)
             /\ Hidden(n.responders[i], n)
  BY <1>1, <1>2, <1>5 DEF Sound, NearlySound, Hidden
<1> QED BY <1>4, <1>5 DEF Sound, NearlySound

LEMMA DispatchSound ==
  ASSUME NEW m, NEW ids \in DrawnType, Sound(m, ids), NEW r \in Nat, NEW f \in Nat,
         NEW outcome \in Dispatches(m, r, f)
  PROVE  Sound(outcome.mission, ids)
<1> DEFINE u == m.responders[r]
<1>1. CASE ~Dispatchable(m, r, f)
  BY <1>1 DEF Dispatches, Outcome
<1>2. CASE Dispatchable(m, r, f) /\ RoutesFor(m, r, f) = {}
  <2> DEFINE v == [u EXCEPT !.assigned_fire = NoFire, !.status = "idle"]
  <2>1. r \in Ids(m.responders) /\ UnitSound(u) /\ Hidden(u, m)
    BY <1>2 DEF Dispatchable, Sound, NearlySound
  <2>2. UnitSound(v) /\ Bound(v, m.fires) /\ Hidden(v, m)
    BY <2>1 DEF UnitSound, UnitType, Bound, Hidden, NoFire
  <2>3. outcome.mission = WithResponder(m, r, v)
    BY <1>2 DEF Dispatches, DispatchNowhere, Outcome
  <2> QED BY <2>1, <2>2, <2>3, WithResponderSound
<1>3. CASE Dispatchable(m, r, f) /\ RoutesFor(m, r, f) # {}
  <2>1. PICK path \in RoutesFor(m, r, f) : outcome = DispatchAlong(m, r, f, path)
    BY <1>3 DEF Dispatches
  <2> DEFINE v == [u EXCEPT !.assigned_fire = f, !.status = "moving",
                            !.path = path, !.path_index = 0]
  <2>2. r \in Ids(m.responders) /\ UnitSound(u) /\ Hidden(u, m)
        /\ f \in Ids(m.fires) /\ m.fires[f].at \in Cell /\ m.mountains \in SUBSET Cell
    BY <1>3 DEF Dispatchable, Sound, NearlySound, IsMission, IsDict, Ids, FireType
  <2>3. path \in Seq(Cell) /\ Len(path) > 0 /\ path[Len(path)] = m.fires[f].at
    <3>1. u.at \in Cell
      BY <2>2 DEF UnitSound, UnitType
    <3>2. path \in Routes(u.at, m.fires[f].at, m.mountains)
      BY <2>1 DEF RoutesFor
    <3> QED BY <2>2, <3>1, <3>2, RoutesAssumption
  <2>4. UnitSound(v) /\ Bound(v, m.fires) /\ Hidden(v, m)
    <3>1. u \in UnitType /\ path \in Seq(Cell) /\ f \in Nat
      BY <2>2, <2>3 DEF UnitSound
    <3>2. /\ v \in UnitType /\ v.at = u.at /\ v.last_known = u.last_known
          /\ v.status = "moving" /\ v.signal_status = u.signal_status
          /\ v.assigned_fire = f /\ v.path = path /\ v.path_index = 0
          /\ v.local_log = u.local_log
      BY <3>1 DEF UnitType
    <3>3. path # NoPath
      BY <2>3 DEF NoPath
    <3> HIDE DEF v
    <3> QED BY <2>2, <2>3, <3>2, <3>3 DEF UnitSound, Bound, Hidden
  <2>5. outcome.mission = WithResponder(m, r, v)
    BY <2>1 DEF DispatchAlong, Outcome
  <2> QED BY <2>2, <2>4, <2>5, WithResponderSound
<1> QED BY <1>1, <1>2, <1>3

LEMMA NextOnPath ==
  ASSUME NEW path \in Seq(Cell), NEW i \in Nat, i < Len(path) - 1
  PROVE  i + 1 \in Nat /\ i + 1 < Len(path) /\ path[i + 1 + 1] \in Cell
<1>1. Len(path) \in Nat /\ i + 1 + 1 \in 1 .. Len(path)
  OBVIOUS
<1> QED BY <1>1

LEMMA LastOfAppend ==
  ASSUME NEW s \in Seq(Cell), NEW cell \in Cell
  PROVE  /\ Append(s, cell) \in Seq(Cell) /\ Append(s, cell) # << >>
         /\ Append(s, cell)[Len(Append(s, cell))] = cell
<1>1. Append(s, cell) \in Seq(Cell) /\ Len(Append(s, cell)) = Len(s) + 1
  OBVIOUS
<1> QED BY <1>1

LEMMA LastOfConcat ==
  ASSUME NEW s \in Seq(Cell), NEW t \in Seq(Cell)
  PROVE  /\ s \o t \in Seq(Cell)
         /\ t # << >> => s \o t # << >> /\ (s \o t)[Len(s \o t)] = t[Len(t)]
<1>1. s \o t \in Seq(Cell) /\ Len(s \o t) = Len(s) + Len(t)
  OBVIOUS
<1>2. ASSUME t # << >>
      PROVE  Len(t) \in Nat \ {0} /\ (s \o t)[Len(s) + Len(t)] = t[Len(t)]
  BY <1>2
<1> QED BY <1>1, <1>2

(* One step along a path.  The last cell of the path is the fire's. *)
LEMMA TickResponderSound ==
  ASSUME NEW m, NEW ids \in DrawnType, Sound(m, ids), NEW r \in Ids(m.responders)
  PROVE  /\ UnitSound(TickResponder(m, m.responders[r]))
         /\ Bound(TickResponder(m, m.responders[r]), m.fires)
         /\ Hidden(TickResponder(m, m.responders[r]), m)
<1> DEFINE u == m.responders[r]
           index == u.path_index + 1
           cell == u.path[index + 1]
           v == Advance(m, u)
<1>1. UnitSound(u) /\ Bound(u, m.fires) /\ Hidden(u, m)
  BY DEF Sound, NearlySound
<1>2. CASE ~EnRoute(u)
  BY <1>1, <1>2 DEF TickResponder
<1>3. CASE EnRoute(u)
  <2>1. /\ u \in UnitType /\ u.status = "moving" /\ u.path # NoPath
        /\ u.path \in Seq(Cell) /\ u.path_index \in Nat /\ u.local_log \in Seq(Cell)
        /\ u.path_index < Len(u.path) - 1
    BY <1>1, <1>3 DEF EnRoute, UnitSound, Bound, UnitType
  <2>2. index \in Nat /\ index < Len(u.path) /\ cell \in Cell
    BY <2>1, NextOnPath
  <2>3. Signal(m, cell) \in {"connected", "blocked"}
        /\ (Signal(m, cell) = "blocked" => ~Sees(m.control, cell, m.mountains))
    BY DEF Signal
  <2>4. Append(u.local_log, cell) \in Seq(Cell) /\ Append(u.local_log, cell) # << >>
        /\ Append(u.local_log, cell)[Len(Append(u.local_log, cell))] = cell
    BY <2>1, <2>2, LastOfAppend
  <2> HIDE DEF index, cell
  <2>5. /\ v \in UnitType /\ v.at = cell /\ v.path = u.path /\ v.path_index = index
        /\ v.assigned_fire = u.assigned_fire /\ v.signal_status = Signal(m, cell)
        /\ v.status = IF index = Len(u.path) - 1 THEN "fighting_fire" ELSE "moving"
        /\ v.local_log = IF Signal(m, cell) = "blocked"
                         THEN Append(u.local_log, cell) ELSE u.local_log
        /\ v.last_known = IF Signal(m, cell) = "blocked" THEN u.last_known ELSE cell
    BY <2>1, <2>2, <2>3, <2>4 DEF Advance, UnitType, index, cell
  <2>6. UnitSound(v)
    BY <2>2, <2>3, <2>4, <2>5 DEF UnitSound
  <2>7. index = Len(u.path) - 1 => cell = m.fires[u.assigned_fire].at
    BY <1>1, <2>1, SMTT(60) DEF Bound, index, cell
  <2>8. Bound(v, m.fires)
    BY <1>1, <2>1, <2>5, <2>7 DEF Bound
  <2>9. Hidden(v, m)
    BY <2>3, <2>5 DEF Hidden
  <2> QED BY <1>3, <2>6, <2>8, <2>9 DEF TickResponder
<1> QED BY <1>2, <1>3

LEMMA TickFireSound ==
  ASSUME NEW m, NEW ids \in DrawnType, NearlySound(m, ids), NEW f \in Ids(m.fires)
  PROVE  TickFire(m, m.fires[f]) \in FireType /\ TickFire(m, m.fires[f]).at = m.fires[f].at
<1> DEFINE fire == m.fires[f]
           left == Dampened(fire.intensity, Crew(m, fire.at))
<1>1. fire \in FireType
  BY DEF NearlySound, IsMission, IsDict, Ids
<1>2. Crew(m, fire.at) \in Nat
  <2> DEFINE crew == {r \in Ids(m.responders) : m.responders[r].at = fire.at}
  <2>1. crew \in SUBSET (1 .. ids.responders)
    BY DEF NearlySound, IsMission, IsDict, Ids
  <2>2. IsFiniteSet(1 .. ids.responders)
    <3>1. 1 \in Int /\ ids.responders \in Int
      BY DEF DrawnType
    <3> QED BY <3>1, FS_Interval
  <2> HIDE DEF crew
  <2>3. IsFiniteSet(crew)
    BY <2>1, <2>2, FS_Subset
  <2>4. Cardinality(crew) \in Nat
    BY <2>3, FS_CardinalityType
  <2> QED BY <2>4 DEF Crew, crew
<1>3. left \in Nat
  <2> DEFINE c == Crew(m, fire.at)
             burnt == c * ExtinguishRate
  <2>1. burnt \in Nat /\ fire.intensity \in Nat
    BY <1>1, <1>2 DEF ExtinguishRate, FireType
  <2> HIDE DEF burnt
  <2>2. (IF fire.intensity > burnt THEN fire.intensity - burnt ELSE 0) \in Nat
    BY <2>1
  <2> QED BY <2>2 DEF Dampened, burnt
<1> HIDE DEF left
<1>4. [fire EXCEPT !.intensity = left,
                   !.status = IF left = 0 THEN "extinguished" ELSE @] \in FireType
  BY <1>1, <1>3 DEF FireType
<1>5. TickFire(m, fire) = fire
      \/ TickFire(m, fire) = [fire EXCEPT !.intensity = left,
                                          !.status = IF left = 0 THEN "extinguished" ELSE @]
  BY DEF TickFire, left
<1> QED BY <1>1, <1>4, <1>5 DEF FireType

(* The two halves of the tick step are the tick. *)
LEMMA RunTickTicks ==
  ASSUME RunTick
  PROVE  world' = Tick(world).mission /\ out' = Tick(world).events
BY DEF RunTick, Becomes, Tick

LEMMA TickSound ==
  ASSUME NEW m, NEW ids \in DrawnType, Sound(m, ids)
  PROVE  Sound(Tick(m).mission, ids)
<1> DEFINE v(r) == TickResponder(m, m.responders[r])
           moved == [m EXCEPT !.responders = [r \in Ids(m.responders) |-> v(r)]]
           fire(f) == TickFire(moved, m.fires[f])
           n == Tick(m).mission
<1>1. ASSUME NEW r \in Ids(m.responders)
      PROVE  UnitSound(v(r)) /\ Bound(v(r), m.fires) /\ Hidden(v(r), m)
  BY TickResponderSound
<1>2. /\ moved.control = m.control /\ moved.mountains = m.mountains /\ moved.fires = m.fires
      /\ moved.responders = [r \in Ids(m.responders) |-> v(r)]
      /\ moved = [control |-> moved.control, mountains |-> moved.mountains,
                  fires |-> moved.fires, responders |-> moved.responders]
  BY DEF Sound, NearlySound, IsMission
<1>3. NearlySound(moved, ids)
  <2> HIDE DEF moved, v
  <2>1. IsMission(moved, ids)
    BY <1>1, <1>2 DEF Sound, NearlySound, IsMission, IsDict, Ids, UnitSound
  <2> QED BY <1>1, <1>2, <2>1 DEF NearlySound, Ids
<1>4. ASSUME NEW f \in Ids(m.fires)
      PROVE  fire(f) \in FireType /\ fire(f).at = m.fires[f].at
  BY <1>2, <1>3, TickFireSound
<1>5. n = [moved EXCEPT !.fires = [f \in Ids(m.fires) |-> fire(f)]]
  BY DEF Tick, Burn, Marched, Outcome
<1> HIDE DEF v, fire, moved, n
<1>6. /\ n.control = m.control /\ n.mountains = m.mountains
      /\ n.responders = [r \in Ids(m.responders) |-> v(r)]
      /\ n.fires = [f \in Ids(m.fires) |-> fire(f)]
      /\ n = [control |-> n.control, mountains |-> n.mountains,
              fires |-> n.fires, responders |-> n.responders]
  BY <1>2, <1>5
<1>7. IsMission(n, ids)
  BY <1>1, <1>4, <1>6 DEF Sound, NearlySound, IsMission, IsDict, Ids, UnitSound
<1>8. ASSUME NEW r \in Ids(n.responders)
      PROVE  UnitSound(n.responders[r]) /\ Bound(n.responders[r], n.fires)
             /\ Hidden(n.responders[r], n)
  <2>1. r \in Ids(m.responders) /\ n.responders[r] = v(r)
    BY <1>6, <1>8 DEF Ids
  <2>2. UnitSound(v(r)) /\ Bound(v(r), m.fires) /\ Hidden(v(r), m)
    BY <1>1, <2>1
  <2>3. Ids(n.fires) = Ids(m.fires) /\ \A f \in Ids(m.fires) : n.fires[f].at = m.fires[f].at
    BY <1>4, <1>6 DEF Ids
  <2>4. Bound(v(r), n.fires)
    BY <2>2, <2>3 DEF Bound, UnitSound, UnitType
  <2>5. Hidden(v(r), n)
    BY <1>6, <2>2 DEF Hidden
  <2> QED BY <2>1, <2>2, <2>4, <2>5
<1> QED BY <1>7, <1>8 DEF n, Sound, NearlySound

(* The two halves of a failed upload.  Moves made since stay at the end.   *)
LEMMA TakeBacklogSound ==
  ASSUME NEW m, NEW ids \in DrawnType, Sound(m, ids), NEW r \in Ids(m.responders),
         HasBacklog(m.responders[r])
  PROVE  Sound(TakeBacklog(m, r), ids)
<1> DEFINE u == m.responders[r]
           v == [u EXCEPT !.local_log = << >>]
<1>1. UnitSound(u) /\ Bound(u, m.fires) /\ Hidden(u, m)
  BY DEF Sound, NearlySound
<1>2. /\ v \in UnitType /\ v.at = u.at /\ v.last_known = u.last_known
      /\ v.status = u.status /\ v.signal_status = "connected"
      /\ v.assigned_fire = u.assigned_fire /\ v.path = u.path /\ v.path_index = u.path_index
  <2>1. u \in UnitType /\ u.signal_status = "connected" /\ << >> \in Seq(Cell)
    BY <1>1 DEF HasBacklog, UnitSound
  <2> QED BY <2>1 DEF UnitType
<1> HIDE DEF v
<1>3. UnitSound(v) /\ Bound(v, m.fires) /\ Hidden(v, m)
  BY <1>1, <1>2 DEF HasBacklog, UnitSound, Bound, Hidden
<1>4. TakeBacklog(m, r) = WithResponder(m, r, v)
  BY DEF TakeBacklog, v
<1> QED BY <1>3, <1>4, WithResponderSound

LEMMA PutBacklogSound ==
  ASSUME NEW m, NEW ids \in DrawnType, Sound(m, ids), NEW r \in Ids(m.responders),
         NEW backlog \in Seq(Cell)
  PROVE  Sound(PutBacklog(m, r, backlog), ids)
<1> DEFINE u == m.responders[r]
           whole == backlog \o u.local_log
           v == [u EXCEPT !.local_log = whole]
<1>1. UnitSound(u) /\ Bound(u, m.fires) /\ Hidden(u, m) /\ u.local_log \in Seq(Cell)
  BY DEF Sound, NearlySound, UnitSound, UnitType
<1>2. /\ whole \in Seq(Cell)
      /\ u.local_log # << >> =>
           whole # << >> /\ whole[Len(whole)] = u.local_log[Len(u.local_log)]
  BY <1>1, LastOfConcat
<1> HIDE DEF whole
<1>3. UnitSound(v) /\ Bound(v, m.fires) /\ Hidden(v, m)
  BY <1>1, <1>2 DEF UnitSound, UnitType, Bound, Hidden
<1> QED BY <1>3, WithResponderSound DEF PutBacklog, whole
-----------------------------------------------------------------------------
(* 3. The steps. *)
Inductive ==
  /\ world # NoMission => Sound(world, drawn)
  /\ tick.phase \in Phases
  /\ upload = Idle \/ upload \in UploadType
  /\ drawn \in [fires : 0 .. MaxFires, responders : 0 .. MaxResponders]

LEMMA DrawnTyped == Inductive => drawn \in DrawnType
  BY DEF Inductive, DrawnType

LEMMA InitInductive == Init => Inductive
  BY DEF Init, Inductive, At, Phases

(* A command keeps the tick task where it is and draws at most one id. *)
LEMMA CommandInductive ==
  ASSUME Inductive, Command
  PROVE  Inductive'
<1> DEFINE Kept == (world' # NoMission => Sound(world', drawn'))
                   /\ drawn' \in [fires : 0 .. MaxFires, responders : 0 .. MaxResponders]
<1>0. drawn \in DrawnType /\ (Exists => Sound(world, drawn))
      /\ drawn \in [fires : 0 .. MaxFires, responders : 0 .. MaxResponders]
  BY DrawnTyped DEF Inductive, Exists
<1>1. ASSUME HandleCreateMission
      PROVE  Kept
  BY <1>0, <1>1, NewMissionSound DEF HandleCreateMission, Becomes, CreateMission, Outcome, Exists
<1>2. ASSUME HandleOther
      PROVE  Kept
  BY <1>0, <1>2 DEF HandleOther, Becomes, Outcome, Exists
<1>3. ASSUME HandleReset
      PROVE  Kept
  BY <1>0, <1>3, NewMissionSound DEF HandleReset, Becomes, ResetMission, Outcome, Exists
<1>4. ASSUME NEW cell \in FireCells, NEW intensity \in Intensity, HandlePlaceFire(cell, intensity)
      PROVE  Kept
  <2>1. cell \in Cell /\ intensity \in Nat
    BY DEF PlacesAssumption, IntensityAssumption
  <2>2. Sound(world', drawn')
    BY <1>0, <1>4, <2>1, PlaceFireSound DEF HandlePlaceFire, Becomes, Exists
  <2>3. drawn' \in [fires : 0 .. MaxFires, responders : 0 .. MaxResponders]
    BY <1>0, <1>4 DEF HandlePlaceFire, CountsAssumption
  <2> QED BY <2>2, <2>3
<1>5. ASSUME NEW cell \in MountainCells, HandlePlaceMountain(cell) \/ HandleRemoveMountain(cell)
      PROVE  Kept
  <2>1. cell \in Cell
    BY DEF PlacesAssumption
  <2> QED BY <1>0, <1>5, <2>1, TerrainSound
             DEF HandlePlaceMountain, HandleRemoveMountain, Becomes, Exists
<1>6. ASSUME NEW cell \in ResponderCells, HandleCreateResponder(cell)
      PROVE  Kept
  <2>1. cell \in Cell
    BY DEF PlacesAssumption
  <2>2. Sound(world', drawn')
    BY <1>0, <1>6, <2>1, CreateResponderSound DEF HandleCreateResponder, Becomes, Exists
  <2>3. drawn' \in [fires : 0 .. MaxFires, responders : 0 .. MaxResponders]
    BY <1>0, <1>6 DEF HandleCreateResponder, CountsAssumption
  <2> QED BY <2>2, <2>3
<1>7. ASSUME NEW cell \in Control, HandleMoveMissionControl(cell)
      PROVE  Kept
  <2>1. cell \in Cell
    BY DEF PlacesAssumption
  <2> QED BY <1>0, <1>7, <2>1, TerrainSound DEF HandleMoveMissionControl, Becomes, Exists
<1>8. ASSUME NEW r \in 1 .. drawn.responders, NEW f \in 1 .. drawn.fires, HandleDispatch(r, f)
      PROVE  Kept
  <2>1. r \in Nat /\ f \in Nat
    BY <1>0 DEF DrawnType
  <2>2. PICK outcome \in Dispatches(world, r, f) : Becomes(outcome)
    BY <1>8 DEF HandleDispatch
  <2>3. Sound(outcome.mission, drawn)
    BY <1>0, <1>8, <2>1, DispatchSound DEF HandleDispatch, Exists
  <2> QED BY <1>0, <1>8, <2>2, <2>3 DEF HandleDispatch, Becomes
<1>9. Kept
  BY <1>1, <1>2, <1>3, <1>4, <1>5, <1>6, <1>7, <1>8 DEF Command
<1>10. UNCHANGED <<tick, upload>>
  BY DEF Command, HandleCreateMission, HandleOther, HandleReset, HandlePlaceFire,
    HandlePlaceMountain, HandleRemoveMountain, HandleCreateResponder,
    HandleMoveMissionControl, HandleDispatch, Handle, flushing
<1> QED BY <1>9, <1>10 DEF Inductive

(* The loop takes the backlog of a responder of the world. *)
LEMMA LoopInductive ==
  ASSUME Inductive, NEW todo, NEW size, LoopFrom(todo, size), UNCHANGED drawn
  PROVE  Inductive'
<1> DEFINE ready == {r \in todo \intersect Responders : HasBacklog(Unit(r))}
           r == CHOOSE q \in ready : \A p \in ready : q <= p
<1>1. CASE ready = {}
  BY <1>1 DEF LoopFrom, Inductive, At, Phases
<1>2. CASE ready # {}
  <2>1. drawn \in DrawnType /\ (world # NoMission => Sound(world, drawn))
    BY DrawnTyped DEF Inductive
  <2>2. ready \subseteq Nat
    BY <2>1 DEF Responders, Sound, NearlySound, IsMission, IsDict, Ids, DrawnType
  <2>3. r \in ready
    <3> HIDE DEF ready
    <3> QED BY <1>2, <2>2, Flat!Least
  <2>4. world # NoMission /\ r \in Ids(world.responders) /\ r \in Nat
        /\ HasBacklog(world.responders[r])
    <3> HIDE DEF r
    <3> QED BY <2>2, <2>3 DEF Responders, Unit
  <2>5. world.responders[r] \in UnitType
    BY <2>1, <2>4 DEF Sound, NearlySound, UnitSound
  <2>6. /\ tick' = [phase |-> "flush", todo |-> {q \in todo : q > r}, size |-> size]
        /\ upload' = [responder |-> r, position |-> world.responders[r].at,
                      backlog |-> world.responders[r].local_log, sent |-> FALSE]
        /\ world' = TakeBacklog(world, r)
    BY <1>2 DEF LoopFrom, Unit
  <2> HIDE DEF r
  <2>7. Sound(world', drawn)
    BY <2>1, <2>4, <2>6, TakeBacklogSound
  <2>8. upload' \in UploadType
    BY <2>4, <2>5, <2>6 DEF UploadType, UnitType
  <2>9. tick'.phase \in Phases
    BY <2>6 DEF Phases
  <2> QED BY <2>7, <2>8, <2>9 DEF Inductive
<1> QED BY <1>1, <1>2

LEMMA NextInductive ==
  ASSUME Inductive, [Next]_vars
  PROVE  Inductive'
<1>1. CASE Command
  BY <1>1, CommandInductive
<1>2. CASE RunTick
  <2>1. Sound(world', drawn')
    BY <1>2, RunTickTicks, TickSound, DrawnTyped DEF RunTick, Exists, Inductive
  <2> QED BY <1>2, <2>1 DEF RunTick, Inductive, At, Phases
<1>3. CASE StartFlush
  BY <1>3, LoopInductive DEF StartFlush
<1>4. CASE ContinueFlush
  BY <1>4, LoopInductive DEF ContinueFlush
<1>5. CASE SendUpload
  <2>1. upload' \in UploadType
    BY <1>5 DEF SendUpload, Inductive, UploadType
  <2> QED BY <1>5, <2>1 DEF SendUpload, Inductive
<1>6. CASE CommitUpload
  BY <1>6 DEF CommitUpload, Inductive
<1>7. CASE DictChanged
  BY <1>7 DEF DictChanged, Inductive, At, Phases
<1>8. CASE FailUpload \/ RefuseRows
  <2>0. Rebuffer
    BY <1>8 DEF FailUpload, RefuseRows
  <2>1. world' # NoMission => Sound(world', drawn)
    <3>1. CASE upload.responder \in Responders
      <4>1. /\ world # NoMission /\ Sound(world, drawn) /\ drawn \in DrawnType
            /\ upload.responder \in Ids(world.responders)
        BY <3>1, DrawnTyped DEF Responders, Inductive
      <4>2. upload.backlog \in Seq(Cell)
        BY <2>0 DEF Rebuffer, Inductive, UploadType
      <4> QED BY <2>0, <3>1, <4>1, <4>2, PutBacklogSound DEF Rebuffer
    <3>2. CASE upload.responder \notin Responders
      BY <2>0, <3>2 DEF Rebuffer, Inductive
    <3> QED BY <3>1, <3>2
  <2> QED BY <2>0, <2>1 DEF Rebuffer, Inductive
<1>9. CASE UNCHANGED vars
  BY <1>9 DEF vars, Inductive
<1> QED BY <1>1, <1>2, <1>3, <1>4, <1>5, <1>6, <1>7, <1>8, <1>9 DEF Next, TickTask

LEMMA AlwaysInductive == Spec => []Inductive
<1> QED BY InitInductive, NextInductive, PTL DEF Spec
-----------------------------------------------------------------------------
(* 4. The properties. *)

(* The world has its types, and no responder's index is off its path. *)
THEOREM WorldTypeCorrect == Spec => []TypeOK
<1>1. Inductive => TypeOK
  BY DEF Inductive, TypeOK, Responders, Unit, Sound, NearlySound, UnitSound
<1> QED BY <1>1, AlwaysInductive, PTL

(* No command and no tick leaves a responder shown as cut off in plain     *)
(* sight of mission control.                                               *)
THEOREM BlockedAlwaysHidden == Spec => []BlockedIsHidden
<1>1. Inductive => BlockedIsHidden
  BY DEF Inductive, BlockedIsHidden, Responders, Unit, Sound, Hidden
<1> QED BY <1>1, AlwaysInductive, PTL

(* Mission control knows where the responders it hears are. *)
THEOREM ConnectedAlwaysKnown == Spec => []ConnectedIsKnown
<1>1. Inductive => ConnectedIsKnown
  BY DEF Inductive, ConnectedIsKnown, Responders, Unit, Sound, NearlySound, UnitSound
<1> QED BY <1>1, AlwaysInductive, PTL

(* Whatever is dispatched, moved, reset, uploaded or failed to be, the     *)
(* backlog of a cut-off responder that has moved ends where it is.         *)
THEOREM DarkMovesAlwaysBuffered == Spec => []DarkMovesBuffered
<1>1. Inductive => DarkMovesBuffered
  BY DEF Inductive, DarkMovesBuffered, Responders, Unit, Sound, NearlySound, UnitSound
<1> QED BY <1>1, AlwaysInductive, PTL

(* Every crew stands on the fire it was sent to. *)
THEOREM CrewsAtTheirFires == Spec => []FightingAtItsFire
<1>1. Inductive => FightingAtItsFire
  BY DEF Inductive, FightingAtItsFire, Responders, Fires, Unit, Sound, NearlySound, Bound
<1> QED BY <1>1, AlwaysInductive, PTL
-----------------------------------------------------------------------------
(* 5. What a blackout freezes. *)
Keeps(u, v) ==
  u.signal_status = "blocked" /\ v.signal_status = "blocked" => v.last_known = u.last_known

Frozen(m, n) ==
  \A r \in Ids(m.responders) \intersect Ids(n.responders) :
    Keeps(m.responders[r], n.responders[r])

LEMMA RecomputeFreezes ==
  ASSUME NEW m, NEW ids \in DrawnType, NearlySound(m, ids)
  PROVE  Frozen(m, RecomputeAllSignals(m).mission)
<1> DEFINE n == RecomputeAllSignals(m).mission
<1>1. n.responders = [r \in Ids(m.responders) |-> Resignal(m, m.responders[r])]
  BY DEF RecomputeAllSignals, Outcome, NearlySound, IsMission
<1>2. ASSUME NEW r \in Ids(m.responders)
      PROVE  Keeps(m.responders[r], Resignal(m, m.responders[r]))
  BY DEF NearlySound, UnitSound, UnitType, Keeps, Resignal, Signal
<1> HIDE DEF n
<1>3. Frozen(m, n)
  BY <1>1, <1>2 DEF Frozen, Ids
<1> QED BY <1>3 DEF n

LEMMA TerrainFreezes ==
  ASSUME NEW m, NEW ids \in DrawnType, Sound(m, ids), NEW cell \in Cell
  PROVE  /\ Frozen(m, PlaceMountain(m, cell).mission)
         /\ Frozen(m, RemoveMountain(m, cell).mission)
         /\ Frozen(m, MoveMissionControl(m, cell).mission)
<1>1. ASSUME NEW n, NearlySound(n, ids), n.responders = m.responders, NEW event
      PROVE  Frozen(m, ThenRecompute(n, event).mission)
  <2>1. ThenRecompute(n, event).mission = RecomputeAllSignals(n).mission
    BY DEF ThenRecompute, Outcome
  <2>2. Frozen(n, RecomputeAllSignals(n).mission)
    BY <1>1, RecomputeFreezes
  <2> QED BY <1>1, <2>1, <2>2 DEF Frozen
<1>2. m.mountains \union {cell} \in SUBSET Cell /\ m.mountains \ {cell} \in SUBSET Cell
  BY DEF Sound, NearlySound, IsMission
<1>3. /\ NearlySound([m EXCEPT !.mountains = @ \union {cell}], ids)
      /\ [m EXCEPT !.mountains = @ \union {cell}].responders = m.responders
  BY <1>2, MountainsSound DEF Sound, NearlySound, IsMission
<1>4. /\ NearlySound([m EXCEPT !.mountains = @ \ {cell}], ids)
      /\ [m EXCEPT !.mountains = @ \ {cell}].responders = m.responders
  BY <1>2, MountainsSound DEF Sound, NearlySound, IsMission
<1>5. /\ NearlySound([m EXCEPT !.control = cell], ids)
      /\ [m EXCEPT !.control = cell].responders = m.responders
  BY DEF Sound, NearlySound, IsMission, IsDict, Ids
<1> QED BY <1>1, <1>3, <1>4, <1>5 DEF PlaceMountain, RemoveMountain, MoveMissionControl

LEMMA WithResponderFreezes ==
  ASSUME NEW m, NEW ids \in DrawnType, Sound(m, ids), NEW r \in Ids(m.responders), NEW u,
         u.last_known = m.responders[r].last_known
  PROVE  Frozen(m, WithResponder(m, r, u))
BY DEF WithResponder, Frozen, Keeps, Ids, Sound, NearlySound, IsMission, IsDict

LEMMA DispatchFreezes ==
  ASSUME NEW m, NEW ids \in DrawnType, Sound(m, ids), NEW r, NEW f,
         NEW outcome \in Dispatches(m, r, f)
  PROVE  Frozen(m, outcome.mission)
<1> DEFINE u == m.responders[r]
<1>1. CASE ~Dispatchable(m, r, f)
  BY <1>1 DEF Dispatches, Outcome, Frozen, Keeps
<1>2. CASE Dispatchable(m, r, f)
  <2>1. r \in Ids(m.responders) /\ u \in UnitType
    BY <1>2 DEF Dispatchable, Sound, NearlySound, UnitSound
  <2>2. CASE RoutesFor(m, r, f) = {}
    <3> DEFINE v == [u EXCEPT !.assigned_fire = NoFire, !.status = "idle"]
    <3>1. outcome.mission = WithResponder(m, r, v)
      BY <1>2, <2>2 DEF Dispatches, DispatchNowhere, Outcome
    <3>2. v.last_known = u.last_known
      BY <2>1 DEF UnitType
    <3> QED BY <2>1, <3>1, <3>2, WithResponderFreezes
  <2>3. CASE RoutesFor(m, r, f) # {}
    <3>1. PICK path \in RoutesFor(m, r, f) : outcome = DispatchAlong(m, r, f, path)
      BY <1>2, <2>3 DEF Dispatches
    <3> DEFINE v == [u EXCEPT !.assigned_fire = f, !.status = "moving",
                              !.path = path, !.path_index = 0]
    <3>2. outcome.mission = WithResponder(m, r, v)
      BY <3>1 DEF DispatchAlong, Outcome
    <3>3. v.last_known = u.last_known
      BY <2>1 DEF UnitType
    <3> QED BY <2>1, <3>2, <3>3, WithResponderFreezes
  <2> QED BY <2>2, <2>3
<1> QED BY <1>1, <1>2

LEMMA TickFreezes ==
  ASSUME NEW m, NEW ids \in DrawnType, Sound(m, ids)
  PROVE  Frozen(m, Tick(m).mission)
<1> DEFINE n == Tick(m).mission
<1>1. n.responders = [r \in Ids(m.responders) |-> TickResponder(m, m.responders[r])]
  BY DEF Tick, Burn, Marched, Outcome, Sound, NearlySound, IsMission
<1>2. ASSUME NEW r \in Ids(m.responders)
      PROVE  Keeps(m.responders[r], TickResponder(m, m.responders[r]))
  BY DEF Sound, NearlySound, UnitSound, UnitType, Keeps, TickResponder, Advance, Signal
<1> HIDE DEF n
<1>3. Frozen(m, n)
  BY <1>1, <1>2 DEF Frozen, Ids
<1> QED BY <1>3 DEF n

LEMMA CommandFreezes ==
  ASSUME Inductive, Command, world # NoMission
  PROVE  Frozen(world, world')
<1>1. drawn \in DrawnType /\ Sound(world, drawn)
  BY DrawnTyped DEF Inductive
<1>2. ASSUME UNCHANGED world
      PROVE  Frozen(world, world')
  BY <1>2 DEF Frozen, Keeps
<1>3. CASE HandleCreateMission \/ HandleOther
  BY <1>2, <1>3 DEF HandleCreateMission, HandleOther, Becomes, CreateMission, Outcome
<1>4. CASE HandleReset
  BY <1>4 DEF HandleReset, Becomes, ResetMission, Outcome, NewMission, EmptyDict, Ids, Frozen
<1>5. ASSUME NEW cell \in FireCells, NEW intensity \in Intensity, HandlePlaceFire(cell, intensity)
      PROVE  Frozen(world, world')
  <2>1. world'.responders = world.responders
    BY <1>1, <1>5 DEF HandlePlaceFire, Becomes, PlaceFire, Outcome, Sound, NearlySound, IsMission
  <2> QED BY <2>1 DEF Frozen, Keeps
<1>6. ASSUME NEW cell \in MountainCells, HandlePlaceMountain(cell) \/ HandleRemoveMountain(cell)
      PROVE  Frozen(world, world')
  BY <1>1, <1>6, TerrainFreezes
     DEF PlacesAssumption, HandlePlaceMountain, HandleRemoveMountain, Becomes
<1>7. ASSUME NEW cell \in ResponderCells, HandleCreateResponder(cell)
      PROVE  Frozen(world, world')
  <2> DEFINE r == drawn.responders + 1
  <2>1. world'.responders = Put(world.responders, r, NewResponder(cell))
    BY <1>1, <1>7 DEF HandleCreateResponder, Becomes, CreateResponder, Outcome,
                      Sound, NearlySound, IsMission
  <2>2. r \notin Ids(world.responders)
    BY <1>1 DEF DrawnType, Sound, NearlySound, IsMission, IsDict, Ids
  <2> HIDE DEF r
  <2> QED BY <2>1, <2>2 DEF Put, Ids, Frozen, Keeps
<1>8. ASSUME NEW cell \in Control, HandleMoveMissionControl(cell)
      PROVE  Frozen(world, world')
  BY <1>1, <1>8, TerrainFreezes DEF PlacesAssumption, HandleMoveMissionControl, Becomes
<1>9. ASSUME NEW r \in 1 .. drawn.responders, NEW f \in 1 .. drawn.fires, HandleDispatch(r, f)
      PROVE  Frozen(world, world')
  BY <1>1, <1>9, DispatchFreezes DEF HandleDispatch, Becomes
<1> QED BY <1>3, <1>4, <1>5, <1>6, <1>7, <1>8, <1>9 DEF Command

LEMMA BacklogFreezes ==
  ASSUME NEW m, NEW ids \in DrawnType, Sound(m, ids), NEW r \in Ids(m.responders), NEW backlog
  PROVE  Frozen(m, TakeBacklog(m, r)) /\ Frozen(m, PutBacklog(m, r, backlog))
<1> DEFINE u == m.responders[r]
<1>1. u \in UnitType
  BY DEF Sound, NearlySound, UnitSound
<1>2. /\ [u EXCEPT !.local_log = << >>].last_known = u.last_known
      /\ [u EXCEPT !.local_log = backlog \o @].last_known = u.last_known
  BY <1>1 DEF UnitType
<1> QED BY <1>2, WithResponderFreezes DEF TakeBacklog, PutBacklog

LEMMA TickTaskFreezes ==
  ASSUME Inductive, TickTask \/ FailUpload, world # NoMission
  PROVE  Frozen(world, world')
<1>1. drawn \in DrawnType /\ Sound(world, drawn)
  BY DrawnTyped DEF Inductive
<1>2. ASSUME UNCHANGED world
      PROVE  Frozen(world, world')
  BY <1>2 DEF Frozen, Keeps
<1>3. CASE RunTick
  BY <1>1, <1>3, RunTickTicks, TickFreezes
<1>4. ASSUME NEW todo, NEW size, LoopFrom(todo, size)
      PROVE  Frozen(world, world')
  <2> DEFINE ready == {r \in todo \intersect Responders : HasBacklog(Unit(r))}
             r == CHOOSE q \in ready : \A p \in ready : q <= p
  <2>1. CASE ready = {}
    BY <1>2, <1>4, <2>1 DEF LoopFrom
  <2>2. CASE ready # {}
    <3>1. ready \subseteq Nat
      BY <1>1 DEF Responders, Sound, NearlySound, IsMission, IsDict, Ids, DrawnType
    <3>2. r \in ready
      <4> HIDE DEF ready
      <4> QED BY <2>2, <3>1, Flat!Least
    <3>3. world' = TakeBacklog(world, r)
      BY <1>4, <2>2 DEF LoopFrom
    <3> HIDE DEF r
    <3>4. r \in Ids(world.responders)
      BY <3>2 DEF Responders
    <3> QED BY <1>1, <3>3, <3>4, BacklogFreezes
  <2> QED BY <2>1, <2>2
<1>5. CASE StartFlush \/ ContinueFlush
  BY <1>4, <1>5 DEF StartFlush, ContinueFlush
<1>6. CASE FailUpload \/ RefuseRows
  BY <1>1, <1>2, <1>6, BacklogFreezes DEF FailUpload, RefuseRows, Rebuffer, Responders
<1>7. CASE SendUpload \/ CommitUpload \/ DictChanged
  BY <1>2, <1>7 DEF SendUpload, CommitUpload, DictChanged
<1> QED BY <1>3, <1>5, <1>6, <1>7 DEF TickTask

(* Nothing that happens while a responder is cut off, its walking, the     *)
(* terrain, a dispatch or a failed upload of an earlier backlog, changes   *)
(* where mission control last saw it.                                      *)
THEOREM BlackoutFreezesLastKnown == Spec => LastKnownFrozen
<1> DEFINE Step ==
      \A r \in Responders :
        Unit(r).signal_status = "blocked" /\ r \in Responders' /\ Unit(r)'.signal_status = "blocked"
          => Unit(r)'.last_known = Unit(r).last_known
<1>1. Inductive /\ [Next]_vars => [Step]_vars
  <2> SUFFICES ASSUME Inductive, Next
               PROVE  Step
    OBVIOUS
  <2>1. world # NoMission => Frozen(world, world')
    BY CommandFreezes, TickTaskFreezes DEF Next
  <2> QED BY <2>1 DEF Frozen, Keeps, Responders, Unit
<1> QED BY <1>1, AlwaysInductive, PTL DEF Spec, LastKnownFrozen
-----------------------------------------------------------------------------
(* 6. What the events tell. *)

(* The events of a dict are its entries' one after the other; its ids have *)
(* a last one.                                                             *)
LEMMA FlattenIsFold ==
  ASSUME NEW T, NEW parts \in Seq(Seq(T))
  PROVE  FlattenSeq(parts) = Flat!Fold(<< >>, parts) /\ FlattenSeq(parts) \in Seq(T)
<1>1. Flat!Concatenates
  BY DEF Flat!Concatenates, Concatenated
<1>2. Flat!Flattened(parts) = FlattenSeq(parts)
  BY Zenon DEF FlattenSeq, Flat!Flattened
<1>3. Flat!Flattened(parts) = Flat!Fold(<< >>, parts) /\ Flat!Flattened(parts) \in Seq(T)
  BY <1>1, Flat!FlattenIsFold, Flat!FlattenType
<1> QED BY <1>2, <1>3

LEMMA LastId ==
  ASSUME NEW k \in Nat, NEW ids \in SUBSET (1 .. k)
  PROVE  Max(ids \union {0}) \in Nat /\ \A i \in ids : i <= Max(ids \union {0})
<1>1. Flat!Greatest(ids \union {0}) = Max(ids \union {0})
  BY DEF Max, Flat!Greatest
<1> QED BY <1>1, Flat!LastId

(* What every entry's events are, all are. *)
LEMMA ForEachType ==
  ASSUME NEW T, NEW k \in Nat, NEW events, DOMAIN events \subseteq 1 .. k,
         \A i \in DOMAIN events : events[i] \in Seq(T)
  PROVE  ForEach(events) \in Seq(T)
<1> DEFINE last == Max(DOMAIN events \union {0})
           parts == [i \in 1 .. last |-> IF i \in DOMAIN events THEN events[i] ELSE << >>]
<1>1. last \in Nat
  BY LastId
<1> HIDE DEF last
<1>2. \A i \in 1 .. last : parts[i] \in Seq(T)
  OBVIOUS
<1>3. parts \in Seq(Seq(T))
  BY <1>1, <1>2
<1> HIDE DEF parts
<1>4. FlattenSeq(parts) \in Seq(T)
  BY <1>3, FlattenIsFold
<1> QED BY <1>4 DEF ForEach, parts, last

(* An event does not tell of a cell mission control cannot see; a sequence *)
(* of such events is discreet.                                             *)
Seen(e, m) ==
  e.type \in {"RESPONDER_MOVED", "SIGNAL_RESTORED"} => Sees(m.control, e.position, m.mountains)

Discreet(es, m) == \E S : es \in Seq(S) /\ \A e \in S : Seen(e, m)

LEMMA DiscreetForEach ==
  ASSUME NEW m, NEW k \in Nat, NEW events, DOMAIN events \subseteq 1 .. k,
         \A i \in DOMAIN events : Discreet(events[i], m)
  PROVE  Discreet(ForEach(events), m)
<1> DEFINE T == UNION {{events[i][l] : l \in DOMAIN events[i]} : i \in DOMAIN events}
<1>1. ASSUME NEW i \in DOMAIN events
      PROVE  events[i] \in Seq(T) /\ \A l \in DOMAIN events[i] : Seen(events[i][l], m)
  <2>1. PICK S : events[i] \in Seq(S) /\ \A e \in S : Seen(e, m)
    BY DEF Discreet
  <2>2. \A l \in DOMAIN events[i] : events[i][l] \in T /\ events[i][l] \in S
    BY <2>1
  <2> HIDE DEF T
  <2>3. events[i] = [l \in 1 .. Len(events[i]) |-> events[i][l]] /\ Len(events[i]) \in Nat
        /\ DOMAIN events[i] = 1 .. Len(events[i])
    BY <2>1
  <2> QED BY <2>1, <2>2, <2>3
<1>2. \A e \in T : Seen(e, m)
  BY <1>1
<1> HIDE DEF T
<1>3. ForEach(events) \in Seq(T)
  BY <1>1, ForEachType
<1> QED BY <1>2, <1>3 DEF Discreet

LEMMA DiscreetFew ==
  ASSUME NEW m
  PROVE  /\ Discreet(<< >>, m)
         /\ \A e : Seen(e, m) => Discreet(<<e>>, m)
         /\ \A d, e : Seen(d, m) /\ Seen(e, m) => Discreet(<<d, e>>, m)
<1>1. Discreet(<< >>, m)
  <2> DEFINE S == {}
  <2>1. << >> \in Seq(S) /\ \A e \in S : Seen(e, m)
    OBVIOUS
  <2> HIDE DEF S
  <2> QED BY <2>1 DEF Discreet
<1>2. ASSUME NEW e, Seen(e, m)
      PROVE  Discreet(<<e>>, m)
  <2> DEFINE S == {e}
  <2>1. <<e>> \in Seq(S) /\ \A d \in S : Seen(d, m)
    BY <1>2
  <2> HIDE DEF S
  <2> QED BY <2>1 DEF Discreet
<1>3. ASSUME NEW d, NEW e, Seen(d, m), Seen(e, m)
      PROVE  Discreet(<<d, e>>, m)
  <2> DEFINE S == {d, e}
  <2>1. <<d, e>> \in Seq(S) /\ \A c \in S : Seen(c, m)
    BY <1>3
  <2> HIDE DEF S
  <2> QED BY <2>1 DEF Discreet
<1> QED BY <1>1, <1>2, <1>3

LEMMA DiscreetConcat ==
  ASSUME NEW m, NEW es, NEW fs, Discreet(es, m), Discreet(fs, m)
  PROVE  Discreet(es \o fs, m)
<1>1. PICK S : es \in Seq(S) /\ \A e \in S : Seen(e, m)
  BY DEF Discreet
<1>2. PICK T : fs \in Seq(T) /\ \A e \in T : Seen(e, m)
  BY DEF Discreet
<1>3. es \in Seq(S \union T) /\ fs \in Seq(S \union T)
  BY <1>1, <1>2
<1>4. es \o fs \in Seq(S \union T) /\ \A e \in S \union T : Seen(e, m)
  BY <1>1, <1>2, <1>3
<1> QED BY <1>4 DEF Discreet

(* A restored signal is one that is seen. *)
LEMMA ThenRecomputeDiscreet ==
  ASSUME NEW m, NEW ids \in DrawnType, NearlySound(m, ids), NEW event,
         event.type \notin {"RESPONDER_MOVED", "SIGNAL_RESTORED"}
  PROVE  Discreet(ThenRecompute(m, event).events, ThenRecompute(m, event).mission)
<1> DEFINE parts == [r \in Ids(m.responders) |-> SignalEvent(m, r)]
           n == ThenRecompute(m, event).mission
<1>1. ids.responders \in Nat /\ DOMAIN parts \subseteq 1 .. ids.responders
  BY DEF DrawnType, NearlySound, IsMission, IsDict, Ids
<1>2. n.control = m.control /\ n.mountains = m.mountains
  BY DEF ThenRecompute, RecomputeAllSignals, Outcome, NearlySound, IsMission
<1>3. ThenRecompute(m, event).events = <<event>> \o ForEach(parts)
  BY DEF ThenRecompute, RecomputeAllSignals, Outcome
<1> HIDE DEF n
<1>4. ASSUME NEW r \in Ids(m.responders)
      PROVE  Discreet(SignalEvent(m, r), n)
  <2> DEFINE u == m.responders[r]
             lost == [type |-> "SIGNAL_LOST", responder |-> r, last_known |-> u.last_known]
             restored == [type |-> "SIGNAL_RESTORED", responder |-> r, position |-> u.at]
  <2>1. \/ SignalEvent(m, r) = << >>
        \/ SignalEvent(m, r) = <<lost>>
        \/ SignalEvent(m, r) = <<restored>> /\ Sees(m.control, u.at, m.mountains)
    BY DEF SignalEvent, Signal
  <2>2. Seen(lost, n) /\ (Sees(m.control, u.at, m.mountains) => Seen(restored, n))
    BY <1>2 DEF Seen
  <2> HIDE DEF lost, restored
  <2> QED BY <2>1, <2>2, DiscreetFew
<1>5. Discreet(ForEach(parts), n)
  BY <1>1, <1>4, DiscreetForEach
<1>6. Discreet(<<event>>, n)
  BY DiscreetFew DEF Seen
<1> QED BY <1>3, <1>5, <1>6, DiscreetConcat DEF n

(* A responder is told of where it is heard. *)
LEMMA TickDiscreet ==
  ASSUME NEW m, NEW ids \in DrawnType, Sound(m, ids)
  PROVE  Discreet(Tick(m).events, Tick(m).mission)
<1> DEFINE moved == [m EXCEPT !.responders =
                       [r \in Ids(m.responders) |-> TickResponder(m, m.responders[r])]]
           moves == [r \in Ids(m.responders) |-> MoveEvents(m, r)]
           burns == [f \in Ids(m.fires) |-> FireEvents(moved, f)]
           n == Tick(m).mission
<1>1. /\ ids.responders \in Nat /\ DOMAIN moves \subseteq 1 .. ids.responders
      /\ ids.fires \in Nat /\ DOMAIN burns \subseteq 1 .. ids.fires
  BY DEF DrawnType, Sound, NearlySound, IsMission, IsDict, Ids
<1>2. n.control = m.control /\ n.mountains = m.mountains
  BY DEF Tick, Burn, Marched, Outcome, Sound, NearlySound, IsMission
<1>3. Tick(m).events = ForEach(moves) \o ForEach(burns)
  BY DEF Tick, Burn, Marched, Outcome
<1> HIDE DEF n, moved
<1>4. ASSUME NEW r \in Ids(m.responders)
      PROVE  Discreet(MoveEvents(m, r), n)
  <2> DEFINE u == m.responders[r]
             v == TickResponder(m, u)
             told == [type |-> "RESPONDER_MOVED", responder |-> r, position |-> v.at,
                      last_known |-> v.last_known, path_index |-> v.path_index,
                      status |-> v.status, signal_status |-> v.signal_status]
             lost == [type |-> "SIGNAL_LOST", responder |-> r, last_known |-> u.last_known]
             restored == [type |-> "SIGNAL_RESTORED", responder |-> r, position |-> v.at]
  <2>1. EnRoute(u) => v.signal_status = Signal(m, v.at)
    <3> SUFFICES ASSUME EnRoute(u) PROVE v.signal_status = Signal(m, v.at)
      OBVIOUS
    <3>1. v = Advance(m, u) /\ u \in UnitType
      BY DEF TickResponder, Sound, NearlySound, UnitSound
    <3> HIDE DEF v
    <3> QED BY <3>1 DEF Advance, UnitType
  <2> HIDE DEF v
  <2>2. Seen(lost, n)
    BY DEF Seen
  <2>3. Sees(m.control, v.at, m.mountains) => Seen(told, n) /\ Seen(restored, n)
    BY <1>2 DEF Seen
  <2>4. \/ MoveEvents(m, r) = << >>
        \/ MoveEvents(m, r) = <<lost>>
        \/ Sees(m.control, v.at, m.mountains) /\ MoveEvents(m, r) \in {<<told>>, <<told, restored>>}
    BY <2>1 DEF MoveEvents, Signal, v
  <2> HIDE DEF told, lost, restored
  <2> QED BY <2>2, <2>3, <2>4, DiscreetFew
<1>5. ASSUME NEW f \in Ids(m.fires)
      PROVE  Discreet(FireEvents(moved, f), n)
  <2> DEFINE fire == TickFire(moved, moved.fires[f])
             changed == [type |-> "FIRE_INTENSITY_CHANGED", fire |-> f,
                         intensity |-> fire.intensity, status |-> fire.status]
             out_ == [type |-> "FIRE_EXTINGUISHED", fire |-> f]
  <2>1. FireEvents(moved, f) \in {<< >>, <<changed>>, <<changed, out_>>}
    BY DEF FireEvents
  <2>2. Seen(changed, n) /\ Seen(out_, n)
    BY DEF Seen
  <2> HIDE DEF changed, out_
  <2> QED BY <2>1, <2>2, DiscreetFew
<1>6. Discreet(ForEach(moves), n)
  BY <1>1, <1>4, DiscreetForEach
<1>7. Discreet(ForEach(burns), n)
  BY <1>1, <1>5, DiscreetForEach
<1> QED BY <1>3, <1>6, <1>7, DiscreetConcat DEF n

LEMMA CommandDiscreet ==
  ASSUME Inductive, Command
  PROVE  Discreet(out', world')
<1>1. drawn \in DrawnType /\ (world # NoMission => Sound(world, drawn))
  BY DrawnTyped DEF Inductive
<1>2. CASE HandleOther
  BY <1>2, DiscreetFew DEF HandleOther, Becomes, Outcome
<1>3. CASE HandleCreateMission
  BY <1>3, DiscreetFew DEF HandleCreateMission, Becomes, CreateMission, Outcome, Seen
<1>4. CASE HandleReset
  BY <1>4, DiscreetFew DEF HandleReset, Becomes, ResetMission, Outcome, Seen
<1>5. ASSUME NEW cell \in FireCells, NEW intensity \in Intensity, HandlePlaceFire(cell, intensity)
      PROVE  Discreet(out', world')
  BY <1>5, DiscreetFew DEF HandlePlaceFire, Becomes, PlaceFire, Outcome, Seen
<1>6. ASSUME NEW cell \in ResponderCells, HandleCreateResponder(cell)
      PROVE  Discreet(out', world')
  BY <1>6, DiscreetFew DEF HandleCreateResponder, Becomes, CreateResponder, Outcome, Seen
<1>7. ASSUME NEW r, NEW f, HandleDispatch(r, f)
      PROVE  Discreet(out', world')
  <2>1. PICK outcome \in Dispatches(world, r, f) : Becomes(outcome)
    BY <1>7 DEF HandleDispatch
  <2> DEFINE sent == [type |-> "RESPONDER_DISPATCHED", responder |-> r, fire |-> f]
             assigned(path) == [type |-> "RESPONDER_PATH_ASSIGNED", responder |-> r, path |-> path]
             nowhere == [type |-> "ROUTE_NOT_FOUND", responder |-> r]
  <2>2. out' \in {<< >>, <<sent, nowhere>>} \/ \E path : out' = <<sent, assigned(path)>>
    <3>1. CASE ~Dispatchable(world, r, f)
      BY <2>1, <3>1 DEF Becomes, Dispatches, Outcome
    <3>2. CASE Dispatchable(world, r, f) /\ RoutesFor(world, r, f) = {}
      BY <2>1, <3>2 DEF Becomes, Dispatches, DispatchNowhere, Outcome
    <3>3. CASE Dispatchable(world, r, f) /\ RoutesFor(world, r, f) # {}
      <4>1. PICK path : outcome = DispatchAlong(world, r, f, path)
        BY <2>1, <3>3 DEF Dispatches
      <4>2. out' = <<sent, assigned(path)>>
        BY <2>1, <4>1 DEF Becomes, DispatchAlong, Outcome
      <4> QED BY <4>2
    <3> QED BY <3>1, <3>2, <3>3
  <2>3. Seen(sent, world') /\ Seen(nowhere, world') /\ \A path : Seen(assigned(path), world')
    BY DEF Seen
  <2> HIDE DEF sent, assigned, nowhere
  <2> QED BY <2>2, <2>3, DiscreetFew
<1>8. ASSUME NEW cell \in MountainCells, HandlePlaceMountain(cell) \/ HandleRemoveMountain(cell)
      PROVE  Discreet(out', world')
  <2>1. world # NoMission /\ Sound(world, drawn) /\ cell \in Cell
    BY <1>1, <1>8 DEF HandlePlaceMountain, HandleRemoveMountain, Exists, PlacesAssumption
  <2>2. world.mountains \union {cell} \in SUBSET Cell /\ world.mountains \ {cell} \in SUBSET Cell
    BY <2>1 DEF Sound, NearlySound, IsMission
  <2>3. /\ NearlySound([world EXCEPT !.mountains = @ \union {cell}], drawn)
        /\ NearlySound([world EXCEPT !.mountains = @ \ {cell}], drawn)
    BY <1>1, <2>1, <2>2, MountainsSound
  <2> QED BY <1>1, <1>8, <2>3, ThenRecomputeDiscreet
          DEF HandlePlaceMountain, HandleRemoveMountain, Becomes, PlaceMountain, RemoveMountain
<1>9. ASSUME NEW cell \in Control, HandleMoveMissionControl(cell)
      PROVE  Discreet(out', world')
  <2>1. world # NoMission /\ Sound(world, drawn) /\ cell \in Cell
    BY <1>1, <1>9 DEF HandleMoveMissionControl, Exists, PlacesAssumption
  <2>2. NearlySound([world EXCEPT !.control = cell], drawn)
    BY <2>1 DEF Sound, NearlySound, IsMission, IsDict, Ids
  <2> QED BY <1>1, <1>9, <2>2, ThenRecomputeDiscreet
          DEF HandleMoveMissionControl, Becomes, MoveMissionControl
<1> QED BY <1>2, <1>3, <1>4, <1>5, <1>6, <1>7, <1>8, <1>9 DEF Command

(* No event of a command or a tick places a responder on a cell mission    *)
(* control does not see: what leaks from a blackout is the loss of signal. *)
THEOREM DarkPositionsNeverLeak == Spec => []NoDarkPositionLeaks
<1>1. Discreet(out, world) => NoDarkPositionLeaks
  BY DEF Discreet, Seen, NoDarkPositionLeaks
<1>2. Init => Discreet(out, world)
  BY DiscreetFew DEF Init
<1>3. Inductive /\ Discreet(out, world) /\ [Next]_vars => Discreet(out, world)'
  <2> SUFFICES ASSUME Inductive, Discreet(out, world), [Next]_vars
               PROVE  Discreet(out', world')
    OBVIOUS
  <2>1. CASE Command
    BY <2>1, CommandDiscreet
  <2>2. CASE RunTick
    BY <2>2, RunTickTicks, TickDiscreet, DrawnTyped DEF RunTick, Exists, Inductive
  <2>3. CASE StartFlush \/ SendUpload \/ CommitUpload \/ ContinueFlush \/ DictChanged
             \/ FailUpload \/ RefuseRows
    <3>1. out' = << >>
      BY <2>3 DEF StartFlush, SendUpload, CommitUpload, ContinueFlush, DictChanged, FailUpload,
        RefuseRows, Rebuffer
    <3> QED BY <3>1, DiscreetFew
  <2>4. CASE UNCHANGED vars
    BY <2>4 DEF vars
  <2> QED BY <2>1, <2>2, <2>3, <2>4 DEF Next, TickTask
<1> QED BY <1>1, <1>2, <1>3, AlwaysInductive, PTL DEF Spec
-----------------------------------------------------------------------------
(* 7. Queues, as the sets of their events. *)
IsQueue(es) == es \in Seq(Range(es))

LEMMA QueueOf ==
  ASSUME NEW T, NEW es \in Seq(T)
  PROVE  IsQueue(es) /\ Range(es) \subseteq T
<1>1. /\ es = [i \in 1 .. Len(es) |-> es[i]] /\ Len(es) \in Nat
      /\ DOMAIN es = 1 .. Len(es) /\ \A i \in DOMAIN es : es[i] \in T
  OBVIOUS
<1>2. \A i \in DOMAIN es : es[i] \in Range(es)
  BY DEF Range
<1> DEFINE S == Range(es)
<1>3. \A i \in 1 .. Len(es) : es[i] \in S
  BY <1>1, <1>2
<1> HIDE DEF S
<1>4. es \in Seq(S)
  BY <1>1, <1>3
<1> QED BY <1>1, <1>4 DEF IsQueue, S, Range

LEMMA QueueFew ==
  /\ IsQueue(<< >>) /\ Range(<< >>) = {}
  /\ \A e : IsQueue(<<e>>) /\ Range(<<e>>) = {e} /\ Head(<<e>>) = e /\ Tail(<<e>>) = << >>
            /\ <<e>> # << >>
  /\ \A d, e : IsQueue(<<d, e>>) /\ Range(<<d, e>>) = {d, e} /\ Head(<<d, e>>) = d
               /\ Tail(<<d, e>>) = <<e>> /\ <<d, e>> # << >>
<1>1. Range(<< >>) = {} /\ << >> \in Seq({})
  BY DEF Range
<1>2. ASSUME NEW e
      PROVE  /\ Range(<<e>>) = {e} /\ <<e>> \in Seq({e})
             /\ Head(<<e>>) = e /\ Tail(<<e>>) = << >> /\ <<e>> # << >>
  <2>1. DOMAIN <<e>> = {1} /\ <<e>>[1] = e
    OBVIOUS
  <2> QED BY <2>1 DEF Range
<1>3. ASSUME NEW d, NEW e
      PROVE  /\ Range(<<d, e>>) = {d, e} /\ <<d, e>> \in Seq({d, e})
             /\ Head(<<d, e>>) = d /\ Tail(<<d, e>>) = <<e>> /\ <<d, e>> # << >>
  <2>1. DOMAIN <<d, e>> = {1, 2} /\ <<d, e>>[1] = d /\ <<d, e>>[2] = e
    OBVIOUS
  <2> QED BY <2>1 DEF Range
<1> QED BY <1>1, <1>2, <1>3 DEF IsQueue

(* What is taken from the front was there, and the rest is what else was. *)
LEMMA QueueRest ==
  ASSUME NEW es, IsQueue(es), es # << >>
  PROVE  /\ Head(es) \in Range(es) /\ IsQueue(Tail(es))
         /\ Range(es) = {Head(es)} \union Range(Tail(es))
         /\ Tail(es) # << >> => Head(Tail(es)) \in Range(Tail(es))
<1> DEFINE T == Range(es)
<1>0. es \in Seq(T)
  BY DEF IsQueue
<1>1. \A e : e \in T <=> \E i \in DOMAIN es : e = es[i]
  BY DEF Range
<1> HIDE DEF T
<1>2. Tail(es) \in Seq(T) /\ Len(es) \in Nat /\ Len(es) > 0
  BY <1>0
<1>3. IsQueue(Tail(es)) /\ Range(Tail(es)) \subseteq T
  BY <1>2, QueueOf
<1>4. 1 \in DOMAIN es /\ Head(es) = es[1] /\ Head(es) \in T
  BY <1>0, <1>2
<1>5. DOMAIN es = 1 .. Len(es) /\ DOMAIN Tail(es) = 1 .. (Len(es) - 1)
      /\ \A i \in 1 .. (Len(es) - 1) : Tail(es)[i] = es[i + 1]
  BY <1>0, <1>2
<1>6. ASSUME NEW i \in DOMAIN es, i # 1
      PROVE  es[i] \in Range(Tail(es))
  <2>1. i - 1 \in 1 .. (Len(es) - 1) /\ (i - 1) + 1 = i
    BY <1>2, <1>5, <1>6
  <2>2. i - 1 \in DOMAIN Tail(es) /\ Tail(es)[i - 1] = es[i]
    BY <1>5, <2>1
  <2> QED BY <2>2 DEF Range
<1>7. T = {Head(es)} \union Range(Tail(es))
  BY <1>1, <1>3, <1>4, <1>6
<1>8. Tail(es) # << >> => Head(Tail(es)) \in Range(Tail(es))
  <2> SUFFICES ASSUME Tail(es) # << >>
               PROVE  Head(Tail(es)) \in Range(Tail(es))
    OBVIOUS
  <2>1. 1 \in DOMAIN Tail(es) /\ Head(Tail(es)) = Tail(es)[1]
    BY <1>2
  <2> QED BY <2>1 DEF Range
<1> QED BY <1>3, <1>4, <1>7, <1>8 DEF T

LEMMA QueueConcat ==
  ASSUME NEW es, NEW fs, IsQueue(es), IsQueue(fs)
  PROVE  IsQueue(es \o fs) /\ Range(es \o fs) = Range(es) \union Range(fs)
<1> DEFINE S == Range(es)
           T == Range(fs)
           all == es \o fs
<1>1. es \in Seq(S) /\ fs \in Seq(T)
  BY DEF IsQueue
<1>2. /\ \A e : e \in S <=> \E i \in DOMAIN es : e = es[i]
      /\ \A e : e \in T <=> \E i \in DOMAIN fs : e = fs[i]
  BY DEF Range
<1> HIDE DEF S, T
<1>3. es \in Seq(S \union T) /\ fs \in Seq(S \union T)
  BY <1>1
<1>4. all \in Seq(S \union T)
  BY <1>3
<1>5. IsQueue(all) /\ Range(all) \subseteq S \union T
  BY <1>4, QueueOf
<1>6. /\ Len(es) \in Nat /\ Len(fs) \in Nat /\ DOMAIN es = 1 .. Len(es) /\ DOMAIN fs = 1 .. Len(fs)
      /\ DOMAIN all = 1 .. (Len(es) + Len(fs))
      /\ \A i \in 1 .. Len(es) : all[i] = es[i]
      /\ \A i \in 1 .. Len(fs) : all[i + Len(es)] = fs[i]
  BY <1>1
<1> HIDE DEF all
<1>7. ASSUME NEW i \in DOMAIN es
      PROVE  es[i] \in Range(all)
  <2>1. i \in DOMAIN all /\ all[i] = es[i]
    BY <1>6
  <2> QED BY <2>1 DEF Range
<1>8. ASSUME NEW i \in DOMAIN fs
      PROVE  fs[i] \in Range(all)
  <2>1. i + Len(es) \in DOMAIN all /\ all[i + Len(es)] = fs[i]
    BY <1>6
  <2> QED BY <2>1 DEF Range
<1> QED BY <1>2, <1>5, <1>7, <1>8 DEF all, S, T

(* What the entries of a dict contribute is all there is of ForEach. *)
LEMMA ForEachRange ==
  ASSUME NEW k \in Nat, NEW events, DOMAIN events \subseteq 1 .. k,
         \A i \in DOMAIN events : IsQueue(events[i])
  PROVE  /\ IsQueue(ForEach(events))
         /\ \A e : e \in Range(ForEach(events)) <=> \E i \in DOMAIN events : e \in Range(events[i])
<1> DEFINE T == UNION {Range(events[i]) : i \in DOMAIN events}
           last == Max(DOMAIN events \union {0})
           parts == [i \in 1 .. last |-> IF i \in DOMAIN events THEN events[i] ELSE << >>]
<1>1. ASSUME NEW i \in DOMAIN events
      PROVE  events[i] \in Seq(T)
  <2> DEFINE S == Range(events[i])
  <2>1. events[i] \in Seq(S) /\ S \subseteq T
    BY DEF IsQueue
  <2> HIDE DEF S, T
  <2> QED BY <2>1
<1> HIDE DEF T
<1>2. ForEach(events) \in Seq(T)
  BY <1>1, ForEachType
<1>3. IsQueue(ForEach(events)) /\ Range(ForEach(events)) \subseteq T
  BY <1>2, QueueOf
<1>4. last \in Nat /\ \A i \in DOMAIN events : i <= last /\ i \in 1 .. k
  BY LastId
<1> HIDE DEF last
<1>5. \A i \in 1 .. last : parts[i] \in Seq(T)
  BY <1>1
<1>6. parts \in Seq(Seq(T)) /\ Len(parts) = last
  BY <1>4, <1>5
<1>7. \A i \in DOMAIN events : i \in 1 .. last /\ parts[i] = events[i]
  BY <1>4
<1> HIDE DEF parts
<1> DEFINE Has(i, x) == \A j \in 1 .. i : Range(parts[j]) \subseteq Range(x)
           Q == {p \in Nat \X Seq(T) : Has(p[1], p[2])}
<1>14. \A i \in Nat : \A x : <<i, x>> \in Q <=> x \in Seq(T) /\ Has(i, x)
  <2> HIDE DEF Has
  <2> QED OBVIOUS
<1> HIDE DEF Q
<1>8. <<0, << >> >> \in Q
  <2>1. Has(0, << >>) /\ << >> \in Seq(T) /\ 0 \in Nat
    OBVIOUS
  <2> HIDE DEF Has
  <2> QED BY <1>14, <2>1, Zenon
<1>9. ASSUME NEW i \in 1 .. Len(parts), NEW x, <<i - 1, x>> \in Q
      PROVE  <<i, Concatenated(x, parts[i])>> \in Q
  <2>0. i \in Nat /\ i - 1 \in Nat /\ parts[i] \in Seq(T)
    BY <1>4, <1>5, <1>6
  <2>1. x \in Seq(T) /\ \A j \in 1 .. (i - 1) : Range(parts[j]) \subseteq Range(x)
    BY <1>14, <1>9, <2>0
  <2>2. x \o parts[i] \in Seq(T)
    BY <2>0, <2>1
  <2>3. Range(x \o parts[i]) = Range(x) \union Range(parts[i])
    BY <2>0, <2>1, QueueOf, QueueConcat
  <2>4. \A j \in 1 .. i : j = i \/ j \in 1 .. (i - 1)
    BY <2>0
  <2>5. Has(i, x \o parts[i])
    BY <2>1, <2>3, <2>4
  <2> HIDE DEF Has
  <2> QED BY <1>14, <2>0, <2>2, <2>5 DEF Concatenated
<1>10. <<Len(parts), Flat!Fold(<< >>, parts)>> \in Q
  BY <1>6, <1>8, <1>9, Flat!FoldReaches
<1>11. FlattenSeq(parts) = Flat!Fold(<< >>, parts)
  BY <1>6, FlattenIsFold
<1>12. \A j \in 1 .. last : Range(parts[j]) \subseteq Range(FlattenSeq(parts))
  BY <1>14, <1>4, <1>6, <1>10, <1>11
<1>13. ForEach(events) = FlattenSeq(parts)
  BY DEF ForEach, parts, last
<1> QED BY <1>3, <1>7, <1>12, <1>13 DEF T
-----------------------------------------------------------------------------
(* 8. A row and what is on its way to it.                                  *)
(*                                                                         *)
(* The invariant is about the set of events that are on their way: every   *)
(* one is true of the world as it is now, and what is not right in the     *)
(* tables one of them will put right.  So it does not matter in which      *)
(* order the tasks append them.  Only a command that tells of a responder  *)
(* another task is telling of, or the other way round, makes an event on   *)
(* its way untrue, and then the responder is disputed.                     *)
Knowing == {"RESPONDER_MOVED", "SIGNAL_LOST", "SIGNAL_RESTORED"}
Routing == {"RESPONDER_DISPATCHED", "RESPONDER_PATH_ASSIGNED", "ROUTE_NOT_FOUND"}
Reconciling == {"RESPONDER_RECONNECTED", "RESPONDER_POSITION_RECONCILED"}

Tells(S, types) == \E e \in S : e.type \in types
Of(S, r) == {e \in S : e.type \in RM!OfResponder /\ e.responder = r}

(* A dispatch that finds no route is true only with the event after it.    *)
(* What a blackout keeps from the read model is not asked for: the status  *)
(* and index of a responder that is not whole.                             *)
Truthful(u, whole, S, e) ==
  /\ e.type = "RESPONDER_MOVED" =>
       /\ e.position = u.at /\ e.last_known = u.last_known
       /\ e.path_index = u.path_index /\ e.status = u.status
       /\ e.signal_status = u.signal_status
  /\ e.type = "SIGNAL_LOST" => u.signal_status = "blocked" /\ e.last_known = u.last_known
  /\ e.type = "SIGNAL_RESTORED" => u.signal_status = "connected" /\ e.position = u.last_known
  /\ e.type = "RESPONDER_DISPATCHED" /\ whole =>
       u.status = "moving" \/ Tells(S, {"ROUTE_NOT_FOUND"})
  /\ e.type = "RESPONDER_PATH_ASSIGNED" /\ whole => u.status = "moving" /\ u.path_index = 0
  /\ e.type = "ROUTE_NOT_FOUND" /\ whole => u.status = "idle"
  /\ e.type = "RESPONDER_RECONNECTED" => u.signal_status = "connected"
  /\ e.type = "RESPONDER_POSITION_RECONCILED" =>
       u.signal_status = "connected" /\ e.position = u.at /\ u.last_known = u.at

Mirrors(u, row, whole, S) ==
  /\ \A e \in S : Truthful(u, whole, S, e)
  /\ \/ row.signal_status = u.signal_status /\ row.last_known = u.last_known
     \/ Tells(S, Knowing)
  /\ u.local_log = << >> =>
       row.at = u.at \/ Tells(S, {"RESPONDER_MOVED", "RESPONDER_POSITION_RECONCILED"})
  /\ whole => row.status = u.status \/ Tells(S, {"RESPONDER_MOVED"} \union Routing)
  /\ whole => row.path_index = u.path_index
                \/ Tells(S, {"RESPONDER_MOVED", "RESPONDER_PATH_ASSIGNED"})

IsRow(row) ==
  row = [at |-> row.at, last_known |-> row.last_known, status |-> row.status,
         signal_status |-> row.signal_status, assigned_fire |-> row.assigned_fire,
         path |-> row.path, path_index |-> row.path_index]

(* What each handler writes into a row. *)
LEMMA RowWritten ==
  ASSUME NEW row, IsRow(row), NEW e, e.type \in RM!OfResponder,
         NEW new, new = RM!ResponderRow(row, e)
  PROVE  /\ IsRow(new)
         /\ e.type = "RESPONDER_DISPATCHED" =>
              new.assigned_fire = e.fire /\ new.status = "moving"
         /\ e.type = "RESPONDER_PATH_ASSIGNED" => new.path_index = 0 /\ new.status = "moving"
         /\ e.type = "RESPONDER_MOVED" =>
              /\ new.at = e.position /\ new.last_known = e.last_known
              /\ new.path_index = e.path_index /\ new.status = e.status
              /\ new.signal_status = e.signal_status
         /\ e.type = "SIGNAL_LOST" =>
              new.signal_status = "blocked" /\ new.last_known = e.last_known
         /\ e.type = "SIGNAL_RESTORED" =>
              new.signal_status = "connected" /\ new.last_known = e.position
         /\ e.type = "ROUTE_NOT_FOUND" => new.assigned_fire = NoFire /\ new.status = "idle"
         /\ e.type = "RESPONDER_RECONNECTED" => new.signal_status = "connected"
         /\ e.type = "RESPONDER_POSITION_RECONCILED" =>
              new.at = e.position /\ new.last_known = e.position
         /\ e.type \notin {"RESPONDER_DISPATCHED", "ROUTE_NOT_FOUND"} =>
              new.assigned_fire = row.assigned_fire
         /\ e.type \notin {"RESPONDER_MOVED", "RESPONDER_POSITION_RECONCILED"} =>
              new.at = row.at
         /\ e.type \notin {"RESPONDER_MOVED", "RESPONDER_PATH_ASSIGNED"} =>
              new.path_index = row.path_index
         /\ e.type \notin {"RESPONDER_MOVED"} \union Routing => new.status = row.status
         /\ e.type \notin Knowing \union {"RESPONDER_RECONNECTED"} =>
              new.signal_status = row.signal_status
         /\ e.type \notin Knowing \union {"RESPONDER_POSITION_RECONCILED"} =>
              new.last_known = row.last_known
<1>1. CASE e.type = "RESPONDER_DISPATCHED"
  <2>1. new = [row EXCEPT !.assigned_fire = e.fire, !.status = "moving"]
    BY <1>1 DEF RM!ResponderRow
  <2> QED BY <1>1, <2>1 DEF IsRow, Knowing, Routing
<1>2. CASE e.type = "RESPONDER_PATH_ASSIGNED"
  <2>1. new = [row EXCEPT !.path = e.path, !.path_index = 0, !.status = "moving"]
    BY <1>2 DEF RM!ResponderRow
  <2> QED BY <1>2, <2>1 DEF IsRow, Knowing, Routing
<1>3. CASE e.type = "RESPONDER_MOVED"
  <2>1. new = [row EXCEPT !.at = e.position, !.last_known = e.last_known,
                          !.path_index = e.path_index, !.status = e.status,
                          !.signal_status = e.signal_status]
    BY <1>3 DEF RM!ResponderRow
  <2> QED BY <1>3, <2>1 DEF IsRow, Knowing, Routing
<1>4. CASE e.type = "SIGNAL_LOST"
  <2>1. new = [row EXCEPT !.signal_status = "blocked", !.last_known = e.last_known]
    BY <1>4 DEF RM!ResponderRow
  <2> QED BY <1>4, <2>1 DEF IsRow, Knowing, Routing
<1>5. CASE e.type = "SIGNAL_RESTORED"
  <2>1. new = [row EXCEPT !.signal_status = "connected", !.last_known = e.position]
    BY <1>5 DEF RM!ResponderRow
  <2> QED BY <1>5, <2>1 DEF IsRow, Knowing, Routing
<1>6. CASE e.type = "ROUTE_NOT_FOUND"
  <2>1. new = [row EXCEPT !.assigned_fire = RM!NoFireRow, !.path = << >>, !.status = "idle"]
    BY <1>6 DEF RM!ResponderRow
  <2> QED BY <1>6, <2>1 DEF IsRow, Knowing, Routing, RM!NoFireRow, NoFire
<1>7. CASE e.type = "RESPONDER_RECONNECTED"
  <2>1. new = [row EXCEPT !.signal_status = "connected"]
    BY <1>7 DEF RM!ResponderRow
  <2> QED BY <1>7, <2>1 DEF IsRow, Knowing, Routing
<1>8. CASE e.type = "RESPONDER_POSITION_RECONCILED"
  <2>1. new = [row EXCEPT !.at = e.position, !.last_known = e.position]
    BY <1>8 DEF RM!ResponderRow
  <2> QED BY <1>8, <2>1 DEF IsRow, Knowing, Routing
<1> QED BY <1>1, <1>2, <1>3, <1>4, <1>5, <1>6, <1>7, <1>8 DEF RM!OfResponder

(* An event reaches the row: what the others will put right is what is     *)
(* left to put right.                                                      *)
LEMMA RowMirrors ==
  ASSUME NEW u, NEW row, IsRow(row), NEW whole \in BOOLEAN, NEW T, NEW e,
         e.type \in RM!OfResponder, Mirrors(u, row, whole, T \union {e}),
         e.type = "ROUTE_NOT_FOUND" => ~Tells(T, {"RESPONDER_DISPATCHED"})
  PROVE  Mirrors(u, RM!ResponderRow(row, e), whole, T)
<1> DEFINE new == RM!ResponderRow(row, e)
           S == T \union {e}
<1> HIDE DEF new
<1>1. /\ \A d \in S : Truthful(u, whole, S, d)
      /\ \A types : Tells(S, types) <=> Tells(T, types) \/ e.type \in types
  BY DEF Mirrors, Tells
<1>2. ASSUME NEW d \in T
      PROVE  Truthful(u, whole, T, d)
  <2>1. Truthful(u, whole, S, d)
    BY <1>1
  <2>2. d.type = "RESPONDER_DISPATCHED" =>
          (Tells(S, {"ROUTE_NOT_FOUND"}) => Tells(T, {"ROUTE_NOT_FOUND"}))
    <3>1. d.type = "RESPONDER_DISPATCHED" => Tells(T, {"RESPONDER_DISPATCHED"})
      BY DEF Tells
    <3> QED BY <1>1, <3>1
  <2> QED BY <2>1, <2>2 DEF Truthful
<1>3. Truthful(u, whole, S, e) /\ Mirrors(u, row, whole, S)
  BY <1>1
<1> HIDE DEF S
<1>4. \/ new.signal_status = u.signal_status /\ new.last_known = u.last_known
      \/ Tells(T, Knowing)
  <2>1. CASE e.type \in Knowing
    BY <1>3, <2>1, RowWritten DEF new, Truthful, Knowing
  <2>2. CASE e.type \notin Knowing
    <3>1. \/ row.signal_status = u.signal_status /\ row.last_known = u.last_known
          \/ Tells(T, Knowing)
      BY <1>1, <1>3, <2>2 DEF Mirrors
    <3> QED BY <1>3, <2>2, <3>1, RowWritten DEF new, Truthful
  <2> QED BY <2>1, <2>2
<1>5. u.local_log = << >> =>
        new.at = u.at \/ Tells(T, {"RESPONDER_MOVED", "RESPONDER_POSITION_RECONCILED"})
  <2>1. CASE e.type \in {"RESPONDER_MOVED", "RESPONDER_POSITION_RECONCILED"}
    BY <1>3, <2>1, RowWritten DEF new, Truthful
  <2>2. CASE e.type \notin {"RESPONDER_MOVED", "RESPONDER_POSITION_RECONCILED"}
    BY <1>1, <1>3, <2>2, RowWritten DEF new, Mirrors
  <2> QED BY <2>1, <2>2
<1>6. whole => new.status = u.status \/ Tells(T, {"RESPONDER_MOVED"} \union Routing)
  <2>1. CASE e.type \in {"RESPONDER_MOVED"} \union Routing
    <3>1. CASE e.type = "RESPONDER_DISPATCHED"
      <4>1. Tells(T, {"ROUTE_NOT_FOUND"}) => Tells(T, {"RESPONDER_MOVED"} \union Routing)
        BY DEF Tells, Routing
      <4>2. whole => u.status = "moving" \/ Tells(T, {"ROUTE_NOT_FOUND"})
        BY <1>1, <1>3, <3>1 DEF Truthful
      <4> QED BY <3>1, <4>1, <4>2, RowWritten DEF new
    <3>2. CASE e.type # "RESPONDER_DISPATCHED"
      BY <1>3, <2>1, <3>2, RowWritten DEF new, Truthful, Routing
    <3> QED BY <3>1, <3>2
  <2>2. CASE e.type \notin {"RESPONDER_MOVED"} \union Routing
    <3>1. whole => row.status = u.status \/ Tells(T, {"RESPONDER_MOVED"} \union Routing)
      BY <1>1, <1>3, <2>2 DEF Mirrors
    <3> QED BY <2>2, <3>1, RowWritten DEF new
  <2> QED BY <2>1, <2>2
<1>7. whole => new.path_index = u.path_index
                 \/ Tells(T, {"RESPONDER_MOVED", "RESPONDER_PATH_ASSIGNED"})
  <2>1. CASE e.type \in {"RESPONDER_MOVED", "RESPONDER_PATH_ASSIGNED"}
    BY <1>3, <2>1, RowWritten DEF new, Truthful
  <2>2. CASE e.type \notin {"RESPONDER_MOVED", "RESPONDER_PATH_ASSIGNED"}
    BY <1>1, <1>3, <2>2, RowWritten DEF new, Mirrors
  <2> QED BY <2>1, <2>2
<1> QED BY <1>2, <1>4, <1>5, <1>6, <1>7 DEF Mirrors, new
-----------------------------------------------------------------------------
(* 9. What each part of a step tells, and whether it is true. *)
LEMMA NamedIs ==
  ASSUME NEW es
  PROVE  /\ \A r : r \in Named(es) <=>
              \E e \in Range(es) : e.type \in RM!OfResponder \union {"RESPONDER_CREATED"}
                                   /\ e.responder = r
         /\ \A r : r \in Moved(es) <=>
              \E e \in Range(es) : e.type = "RESPONDER_MOVED" /\ e.responder = r
         /\ \A f : f \in Burning(es) <=>
              \E e \in Range(es) : e.type \in RM!OfFire \union {"FIRE_CREATED"} /\ e.fire = f
<1>1. \A e : e \in Range(es) <=> \E i \in DOMAIN es : e = es[i]
  BY DEF Range
<1>2. \A r : r \in Named(es) <=>
        \E e \in Range(es) : e.type \in RM!OfResponder \union {"RESPONDER_CREATED"}
                             /\ e.responder = r
  BY <1>1 DEF Named
<1>3. \A r : r \in Moved(es) <=>
        \E e \in Range(es) : e.type = "RESPONDER_MOVED" /\ e.responder = r
  BY <1>1 DEF Moved
<1>4. \A f : f \in Burning(es) <=>
        \E e \in Range(es) : e.type \in RM!OfFire \union {"FIRE_CREATED"} /\ e.fire = f
  BY <1>1 DEF Burning
<1> QED BY <1>2, <1>3, <1>4

(* What a command that changes what is visible makes of one responder. *)
LEMMA SignalTold ==
  ASSUME NEW m, NEW r \in Ids(m.responders), NEW u, u = m.responders[r], u \in UnitType,
         NEW v, v = Resignal(m, u), NEW E, E = Range(SignalEvent(m, r))
  PROVE  /\ IsQueue(SignalEvent(m, r))
         /\ \A e \in E : e.type \in {"SIGNAL_LOST", "SIGNAL_RESTORED"} /\ e.responder = r
         /\ v.assigned_fire = u.assigned_fire
         /\ E = {} => v = u
         /\ \A row : \A whole \in BOOLEAN : Mirrors(u, row, whole, {}) => Mirrors(v, row, whole, E)
<1> DEFINE lost == [type |-> "SIGNAL_LOST", responder |-> r, last_known |-> u.last_known]
           restored == [type |-> "SIGNAL_RESTORED", responder |-> r, position |-> u.at]
<1>1. CASE Signal(m, u.at) = u.signal_status
  <2>1. SignalEvent(m, r) = << >> /\ v = u
    BY <1>1 DEF SignalEvent, Resignal
  <2> QED BY <2>1, QueueFew
<1>2. CASE Signal(m, u.at) # u.signal_status /\ Signal(m, u.at) = "blocked"
  <2>1. SignalEvent(m, r) = <<lost>> /\ v = [u EXCEPT !.signal_status = "blocked"]
    BY <1>2 DEF SignalEvent, Resignal
  <2>2. /\ v.signal_status = "blocked" /\ v.last_known = u.last_known
        /\ v.assigned_fire = u.assigned_fire /\ v.at = u.at /\ v.status = u.status
        /\ v.path_index = u.path_index /\ v.local_log = u.local_log
    BY <2>1 DEF UnitType
  <2>3. E = {lost} /\ IsQueue(SignalEvent(m, r))
    <3> HIDE DEF lost
    <3> QED BY <2>1, QueueFew
  <2>4. ASSUME NEW row, NEW whole \in BOOLEAN, Mirrors(u, row, whole, {})
        PROVE  Mirrors(v, row, whole, E)
    <3>1. Tells(E, Knowing) /\ \A e \in E : Truthful(v, whole, E, e)
      BY <2>2, <2>3 DEF Tells, Knowing, Truthful
    <3>2. /\ u.local_log = << >> => row.at = u.at
          /\ whole => row.status = u.status /\ row.path_index = u.path_index
      BY <2>4 DEF Mirrors, Tells
    <3> HIDE DEF lost, restored
    <3> QED BY <2>2, <3>1, <3>2 DEF Mirrors
  <2>5. E # {} /\ \A e \in E : e.type \in {"SIGNAL_LOST", "SIGNAL_RESTORED"} /\ e.responder = r
    BY <2>3
  <2> QED BY <2>2, <2>3, <2>4, <2>5, Zenon
<1>3. CASE Signal(m, u.at) # u.signal_status /\ Signal(m, u.at) # "blocked"
  <2>1. SignalEvent(m, r) = <<restored>>
        /\ v = [u EXCEPT !.signal_status = "connected", !.last_known = u.at]
    BY <1>3 DEF SignalEvent, Resignal
  <2>2. /\ v.signal_status = "connected" /\ v.last_known = u.at
        /\ v.assigned_fire = u.assigned_fire /\ v.at = u.at /\ v.status = u.status
        /\ v.path_index = u.path_index /\ v.local_log = u.local_log
    BY <2>1 DEF UnitType
  <2>3. E = {restored} /\ IsQueue(SignalEvent(m, r))
    <3> HIDE DEF restored
    <3> QED BY <2>1, QueueFew
  <2>4. ASSUME NEW row, NEW whole \in BOOLEAN, Mirrors(u, row, whole, {})
        PROVE  Mirrors(v, row, whole, E)
    <3>1. Tells(E, Knowing) /\ \A e \in E : Truthful(v, whole, E, e)
      BY <2>2, <2>3 DEF Tells, Knowing, Truthful
    <3>2. /\ u.local_log = << >> => row.at = u.at
          /\ whole => row.status = u.status /\ row.path_index = u.path_index
      BY <2>4 DEF Mirrors, Tells
    <3> HIDE DEF lost, restored
    <3> QED BY <2>2, <3>1, <3>2 DEF Mirrors
  <2>5. E # {} /\ \A e \in E : e.type \in {"SIGNAL_LOST", "SIGNAL_RESTORED"} /\ e.responder = r
    BY <2>3
  <2> QED BY <2>2, <2>3, <2>4, <2>5, Zenon
<1> QED BY <1>1, <1>2, <1>3

(* What a tick makes of one responder: a move that is told tells all; one  *)
(* in the dark leaves a backlog.                                           *)
LEMMA MoveTold ==
  ASSUME NEW m, NEW ids \in DrawnType, Sound(m, ids), NEW r \in Ids(m.responders),
         NEW u, u = m.responders[r], NEW v, v = TickResponder(m, u),
         NEW E, E = Range(MoveEvents(m, r))
  PROVE  /\ IsQueue(MoveEvents(m, r))
         /\ \A e \in E : e.type \in Knowing /\ e.responder = r
         /\ v.assigned_fire = u.assigned_fire
         /\ u.status = "idle" => v = u /\ E = {}
         /\ E = {} /\ v # u =>
              /\ u.signal_status = "blocked" /\ v.signal_status = "blocked"
              /\ v.last_known = u.last_known /\ v.local_log # << >>
         /\ v.local_log = << >> => u.local_log = << >>
         /\ E # {} => \A row : \A whole \in BOOLEAN :
                        (whole => v.local_log = << >>) => Mirrors(v, row, whole, E)
<1> DEFINE moved == [type |-> "RESPONDER_MOVED", responder |-> r, position |-> v.at,
                     last_known |-> v.last_known, path_index |-> v.path_index,
                     status |-> v.status, signal_status |-> v.signal_status]
           lost == [type |-> "SIGNAL_LOST", responder |-> r, last_known |-> u.last_known]
           restored == [type |-> "SIGNAL_RESTORED", responder |-> r, position |-> v.at]
<1>1. CASE ~EnRoute(u)
  <2>1. MoveEvents(m, r) = << >> /\ v = u
    BY <1>1 DEF MoveEvents, TickResponder
  <2> QED BY <2>1, QueueFew
<1>2. CASE EnRoute(u)
  <2> DEFINE index == u.path_index + 1
             cell == u.path[index + 1]
  <2>1. /\ u \in UnitType /\ u.path \in Seq(Cell) /\ u.path_index \in Nat
        /\ u.local_log \in Seq(Cell) /\ u.path_index < Len(u.path) - 1 /\ u.status = "moving"
    BY <1>2 DEF EnRoute, Sound, NearlySound, UnitSound, UnitType
  <2>2. cell \in Cell
    BY <2>1, NextOnPath
  <2>3. Append(u.local_log, cell) # << >>
    BY <2>1, <2>2, LastOfAppend
  <2> HIDE DEF index, cell
  <2>4. Signal(m, cell) \in {"connected", "blocked"} /\ u.signal_status \in {"connected", "blocked"}
    BY <2>1 DEF Signal, UnitType
  <2>5. /\ v.at = cell /\ v.assigned_fire = u.assigned_fire
        /\ v.signal_status = Signal(m, cell)
        /\ Signal(m, cell) = "blocked" => v.local_log # << >> /\ v.last_known = u.last_known
        /\ Signal(m, cell) = "connected" => v.local_log = u.local_log /\ v.last_known = cell
    BY <1>2, <2>1, <2>3, <2>4 DEF TickResponder, Advance, UnitType, index, cell
  <2>6. CASE v.signal_status = "blocked" /\ u.signal_status = "connected"
    <3>1. MoveEvents(m, r) = <<lost>>
      BY <1>2, <2>6 DEF MoveEvents
    <3>2. E = {lost} /\ IsQueue(MoveEvents(m, r))
      <4> HIDE DEF lost
      <4> QED BY <3>1, QueueFew
    <3>3. Tells(E, Knowing) /\ \A e \in E : \A whole : Truthful(v, whole, E, e)
      BY <2>4, <2>5, <2>6, <3>2 DEF Tells, Knowing, Truthful
    <3>4. \A row : \A whole \in BOOLEAN :
            (whole => v.local_log = << >>) => Mirrors(v, row, whole, E)
      BY <2>4, <2>5, <2>6, <3>3 DEF Mirrors
    <3>5. \A e \in E : e.type \in Knowing /\ e.responder = r
      BY <3>2 DEF Knowing
    <3> QED BY <2>1, <2>4, <2>5, <2>6, <3>2, <3>4, <3>5
  <2>7. CASE v.signal_status = "blocked" /\ u.signal_status = "blocked"
    <3>1. MoveEvents(m, r) = << >>
      BY <1>2, <2>7 DEF MoveEvents
    <3> QED BY <2>1, <2>4, <2>5, <2>7, <3>1, QueueFew
  <2>8. ASSUME moved \in E, E \in {{moved}, {moved, restored}}, v.signal_status = "connected"
        PROVE  \A row : \A whole \in BOOLEAN : Mirrors(v, row, whole, E)
    <3> TAKE row
    <3> TAKE whole \in BOOLEAN
    <3>1. \A types : "RESPONDER_MOVED" \in types => Tells(E, types)
      BY <2>8 DEF Tells
    <3>2. Truthful(v, whole, E, moved) /\ Truthful(v, whole, E, restored)
      BY <2>4, <2>5, <2>8 DEF Truthful
    <3> HIDE DEF moved, restored
    <3>3. \A e \in E : Truthful(v, whole, E, e)
      BY <2>8, <3>2
    <3> QED BY <3>1, <3>3 DEF Mirrors, Knowing
  <2>9. CASE v.signal_status = "connected" /\ u.signal_status = "connected"
    <3>1. MoveEvents(m, r) = <<moved>>
      BY <1>2, <2>9 DEF MoveEvents
    <3>2. E = {moved} /\ IsQueue(MoveEvents(m, r)) /\ moved \in E
      <4> HIDE DEF moved
      <4> QED BY <3>1, QueueFew
    <3>3. \A e \in E : e.type \in Knowing /\ e.responder = r
      BY <3>2 DEF Knowing
    <3> HIDE DEF moved
    <3> QED BY <2>1, <2>4, <2>5, <2>8, <2>9, <3>2, <3>3
  <2>10. CASE v.signal_status = "connected" /\ u.signal_status = "blocked"
    <3>1. MoveEvents(m, r) = <<moved, restored>>
      BY <1>2, <2>10 DEF MoveEvents
    <3>2. E = {moved, restored} /\ IsQueue(MoveEvents(m, r)) /\ moved \in E
      <4> HIDE DEF moved, restored
      <4> QED BY <3>1, QueueFew
    <3>3. \A e \in E : e.type \in Knowing /\ e.responder = r
      BY <3>2 DEF Knowing
    <3> HIDE DEF moved, restored
    <3> QED BY <2>1, <2>4, <2>5, <2>8, <2>10, <3>2, <3>3
  <2> QED BY <2>4, <2>5, <2>6, <2>7, <2>9, <2>10
<1> QED BY <1>1, <1>2

(* A fire, its row and what the tick has still to tell of it. *)
Burns(fire, e) ==
  IF e.type = "FIRE_INTENSITY_CHANGED" THEN e.intensity = fire.intensity /\ e.status = fire.status
  ELSE fire.intensity = 0 /\ fire.status = "extinguished"

LEMMA BurnTold ==
  ASSUME NEW m, NEW f \in Ids(m.fires), NEW fire, fire = m.fires[f], fire \in FireType,
         NEW now, now = TickFire(m, fire), NEW E, E = Range(FireEvents(m, f))
  PROVE  /\ IsQueue(FireEvents(m, f))
         /\ \A e \in E : e.type \in RM!OfFire /\ e.fire = f /\ Burns(now, e)
         /\ now.at = fire.at
         /\ E = {} => now = fire
<1> DEFINE left == Dampened(fire.intensity, Crew(m, fire.at))
           changed == [type |-> "FIRE_INTENSITY_CHANGED", fire |-> f,
                       intensity |-> now.intensity, status |-> now.status]
           gone == [type |-> "FIRE_EXTINGUISHED", fire |-> f]
<1>1. now = fire
      \/ /\ fire.status = "active"
         /\ now = [fire EXCEPT !.intensity = left,
                               !.status = IF left = 0 THEN "extinguished" ELSE @]
  BY DEF TickFire
<1> HIDE DEF left
<1>2. CASE now = fire
  <2>1. FireEvents(m, f) = << >>
    BY <1>2 DEF FireEvents
  <2> QED BY <1>2, <2>1, QueueFew
<1>3. CASE now # fire
  <2>1. now = [at |-> fire.at, intensity |-> left,
               status |-> IF left = 0 THEN "extinguished" ELSE "active"]
    BY <1>1, <1>3 DEF FireType
  <2>2. Burns(now, changed) /\ changed.type \in RM!OfFire
    BY DEF Burns, RM!OfFire
  <2>3. now.status # "active" => Burns(now, gone) /\ gone.type \in RM!OfFire
    BY <2>1 DEF Burns, RM!OfFire
  <2>4. CASE now.status = "active"
    <3>1. FireEvents(m, f) = <<changed>>
      BY <1>3, <2>4 DEF FireEvents
    <3>2. changed.fire = f
      OBVIOUS
    <3> HIDE DEF changed
    <3>3. IsQueue(FireEvents(m, f)) /\ E = {changed}
      BY <3>1, QueueFew
    <3> QED BY <2>1, <2>2, <3>2, <3>3
  <2>5. CASE now.status # "active"
    <3>1. FireEvents(m, f) = <<changed, gone>>
      BY <1>3, <2>5 DEF FireEvents
    <3>2. changed.fire = f /\ gone.fire = f
      OBVIOUS
    <3> HIDE DEF changed, gone
    <3>3. IsQueue(FireEvents(m, f)) /\ E = {changed, gone}
      BY <3>1, QueueFew
    <3> QED BY <2>1, <2>2, <2>3, <2>5, <3>2, <3>3
  <2> QED BY <2>4, <2>5
<1> QED BY <1>2, <1>3

(* All of a tick. *)
LEMMA TickTold ==
  ASSUME NEW m, NEW ids \in DrawnType, Sound(m, ids),
         NEW n, n = Tick(m).mission, NEW es, es = Tick(m).events
  PROVE  /\ n.control = m.control /\ n.mountains = m.mountains
         /\ Ids(n.fires) = Ids(m.fires) /\ Ids(n.responders) = Ids(m.responders)
         /\ \A r \in Ids(m.responders) : n.responders[r] = TickResponder(m, m.responders[r])
         /\ \A f \in Ids(m.fires) : n.fires[f] = TickFire(Marched(m), m.fires[f])
         /\ Marched(m).fires = m.fires
         /\ IsQueue(es)
         /\ \A e : e \in Range(es) <=>
              \/ \E r \in Ids(m.responders) : e \in Range(MoveEvents(m, r))
              \/ \E f \in Ids(m.fires) : e \in Range(FireEvents(Marched(m), f))
<1> DEFINE moves == [r \in Ids(m.responders) |-> MoveEvents(m, r)]
           burns == [f \in Ids(m.fires) |-> FireEvents(Marched(m), f)]
           moved == Marched(m)
<1>1. /\ m = [control |-> m.control, mountains |-> m.mountains,
              fires |-> m.fires, responders |-> m.responders]
      /\ ids.responders \in Nat /\ Ids(m.responders) \subseteq 1 .. ids.responders
      /\ ids.fires \in Nat /\ Ids(m.fires) \subseteq 1 .. ids.fires
      /\ \A f \in Ids(m.fires) : m.fires[f] \in FireType
  BY DEF DrawnType, Sound, NearlySound, IsMission, IsDict, Ids
<1>2. moved = [m EXCEPT !.responders =
                 [r \in Ids(m.responders) |-> TickResponder(m, m.responders[r])]]
  BY DEF Marched
<1>3. moved.control = m.control /\ moved.mountains = m.mountains /\ moved.fires = m.fires
      /\ moved.responders = [r \in Ids(m.responders) |-> TickResponder(m, m.responders[r])]
      /\ moved = [control |-> moved.control, mountains |-> moved.mountains,
                  fires |-> moved.fires, responders |-> moved.responders]
  BY <1>1, <1>2
<1> HIDE DEF moved
<1>4. /\ n = [moved EXCEPT !.fires = [f \in Ids(m.fires) |-> TickFire(moved, m.fires[f])]]
      /\ es = ForEach(moves) \o ForEach(burns)
  BY DEF Tick, Burn, Outcome, moved
<1>5. /\ n.control = m.control /\ n.mountains = m.mountains
      /\ n.responders = moved.responders
      /\ n.fires = [f \in Ids(m.fires) |-> TickFire(moved, m.fires[f])]
  BY <1>3, <1>4
<1>6. /\ IsQueue(ForEach(moves))
      /\ \A e : e \in Range(ForEach(moves)) <=>
           \E r \in Ids(m.responders) : e \in Range(MoveEvents(m, r))
  <2>1. \A r \in Ids(m.responders) : IsQueue(MoveEvents(m, r))
    BY MoveTold
  <2>2. /\ IsQueue(ForEach(moves))
        /\ \A e : e \in Range(ForEach(moves)) <=> \E r \in DOMAIN moves : e \in Range(moves[r])
    BY <1>1, <2>1, ForEachRange
  <2> QED BY <2>2
<1>7. /\ IsQueue(ForEach(burns))
      /\ \A e : e \in Range(ForEach(burns)) <=>
           \E f \in Ids(m.fires) : e \in Range(FireEvents(Marched(m), f))
  <2>1. \A f \in Ids(m.fires) : IsQueue(FireEvents(Marched(m), f))
    BY <1>1, <1>3, BurnTold DEF moved
  <2>2. /\ IsQueue(ForEach(burns))
        /\ \A e : e \in Range(ForEach(burns)) <=> \E f \in DOMAIN burns : e \in Range(burns[f])
    BY <1>1, <2>1, ForEachRange
  <2> QED BY <2>2
<1>8. /\ IsQueue(es)
      /\ Range(es) = Range(ForEach(moves)) \union Range(ForEach(burns))
  BY <1>4, <1>6, <1>7, QueueConcat
<1>9. \A e : e \in Range(es) <=>
        \/ \E r \in Ids(m.responders) : e \in Range(MoveEvents(m, r))
        \/ \E f \in Ids(m.fires) : e \in Range(FireEvents(Marched(m), f))
  BY <1>6, <1>7, <1>8
<1> HIDE DEF moves, burns
<1> QED BY <1>3, <1>5, <1>8, <1>9 DEF Ids, moved

(* All of a command that changes what is visible. *)
LEMMA RecomputeTold ==
  ASSUME NEW m, NEW ids \in DrawnType, NearlySound(m, ids), NEW event,
         NEW n, n = ThenRecompute(m, event).mission,
         NEW es, es = ThenRecompute(m, event).events
  PROVE  /\ n.control = m.control /\ n.mountains = m.mountains /\ n.fires = m.fires
         /\ Ids(n.responders) = Ids(m.responders)
         /\ \A r \in Ids(m.responders) : n.responders[r] = Resignal(m, m.responders[r])
         /\ IsQueue(es) /\ es # << >> /\ Head(es) = event
         /\ \A e : e \in Range(Tail(es)) <=>
              \E r \in Ids(m.responders) : e \in Range(SignalEvent(m, r))
<1> DEFINE parts == [r \in Ids(m.responders) |-> SignalEvent(m, r)]
           rest == ForEach(parts)
<1>1. /\ m = [control |-> m.control, mountains |-> m.mountains,
              fires |-> m.fires, responders |-> m.responders]
      /\ ids.responders \in Nat /\ Ids(m.responders) \subseteq 1 .. ids.responders
      /\ \A r \in Ids(m.responders) : m.responders[r] \in UnitType
  BY DEF DrawnType, NearlySound, IsMission, IsDict, Ids
<1>2. /\ n = [m EXCEPT !.responders =
                [r \in Ids(m.responders) |-> Resignal(m, m.responders[r])]]
      /\ es = <<event>> \o rest
  BY DEF ThenRecompute, RecomputeAllSignals, Outcome
<1>3. /\ n.control = m.control /\ n.mountains = m.mountains /\ n.fires = m.fires
      /\ n.responders = [r \in Ids(m.responders) |-> Resignal(m, m.responders[r])]
  BY <1>1, <1>2
<1>4. \A r \in Ids(m.responders) : IsQueue(SignalEvent(m, r))
  BY <1>1, SignalTold
<1>5. /\ IsQueue(rest)
      /\ \A e : e \in Range(rest) <=> \E r \in DOMAIN parts : e \in Range(parts[r])
  BY <1>1, <1>4, ForEachRange
<1>6. \A e : e \in Range(rest) <=> \E r \in Ids(m.responders) : e \in Range(SignalEvent(m, r))
  BY <1>5
<1> HIDE DEF rest, parts
<1>7. /\ IsQueue(es) /\ es # << >> /\ Head(es) = event /\ Tail(es) = rest
  <2> DEFINE T == {event} \union Range(rest)
  <2>1. rest \in Seq(T) /\ event \in T
    <3> DEFINE S == Range(rest)
    <3>1. rest \in Seq(S) /\ S \subseteq T
      BY <1>5 DEF IsQueue
    <3> HIDE DEF S, T
    <3>2. rest \in Seq(T)
      BY <3>1
    <3> QED BY <3>2 DEF T
  <2> HIDE DEF T
  <2>2. es \in Seq(T) /\ es # << >> /\ Head(es) = event /\ Tail(es) = rest
    BY <1>2, <2>1
  <2> QED BY <2>2, QueueOf
<1> QED BY <1>3, <1>6, <1>7 DEF Ids

(* A dispatch, which may find no route. *)
LEMMA DispatchTold ==
  ASSUME NEW m, NEW ids \in DrawnType, Sound(m, ids), NEW r, NEW f,
         NEW outcome \in Dispatches(m, r, f), NEW n, n = outcome.mission,
         NEW es, es = outcome.events
  PROVE  \/ n = m /\ es = << >>
         \/ \E second :
              /\ r \in Ids(m.responders) /\ f \in Ids(m.fires)
              /\ n.control = m.control /\ n.mountains = m.mountains /\ n.fires = m.fires
              /\ Ids(n.responders) = Ids(m.responders)
              /\ \A q \in Ids(m.responders) \ {r} : n.responders[q] = m.responders[q]
              /\ n.responders[r].local_log = m.responders[r].local_log
              /\ es = <<[type |-> "RESPONDER_DISPATCHED", responder |-> r, fire |-> f], second>>
              /\ second.type \in {"RESPONDER_PATH_ASSIGNED", "ROUTE_NOT_FOUND"}
              /\ second.responder = r
              /\ n.responders[r].assigned_fire =
                   IF second.type = "ROUTE_NOT_FOUND" THEN NoFire ELSE f
              /\ \A row : \A whole \in BOOLEAN : Mirrors(m.responders[r], row, whole, {}) =>
                   Mirrors(n.responders[r], row, whole, Range(es))
<1> DEFINE u == m.responders[r]
           v == n.responders[r]
           sent == [type |-> "RESPONDER_DISPATCHED", responder |-> r, fire |-> f]
           nowhere == [type |-> "ROUTE_NOT_FOUND", responder |-> r]
           Told(second) ==
             /\ r \in Ids(m.responders) /\ f \in Ids(m.fires)
             /\ n.control = m.control /\ n.mountains = m.mountains /\ n.fires = m.fires
             /\ Ids(n.responders) = Ids(m.responders)
             /\ \A q \in Ids(m.responders) \ {r} : n.responders[q] = m.responders[q]
             /\ v.local_log = u.local_log
             /\ es = <<sent, second>>
             /\ second.type \in {"RESPONDER_PATH_ASSIGNED", "ROUTE_NOT_FOUND"}
             /\ second.responder = r
             /\ v.assigned_fire = IF second.type = "ROUTE_NOT_FOUND" THEN NoFire ELSE f
             /\ \A row : \A whole \in BOOLEAN :
                  Mirrors(u, row, whole, {}) => Mirrors(v, row, whole, Range(es))
<1>1. CASE ~Dispatchable(m, r, f)
  BY <1>1 DEF Dispatches, Outcome
<1>2. CASE Dispatchable(m, r, f)
  <2>1. /\ r \in Ids(m.responders) /\ f \in Ids(m.fires) /\ u \in UnitType
        /\ m = [control |-> m.control, mountains |-> m.mountains,
                fires |-> m.fires, responders |-> m.responders]
        /\ m.responders = [q \in Ids(m.responders) |-> m.responders[q]]
    BY <1>2 DEF Dispatchable, Sound, NearlySound, IsMission, IsDict, Ids
  <2>2. ASSUME NEW w, n = WithResponder(m, r, w)
        PROVE  /\ n.control = m.control /\ n.mountains = m.mountains /\ n.fires = m.fires
               /\ Ids(n.responders) = Ids(m.responders) /\ n.responders[r] = w
               /\ \A q \in Ids(m.responders) \ {r} : n.responders[q] = m.responders[q]
    <3>1. n = [m EXCEPT !.responders[r] = w]
      BY <2>2 DEF WithResponder
    <3>2. n.responders = [m.responders EXCEPT ![r] = w] /\ n.control = m.control
          /\ n.mountains = m.mountains /\ n.fires = m.fires
      BY <2>1, <3>1
    <3> QED BY <2>1, <3>2 DEF Ids
  <2>3. CASE RoutesFor(m, r, f) = {}
    <3> DEFINE w == [u EXCEPT !.assigned_fire = NoFire, !.status = "idle"]
    <3>1. n = WithResponder(m, r, w) /\ es = <<sent, nowhere>>
      BY <1>2, <2>3 DEF Dispatches, DispatchNowhere, Outcome
    <3>2. v = w
      BY <2>2, <3>1
    <3>3. /\ v.at = u.at /\ v.last_known = u.last_known /\ v.signal_status = u.signal_status
          /\ v.status = "idle" /\ v.path_index = u.path_index /\ v.local_log = u.local_log
          /\ v.assigned_fire = NoFire
      BY <2>1, <3>2 DEF UnitType
    <3> HIDE DEF v, w
    <3>4. Range(es) = {sent, nowhere}
      <4> HIDE DEF sent, nowhere
      <4> QED BY <3>1, QueueFew
    <3>5. /\ Tells(Range(es), {"ROUTE_NOT_FOUND"})
          /\ Tells(Range(es), {"RESPONDER_MOVED"} \union Routing)
      BY <3>4 DEF Tells, Routing
    <3>6. ASSUME NEW row, NEW whole \in BOOLEAN, Mirrors(u, row, whole, {})
          PROVE  Mirrors(v, row, whole, Range(es))
      <4>1. Truthful(v, whole, Range(es), sent) /\ Truthful(v, whole, Range(es), nowhere)
        BY <3>3, <3>5 DEF Truthful
      <4>2. /\ u.local_log = << >> => row.at = u.at
            /\ whole => row.path_index = u.path_index
            /\ row.signal_status = u.signal_status /\ row.last_known = u.last_known
        BY <3>6 DEF Mirrors, Tells
      <4> HIDE DEF sent, nowhere, u
      <4>3. \A e \in Range(es) : Truthful(v, whole, Range(es), e)
        BY <3>4, <4>1
      <4> QED BY <3>3, <3>5, <4>2, <4>3 DEF Mirrors
    <3>7. nowhere.type = "ROUTE_NOT_FOUND" /\ nowhere.responder = r
      OBVIOUS
    <3> HIDE DEF nowhere, sent
    <3>8. Told(nowhere)
      BY <2>1, <2>2, <3>1, <3>3, <3>6, <3>7
    <3> QED BY <3>8 DEF sent, v, u
  <2>4. CASE RoutesFor(m, r, f) # {}
    <3>1. PICK path \in RoutesFor(m, r, f) : outcome = DispatchAlong(m, r, f, path)
      BY <1>2, <2>4 DEF Dispatches
    <3> DEFINE w == [u EXCEPT !.assigned_fire = f, !.status = "moving",
                              !.path = path, !.path_index = 0]
               along == [type |-> "RESPONDER_PATH_ASSIGNED", responder |-> r, path |-> path]
    <3>2. n = WithResponder(m, r, w) /\ es = <<sent, along>>
      BY <3>1 DEF DispatchAlong, Outcome
    <3>3. v = w
      BY <2>2, <3>2
    <3>4. /\ v.at = u.at /\ v.last_known = u.last_known /\ v.signal_status = u.signal_status
          /\ v.status = "moving" /\ v.path_index = 0 /\ v.local_log = u.local_log
          /\ v.assigned_fire = f
      BY <2>1, <3>3 DEF UnitType
    <3> HIDE DEF v, w
    <3>5. Range(es) = {sent, along}
      <4> HIDE DEF sent, along
      <4> QED BY <3>2, QueueFew
    <3>6. /\ Tells(Range(es), {"RESPONDER_MOVED", "RESPONDER_PATH_ASSIGNED"})
          /\ Tells(Range(es), {"RESPONDER_MOVED"} \union Routing)
      BY <3>5 DEF Tells, Routing
    <3>7. ASSUME NEW row, NEW whole \in BOOLEAN, Mirrors(u, row, whole, {})
          PROVE  Mirrors(v, row, whole, Range(es))
      <4>1. Truthful(v, whole, Range(es), sent) /\ Truthful(v, whole, Range(es), along)
        BY <3>4 DEF Truthful
      <4>2. /\ u.local_log = << >> => row.at = u.at
            /\ row.signal_status = u.signal_status /\ row.last_known = u.last_known
        BY <3>7 DEF Mirrors, Tells
      <4> HIDE DEF sent, along, u
      <4>3. \A e \in Range(es) : Truthful(v, whole, Range(es), e)
        BY <3>5, <4>1
      <4> QED BY <3>4, <3>6, <4>2, <4>3 DEF Mirrors
    <3>8. along.type = "RESPONDER_PATH_ASSIGNED" /\ along.responder = r
      OBVIOUS
    <3> HIDE DEF along, sent
    <3>9. Told(along)
      BY <2>1, <2>2, <3>2, <3>4, <3>7, <3>8
    <3> QED BY <3>9 DEF sent, v, u
  <2> QED BY <2>3, <2>4
<1> QED BY <1>1, <1>2
-----------------------------------------------------------------------------
(* 10. The invariant. *)
Following == {"SIGNAL_LOST", "SIGNAL_RESTORED", "RESPONDER_PATH_ASSIGNED", "ROUTE_NOT_FOUND"}
Lasting == {"MISSION_CREATED", "FIRE_CREATED", "RESPONDER_CREATED", "MOUNTAIN_PLACED",
            "MOUNTAIN_REMOVED", "MISSION_CONTROL_MOVED", "MISSION_RESET"}

(* What is on its way: to be appended, or to be made of uploads. *)
Arriving(message) == Range(ReconciliationEvents(message))
Uploaded == UNION {Arriving(telemetry[i]) : i \in reconciled + 1 .. Len(telemetry)}
ToUpload == IF upload = Idle \/ upload.sent THEN {} ELSE Arriving(upload)
Pending ==
  Range(sending.command) \union Range(sending.tick) \union Range(sending.telemetry)
    \union Uploaded \union ToUpload

(* Of a responder that is whole the tables are to have all. *)
Whole(r) == NeverDark(r) /\ (upload # Idle => upload.responder # r)

Message == [responder : Nat, position : Cell, backlog : Seq(Cell)]

(* Who sends what, and of whom. *)
Shapes ==
  /\ sending = [task \in Tasks |-> sending[task]]
  /\ \A task \in Tasks : IsQueue(sending[task])
  /\ \A e \in Range(sending.tick) : e.type \in Knowing \union RM!OfFire
  /\ \A e \in Range(sending.telemetry) : e.type \in Reconciling
  /\ \A e \in Range(sending.command) :
       e.type \in Lasting \union Following \union {"RESPONDER_DISPATCHED"}
  /\ sending.command # << >> => \A e \in Range(Tail(sending.command)) : e.type \in Following
  /\ \A e \in Range(sending.command) :
       /\ e.type \in RM!OfResponder => e.responder \in Responders
       /\ e.type = "RESPONDER_DISPATCHED" => e.fire \in Fires
  /\ Named(sending.tick) \union Named(sending.telemetry) \union Uploading
       \subseteq 1 .. drawn.responders
  /\ Burning(sending.tick) \subseteq 1 .. drawn.fires
  /\ sending.tick # << >> => tick.phase = "publish"
  /\ upload # Idle =>
       /\ tick.phase = "flush" /\ upload.backlog # << >>
       /\ upload.sent => \E i \in DOMAIN telemetry : telemetry[i].responder = upload.responder
  /\ telemetry \in Seq(Message) /\ reconciled \in 0 .. Len(telemetry)
  /\ ~Exists => /\ \A task \in Tasks : sending[task] = << >>
                /\ tick.phase = "sleep" /\ upload = Idle /\ telemetry = << >>
                /\ tables = RM!MissionRows

(* What only commands change, in the tables and in the world: the next     *)
(* command event makes the one the other.                                  *)
Ground(t) == [control |-> t.control, cells |-> t.cells, fires |-> DOMAIN t.fires,
              responders |-> DOMAIN t.responders]
WorldGround == [control |-> world.control, cells |-> world.mountains, fires |-> Fires,
                responders |-> Responders]
Changed(x, e) ==
  CASE e.type = "FIRE_CREATED" -> [x EXCEPT !.fires = @ \union {e.fire}]
    [] e.type = "RESPONDER_CREATED" -> [x EXCEPT !.responders = @ \union {e.responder}]
    [] e.type = "MOUNTAIN_PLACED" -> [x EXCEPT !.cells = @ \union {e.cell}]
    [] e.type = "MOUNTAIN_REMOVED" -> [x EXCEPT !.cells = @ \ {e.cell}]
    [] e.type = "MISSION_CONTROL_MOVED" -> [x EXCEPT !.control = e.cell]
    [] e.type = "MISSION_RESET" ->
         [control |-> e.cell, cells |-> {}, fires |-> {}, responders |-> {}]
    [] OTHER -> x

First == Head(sending.command)
Heads(type) == sending.command # << >> /\ First.type = type

IsTables(t) ==
  t = [control |-> t.control, cells |-> t.cells, fires |-> t.fires,
       responders |-> t.responders, outbox |-> t.outbox]
IsFireRow(row) == row = [at |-> row.at, intensity |-> row.intensity, status |-> row.status]

Grounded ==
  /\ IsTables(tables)
  /\ \A r \in DOMAIN tables.responders : IsRow(Row(r))
  /\ \A f \in DOMAIN tables.fires : IsFireRow(tables.fires[f])
  /\ WorldGround = IF sending.command = << >> THEN Ground(tables)
                   ELSE Changed(Ground(tables), First)
  /\ Heads("FIRE_CREATED") => First.fire \in Fires \ DOMAIN tables.fires
  /\ Heads("RESPONDER_CREATED") => First.responder \in Responders \ DOMAIN tables.responders

FiresMirrored ==
  /\ \A f \in Fires \intersect DOMAIN tables.fires :
       /\ tables.fires[f].at = world.fires[f].at
       /\ f \notin Burning(sending.tick) => tables.fires[f] = world.fires[f]
  /\ \A e \in Range(sending.tick) :
       e.type \in RM!OfFire /\ e.fire \in Fires => Burns(world.fires[e.fire], e)
  /\ Heads("FIRE_CREATED") =>
       /\ First.row.at = world.fires[First.fire].at /\ IsFireRow(First.row)
       /\ First.fire \notin Burning(sending.tick) => First.row = world.fires[First.fire]

Assigning == {"RESPONDER_DISPATCHED", "ROUTE_NOT_FOUND"}
Assigned ==
  /\ \A r \in Responders \intersect DOMAIN tables.responders :
       \/ Row(r).assigned_fire = Unit(r).assigned_fire
       \/ Tells(Of(Range(sending.command), r), Assigning)
  /\ \A e \in Range(sending.command) :
       /\ e.type = "RESPONDER_DISPATCHED" =>
            \/ Unit(e.responder).assigned_fire = e.fire
            \/ Tells(Of(Range(sending.command), e.responder), {"ROUTE_NOT_FOUND"})
       /\ e.type = "ROUTE_NOT_FOUND" => Unit(e.responder).assigned_fire = NoFire

(* A responder whose creation is not appended is as it was created, and    *)
(* nobody tells of it.                                                     *)
Newborn ==
  Heads("RESPONDER_CREATED") =>
    /\ First.row = ResponderResponse(Unit(First.responder)) /\ Tail(sending.command) = << >>
    /\ Unit(First.responder).status = "idle" /\ Unit(First.responder).local_log = << >>
    /\ First.responder \notin Named(sending.tick) \union Named(sending.telemetry) \union Uploading

Mirrored ==
  \A r \in (Responders \intersect DOMAIN tables.responders) \ disputed :
    Mirrors(Unit(r), Row(r), Whole(r), Of(Pending, r))

Facts == Grounded /\ FiresMirrored /\ Assigned /\ Newborn /\ Mirrored
Agreement == Shapes /\ (Projecting => Facts)
-----------------------------------------------------------------------------
LEMMA TablesExist ==
  ASSUME NEW t, IsTables(t)
  PROVE  t # RM!NoTables
<1>1. "control" \in DOMAIN t
  BY DEF IsTables
<1>2. DOMAIN RM!NoTables = {}
  BY DEF RM!NoTables
<1> QED BY <1>1, <1>2

LEMMA MissionExists ==
  ASSUME NEW m, NEW ids, IsMission(m, ids)
  PROVE  m # NoMission
<1>1. "control" \in DOMAIN m
  BY DEF IsMission
<1>2. DOMAIN NoMission = {}
  BY DEF NoMission
<1> QED BY <1>1, <1>2

LEMMA ArrivingIs ==
  ASSUME NEW message, NEW e, e \in Arriving(message)
  PROVE  /\ e.type \in Reconciling /\ e.responder = message.responder
         /\ e.type = "RESPONDER_POSITION_RECONCILED" => e.position = message.position
<1> DEFINE back == [type |-> "RESPONDER_RECONNECTED", responder |-> message.responder]
           at == [type |-> "RESPONDER_POSITION_RECONCILED", responder |-> message.responder,
                  position |-> message.position]
<1>1. /\ back.type \in Reconciling /\ back.responder = message.responder
      /\ back.type # "RESPONDER_POSITION_RECONCILED"
      /\ at.type \in Reconciling /\ at.responder = message.responder
      /\ at.position = message.position
  BY DEF Reconciling
<1>2. Arriving(message) = Range(<<back, at>>)
  BY DEF Arriving, ReconciliationEvents
<1> HIDE DEF back, at
<1>3. e \in {back, at}
  BY <1>2, QueueFew
<1> QED BY <1>1, <1>3

LEMMA ArrivingTells ==
  ASSUME NEW message
  PROVE  Tells(Arriving(message), {"RESPONDER_MOVED", "RESPONDER_POSITION_RECONCILED"})
         /\ IsQueue(ReconciliationEvents(message))
<1> DEFINE back == [type |-> "RESPONDER_RECONNECTED", responder |-> message.responder]
           at == [type |-> "RESPONDER_POSITION_RECONCILED", responder |-> message.responder,
                  position |-> message.position]
<1>1. ReconciliationEvents(message) = <<back, at>> /\ at.type = "RESPONDER_POSITION_RECONCILED"
  BY DEF ReconciliationEvents
<1> HIDE DEF back, at
<1>2. at \in Arriving(message) /\ IsQueue(ReconciliationEvents(message))
  BY <1>1, QueueFew DEF Arriving
<1> QED BY <1>1, <1>2 DEF Tells

LEMMA TaskNames == Tasks = {"command", "tick", "telemetry"}
BY DEF Tasks

(* Nothing is on the way about a responder that is not on the way. *)
LEMMA NothingComing ==
  ASSUME NEW r, r \notin OnTheWay
  PROVE  Of(Pending, r) = {}
<1> SUFFICES ASSUME NEW e, e \in Of(Pending, r)
             PROVE  FALSE
  OBVIOUS
<1>1. e \in Pending /\ e.type \in RM!OfResponder /\ e.responder = r
  BY DEF Of
<1>2. r \notin Uploading /\ \A task \in Tasks : r \notin Named(sending[task])
  BY DEF OnTheWay
<1>3. ASSUME NEW task \in Tasks, e \in Range(sending[task])
      PROVE  FALSE
  BY <1>1, <1>2, <1>3, NamedIs
<1>4. CASE e \in Uploaded
  <2>1. PICK i \in reconciled + 1 .. Len(telemetry) : e \in Arriving(telemetry[i])
    BY <1>4 DEF Uploaded
  <2>2. telemetry[i].responder = r
    BY <1>1, <2>1, ArrivingIs
  <2> QED BY <1>2, <2>2 DEF Uploading
<1>5. CASE e \in ToUpload
  <2>1. upload # Idle /\ e \in Arriving(upload)
    BY <1>5 DEF ToUpload
  <2>2. upload.responder = r
    BY <1>1, <2>1, ArrivingIs
  <2> QED BY <1>2, <2>1, <2>2 DEF Uploading
<1> QED BY <1>1, <1>3, <1>4, <1>5, TaskNames DEF Pending

(* Between commands and appended events nothing of the ground changes. *)
Steady ==
  /\ WorldGround' = WorldGround /\ sending.command' = sending.command
  /\ \A r \in Responders : Unit(r)'.assigned_fire = Unit(r).assigned_fire
  /\ \E rows : tables' = [tables EXCEPT !.outbox = rows]

LEMMA SteadyTables ==
  ASSUME IsTables(tables), Steady
  PROVE  /\ IsTables(tables') /\ Ground(tables') = Ground(tables)
         /\ tables'.responders = tables.responders /\ tables'.fires = tables.fires
         /\ Responders' = Responders /\ Fires' = Fires
<1>1. PICK rows : tables' = [tables EXCEPT !.outbox = rows]
  BY DEF Steady
<1>2. /\ tables'.control = tables.control /\ tables'.cells = tables.cells
      /\ tables'.responders = tables.responders /\ tables'.fires = tables.fires
      /\ IsTables(tables')
  BY <1>1 DEF IsTables
<1>3. Responders' = Responders /\ Fires' = Fires
  <2>1. WorldGround'.responders = WorldGround.responders /\ WorldGround'.fires = WorldGround.fires
    BY DEF Steady
  <2> QED BY <2>1 DEF WorldGround
<1> QED BY <1>2, <1>3 DEF Ground

LEMMA SteadyGrounded ==
  ASSUME Shapes, Grounded, Assigned, Steady
  PROVE  Grounded' /\ Assigned'
<1>1. /\ IsTables(tables') /\ Ground(tables') = Ground(tables)
      /\ tables'.responders = tables.responders /\ tables'.fires = tables.fires
      /\ Responders' = Responders /\ Fires' = Fires
  BY SteadyTables DEF Grounded
<1>2. WorldGround' = WorldGround /\ sending.command' = sending.command
      /\ \A r \in Responders : Unit(r)'.assigned_fire = Unit(r).assigned_fire
  BY DEF Steady
<1>3. First' = First /\ \A type : Heads(type)' <=> Heads(type)
  BY <1>2 DEF First, Heads
<1>4. Grounded'
  BY <1>1, <1>2, <1>3 DEF Grounded, Row
<1>5. Assigned'
  <2>1. \A r \in Responders' \intersect DOMAIN tables'.responders :
          \/ Row(r)'.assigned_fire = Unit(r)'.assigned_fire
          \/ Tells(Of(Range(sending.command'), r), Assigning)
    BY <1>1, <1>2 DEF Assigned, Row
  <2>2. \A e \in Range(sending.command') :
          /\ e.type = "RESPONDER_DISPATCHED" =>
               \/ Unit(e.responder)'.assigned_fire = e.fire
               \/ Tells(Of(Range(sending.command'), e.responder), {"ROUTE_NOT_FOUND"})
          /\ e.type = "ROUTE_NOT_FOUND" => Unit(e.responder)'.assigned_fire = NoFire
    <3> SUFFICES ASSUME NEW e \in Range(sending.command), e.type \in Assigning
                 PROVE  /\ e.type = "RESPONDER_DISPATCHED" =>
                             \/ Unit(e.responder)'.assigned_fire = e.fire
                             \/ Tells(Of(Range(sending.command), e.responder), {"ROUTE_NOT_FOUND"})
                        /\ e.type = "ROUTE_NOT_FOUND" => Unit(e.responder)'.assigned_fire = NoFire
      BY <1>2 DEF Assigning
    <3>1. e.type \in RM!OfResponder
      BY DEF Assigning, RM!OfResponder
    <3>2. e.responder \in Responders
      BY <3>1 DEF Shapes
    <3> QED BY <1>2, <3>2 DEF Assigned
  <2> QED BY <2>1, <2>2 DEF Assigned
<1> QED BY <1>4, <1>5
-----------------------------------------------------------------------------
(* 11. Steps that change at most what is to be uploaded. *)
SameButLog(u, v) ==
  /\ v.at = u.at /\ v.last_known = u.last_known /\ v.status = u.status
  /\ v.signal_status = u.signal_status /\ v.assigned_fire = u.assigned_fire
  /\ v.path = u.path /\ v.path_index = u.path_index

LEMMA LogMirrors ==
  ASSUME NEW u, NEW v, SameButLog(u, v), NEW row, NEW whole \in BOOLEAN, NEW S,
         Mirrors(u, row, whole, S), NEW still \in BOOLEAN, still => whole, NEW T,
         \A e \in S : e \in T \/ e.type \in Reconciling,
         \A e \in T : e \in S \/ (/\ e.type \in Reconciling /\ u.signal_status = "connected"
                                  /\ u.last_known = u.at
                                  /\ e.type = "RESPONDER_POSITION_RECONCILED" => e.position = u.at),
         v.local_log = << >> =>
           \/ u.local_log = << >> /\ S \subseteq T
           \/ Tells(T, {"RESPONDER_MOVED", "RESPONDER_POSITION_RECONCILED"})
  PROVE  Mirrors(v, row, still, T)
<1>1. \A types : types \intersect Reconciling = {} => (Tells(S, types) => Tells(T, types))
  BY DEF Tells
<1>2. S \subseteq T => \A types : Tells(S, types) => Tells(T, types)
  BY DEF Tells
<1>3. /\ {"ROUTE_NOT_FOUND"} \intersect Reconciling = {}
      /\ Knowing \intersect Reconciling = {}
      /\ ({"RESPONDER_MOVED"} \union Routing) \intersect Reconciling = {}
      /\ {"RESPONDER_MOVED", "RESPONDER_PATH_ASSIGNED"} \intersect Reconciling = {}
  BY DEF Reconciling, Knowing, Routing
<1>4. ASSUME NEW e \in T
      PROVE  Truthful(v, still, T, e)
  <2>1. CASE e \in S
    <3>1. Truthful(u, whole, S, e)
      BY <2>1 DEF Mirrors
    <3>2. Tells(S, {"ROUTE_NOT_FOUND"}) => Tells(T, {"ROUTE_NOT_FOUND"})
      BY <1>1, <1>3
    <3> QED BY <3>1, <3>2 DEF Truthful, SameButLog
  <2>2. CASE e \notin S
    BY <2>2 DEF Truthful, SameButLog, Reconciling
  <2> QED BY <2>1, <2>2
<1>5. /\ Tells(S, Knowing) => Tells(T, Knowing)
      /\ Tells(S, {"RESPONDER_MOVED"} \union Routing) =>
           Tells(T, {"RESPONDER_MOVED"} \union Routing)
      /\ Tells(S, {"RESPONDER_MOVED", "RESPONDER_PATH_ASSIGNED"})
           => Tells(T, {"RESPONDER_MOVED", "RESPONDER_PATH_ASSIGNED"})
  BY <1>1, <1>3
<1>6. \/ row.signal_status = v.signal_status /\ row.last_known = v.last_known
      \/ Tells(T, Knowing)
  BY <1>5 DEF Mirrors, SameButLog
<1>7. v.local_log = << >> =>
        row.at = v.at \/ Tells(T, {"RESPONDER_MOVED", "RESPONDER_POSITION_RECONCILED"})
  BY <1>2 DEF Mirrors, SameButLog
<1>8. /\ still => row.status = v.status \/ Tells(T, {"RESPONDER_MOVED"} \union Routing)
      /\ still => row.path_index = v.path_index
                    \/ Tells(T, {"RESPONDER_MOVED", "RESPONDER_PATH_ASSIGNED"})
  BY <1>5 DEF Mirrors, SameButLog
<1> QED BY <1>4, <1>6, <1>7, <1>8 DEF Mirrors

(* Such a step keeps the facts if it does what it should to what is to be  *)
(* uploaded of each responder.                                             *)
Uploads(r) ==
  /\ SameButLog(Unit(r), Unit(r)') /\ (Whole(r)' => Whole(r))
  /\ \A e \in Of(Pending, r) : e \in Of(Pending', r) \/ e.type \in Reconciling
  /\ \A e \in Of(Pending', r) :
       e \in Of(Pending, r) \/ (/\ e.type \in Reconciling /\ Unit(r).signal_status = "connected"
                                /\ Unit(r).last_known = Unit(r).at
                                /\ e.type = "RESPONDER_POSITION_RECONCILED" =>
                                     e.position = Unit(r).at)
  /\ Unit(r)'.local_log = << >> =>
       \/ Unit(r).local_log = << >> /\ Of(Pending, r) \subseteq Of(Pending', r)
       \/ Tells(Of(Pending', r), {"RESPONDER_MOVED", "RESPONDER_POSITION_RECONCILED"})

LEMMA UploadFacts ==
  ASSUME Shapes, Facts, Steady, sending.tick' = sending.tick, disputed' = disputed,
         \A f \in Fires : world'.fires[f] = world.fires[f],
         \A r \in Responders : Uploads(r),
         Heads("RESPONDER_CREATED") =>
           /\ Unit(First.responder)'.local_log = << >>
           /\ First.responder \notin (Named(sending.telemetry) \union Uploading)'
  PROVE  Facts'
<1>1. Grounded /\ FiresMirrored /\ Assigned /\ Newborn /\ Mirrored
  BY DEF Facts
<1>2. Grounded' /\ Assigned'
  BY <1>1, SteadyGrounded
<1>3. /\ tables'.responders = tables.responders /\ tables'.fires = tables.fires
      /\ Responders' = Responders /\ Fires' = Fires
  BY <1>1, SteadyTables DEF Grounded
<1>4. /\ sending.command' = sending.command /\ First' = First
      /\ \A type : Heads(type)' <=> Heads(type)
  BY DEF Steady, First, Heads
<1>5. FiresMirrored'
  <2>1. Heads("FIRE_CREATED") => First.fire \in Fires
    BY <1>1 DEF Grounded
  <2>2. \A f \in Fires \intersect DOMAIN tables.fires :
          /\ tables'.fires[f].at = world'.fires[f].at
          /\ f \notin Burning(sending.tick') => tables'.fires[f] = world'.fires[f]
    BY <1>1, <1>3 DEF FiresMirrored
  <2>3. \A e \in Range(sending.tick') :
          e.type \in RM!OfFire /\ e.fire \in Fires => Burns(world'.fires[e.fire], e)
    BY <1>1 DEF FiresMirrored
  <2>4. Heads("FIRE_CREATED") =>
          /\ First.row.at = world'.fires[First.fire].at /\ IsFireRow(First.row)
          /\ First.fire \notin Burning(sending.tick') => First.row = world'.fires[First.fire]
    BY <1>1, <2>1 DEF FiresMirrored
  <2> QED BY <1>3, <1>4, <2>2, <2>3, <2>4 DEF FiresMirrored
<1>6. Newborn'
  <2> SUFFICES ASSUME Heads("RESPONDER_CREATED")
               PROVE  /\ First.row = ResponderResponse(Unit(First.responder)')
                      /\ Tail(sending.command) = << >>
                      /\ Unit(First.responder)'.status = "idle"
                      /\ Unit(First.responder)'.local_log = << >>
                      /\ First.responder \notin Named(sending.tick)
                      /\ First.responder \notin (Named(sending.telemetry) \union Uploading)'
    BY <1>4 DEF Newborn
  <2>1. First.responder \in Responders
    BY <1>1 DEF Grounded
  <2>2. SameButLog(Unit(First.responder), Unit(First.responder)')
    <3>1. SUFFICES ASSUME NEW r, r = First.responder
                   PROVE  SameButLog(Unit(r), Unit(r)')
      BY <1>4 DEF Unit
    <3> QED BY <2>1, <3>1 DEF Uploads
  <2> QED BY <1>1, <2>2 DEF Newborn, SameButLog, ResponderResponse
<1>7. Mirrored'
  <2> SUFFICES ASSUME NEW r \in (Responders \intersect DOMAIN tables.responders) \ disputed
               PROVE  Mirrors(Unit(r)', Row(r), Whole(r)', Of(Pending', r))
    BY <1>3 DEF Mirrored, Row
  <2>1. Mirrors(Unit(r), Row(r), Whole(r), Of(Pending, r)) /\ Uploads(r)
    BY <1>1 DEF Mirrored
  <2>2. Whole(r) \in BOOLEAN /\ Whole(r)' \in BOOLEAN
    BY DEF Whole, NeverDark
  <2> QED BY <2>1, <2>2, LogMirrors DEF Uploads
<1> QED BY <1>2, <1>5, <1>6, <1>7 DEF Facts

LEMMA ShapesKept ==
  ASSUME Shapes, Exists', sending' = sending, drawn' = drawn,
         Responders' = Responders, Fires' = Fires,
         Uploading' \subseteq 1 .. drawn.responders,
         sending.tick # << >> => tick'.phase = "publish",
         upload' # Idle =>
           /\ tick'.phase = "flush" /\ upload'.backlog # << >>
           /\ upload'.sent =>
                \E i \in DOMAIN telemetry' : telemetry'[i].responder = upload'.responder,
         telemetry' \in Seq(Message), reconciled' \in 0 .. Len(telemetry')
  PROVE  Shapes'
<1>1. Named(sending.tick) \union Named(sending.telemetry) \subseteq 1 .. drawn.responders
      /\ Burning(sending.tick) \subseteq 1 .. drawn.fires
  BY DEF Shapes
<1>2. Named(sending.tick') \union Named(sending.telemetry') \union Uploading'
        \subseteq 1 .. drawn'.responders
  BY <1>1
<1> QED BY <1>1, <1>2 DEF Shapes

LEMMA ExistsThen ==
  ASSUME Shapes, tick.phase # "sleep" \/ upload # Idle \/ telemetry # << >>
                 \/ \E task \in Tasks : sending[task] # << >>
  PROVE  Exists
BY DEF Shapes

LEMMA HoldingUnit ==
  ASSUME Inductive, Exists, NEW r \in Responders
  PROVE  /\ Unit(r) \in UnitType /\ UnitSound(Unit(r)) /\ r \in 1 .. drawn.responders
         /\ Unit(r).signal_status = "connected" => Unit(r).last_known = Unit(r).at
BY DEF Inductive, Exists, Responders, Unit, Sound, NearlySound, IsMission, IsDict, Ids, UnitSound

LEMMA WithResponderIs ==
  ASSUME Inductive, Exists, NEW r \in Responders, NEW log,
         world' = WithResponder(world, r, [Unit(r) EXCEPT !.local_log = log])
  PROVE  /\ Exists' /\ WorldGround' = WorldGround /\ Responders' = Responders /\ Fires' = Fires
         /\ world'.fires = world.fires
         /\ \A q \in Responders : /\ SameButLog(Unit(q), Unit(q)')
                                  /\ Unit(q)'.local_log = IF q = r THEN log ELSE Unit(q).local_log
<1>1. /\ world = [control |-> world.control, mountains |-> world.mountains,
                  fires |-> world.fires, responders |-> world.responders]
      /\ world.responders = [q \in Responders |-> Unit(q)]
      /\ Responders = Ids(world.responders) /\ Fires = Ids(world.fires)
      /\ Unit(r) \in UnitType
  BY DEF Inductive, Exists, Responders, Fires, Unit, Sound, NearlySound, IsMission, IsDict, Ids
<1> DEFINE w == [Unit(r) EXCEPT !.local_log = log]
<1>2. SameButLog(Unit(r), w) /\ w.local_log = log
  BY <1>1 DEF SameButLog, UnitType
<1> HIDE DEF w
<1>3. world' = [world EXCEPT !.responders[r] = w]
  BY DEF WithResponder, w
<1>4. /\ world'.control = world.control /\ world'.mountains = world.mountains
      /\ world'.fires = world.fires
      /\ world'.responders = [world.responders EXCEPT ![r] = w]
      /\ world' = [control |-> world'.control, mountains |-> world'.mountains,
                   fires |-> world'.fires, responders |-> world'.responders]
  BY <1>1, <1>3
<1>5. world' # NoMission
  <2>1. "control" \in DOMAIN world'
    BY <1>4
  <2>2. DOMAIN NoMission = {}
    BY DEF NoMission
  <2> QED BY <2>1, <2>2
<1>6. Responders' = Responders /\ Fires' = Fires
  BY <1>1, <1>4, <1>5 DEF Responders, Fires, Ids, Exists
<1>7. \A q \in Responders : Unit(q)' = IF q = r THEN w ELSE Unit(q)
  BY <1>1, <1>4 DEF Unit, Ids
<1> QED BY <1>2, <1>4, <1>5, <1>6, <1>7 DEF Exists, WorldGround, SameButLog

LEMMA OfArriving ==
  ASSUME NEW message, NEW r
  PROVE  /\ Of(Arriving(message), r) = IF r = message.responder THEN Arriving(message) ELSE {}
         /\ \A e \in Arriving(message) : e.type \in Reconciling
<1>1. Reconciling \subseteq RM!OfResponder
  BY DEF Reconciling, RM!OfResponder
<1> QED BY <1>1, ArrivingIs DEF Of

(* The loop goes on to a responder with a backlog, or to its end. *)
LEMMA LoopAgreement ==
  ASSUME Inductive, Agreement, NEW todo, NEW size, upload = Idle, tick.phase # "sleep",
         sending.tick = << >>, LoopFrom(todo, size),
         UNCHANGED <<telemetry, drawn, tables, refused, sending, reconciled, disputed>>
  PROVE  Agreement'
<1> DEFINE ready == {r \in todo \intersect Responders : HasBacklog(Unit(r))}
<1>1. Shapes /\ Exists
  BY ExistsThen DEF Agreement
<1>2. CASE ready = {}
  <2>1. tick' = At("sleep") /\ UNCHANGED <<world, upload>>
    BY <1>2 DEF LoopFrom
  <2>2. UNCHANGED <<Responders, Fires, Exists, Uploading, WorldGround, Pending, Projecting>>
        /\ \A r : Unit(r)' = Unit(r) /\ Whole(r)' = Whole(r)
    BY <2>1 DEF Responders, Fires, Exists, Uploading, WorldGround, Pending, Uploaded, ToUpload,
      Unit, Whole, NeverDark, Projecting
  <2>3. Shapes'
    BY <1>1, <2>1, <2>2, ShapesKept DEF Shapes
  <2>4. Facts => Facts'
    BY <2>1, <2>2 DEF Facts, Grounded, FiresMirrored, Assigned, Newborn, Mirrored, First, Heads, Row
  <2> QED BY <2>2, <2>3, <2>4 DEF Agreement
<1>3. CASE ready # {}
  <2>1. PICK r \in ready :
          /\ tick' = [phase |-> "flush", todo |-> {q \in todo : q > r}, size |-> size]
          /\ upload' = [responder |-> r, position |-> Unit(r).at,
                        backlog |-> Unit(r).local_log, sent |-> FALSE]
          /\ world' = TakeBacklog(world, r)
    <3> DEFINE least == CHOOSE q \in ready : \A p \in ready : q <= p
    <3>1. least \in ready
      <4>1. ready \subseteq 1 .. drawn.responders /\ drawn.responders \in Nat
        BY <1>1, HoldingUnit, DrawnTyped DEF DrawnType
      <4> HIDE DEF ready
      <4>2. ready \subseteq Nat
        BY <4>1
      <4> QED BY <1>3, <4>2, Flat!Least
    <3> QED BY <1>3, <3>1 DEF LoopFrom
  <2>2. /\ r \in Responders /\ Unit(r).signal_status = "connected" /\ Unit(r).local_log # << >>
    BY DEF HasBacklog
  <2>3. /\ Unit(r).last_known = Unit(r).at /\ r \in 1 .. drawn.responders
    BY <1>1, <2>2, HoldingUnit
  <2>4. /\ upload' # Idle /\ upload'.responder = r /\ upload'.position = Unit(r).at
        /\ upload'.backlog # << >> /\ ~upload'.sent
    <3>1. "responder" \in DOMAIN upload' /\ DOMAIN Idle = {}
      BY <2>1 DEF Idle
    <3> QED BY <2>1, <2>2, <3>1
  <2>5. world' = WithResponder(world, r, [Unit(r) EXCEPT !.local_log = << >>])
    BY <2>1 DEF TakeBacklog, Unit
  <2>6. /\ Exists' /\ WorldGround' = WorldGround /\ Responders' = Responders /\ Fires' = Fires
        /\ world'.fires = world.fires
        /\ \A q \in Responders :
             /\ SameButLog(Unit(q), Unit(q)')
             /\ Unit(q)'.local_log = IF q = r THEN << >> ELSE Unit(q).local_log
    BY <1>1, <2>2, <2>5, WithResponderIs
  <2>7. Uploading' = Uploading \union {r}
    BY <2>4 DEF Uploading
  <2>8. Shapes'
    <3>1. Uploading' \subseteq 1 .. drawn.responders
      BY <1>1, <2>3, <2>7 DEF Shapes
    <3> QED BY <1>1, <2>1, <2>4, <2>6, <3>1, ShapesKept DEF Shapes
  <2>9. ASSUME Facts
        PROVE  Facts'
    <3>1. Steady
      <4>1. \A q \in Responders : Unit(q)'.assigned_fire = Unit(q).assigned_fire
        BY <2>6 DEF SameButLog
      <4>2. tables' = [tables EXCEPT !.outbox = tables.outbox]
        BY <2>9 DEF Facts, Grounded, IsTables
      <4> QED BY <2>6, <4>1, <4>2 DEF Steady
    <3>2. Pending' = Pending \union Arriving(upload')
      BY <2>4 DEF Pending, Uploaded, ToUpload
    <3>3. ASSUME NEW q \in Responders
          PROVE  Uploads(q)
      <4>1. Of(Pending', q) = Of(Pending, q) \union Of(Arriving(upload'), q)
        BY <3>2 DEF Of
      <4>2. CASE q = r
        <5>1. Of(Arriving(upload'), q) = Arriving(upload')
          BY <2>4, <4>2, OfArriving
        <5>2. Tells(Of(Pending', q), {"RESPONDER_MOVED", "RESPONDER_POSITION_RECONCILED"})
          BY <4>1, <5>1, ArrivingTells DEF Tells
        <5>3. \A e \in Arriving(upload') :
                e.type \in Reconciling
                /\ (e.type = "RESPONDER_POSITION_RECONCILED" => e.position = Unit(q).at)
          BY <2>4, <4>2, ArrivingIs
        <5>4. ~Whole(q)'
          BY <2>4, <4>2 DEF Whole
        <5>5. Unit(q).signal_status = "connected" /\ Unit(q).last_known = Unit(q).at
          BY <2>2, <2>3, <4>2
        <5>6. SameButLog(Unit(q), Unit(q)')
          BY <2>6
        <5> QED BY <4>1, <5>1, <5>2, <5>3, <5>4, <5>5, <5>6 DEF Uploads
      <4>3. CASE q # r
        <5>1. Of(Pending', q) = Of(Pending, q)
          BY <2>4, <4>1, <4>3, OfArriving
        <5>2. SameButLog(Unit(q), Unit(q)') /\ Unit(q)'.local_log = Unit(q).local_log
          BY <2>6, <4>3
        <5>3. Whole(q)' => Whole(q)
          BY <5>2 DEF Whole, NeverDark
        <5> QED BY <5>1, <5>2, <5>3 DEF Uploads
      <4> QED BY <4>2, <4>3
    <3>4. Heads("RESPONDER_CREATED") =>
            /\ Unit(First.responder)'.local_log = << >>
            /\ First.responder \notin (Named(sending.telemetry) \union Uploading)'
      <4> SUFFICES ASSUME Heads("RESPONDER_CREATED")
                   PROVE  /\ Unit(First.responder)'.local_log = << >>
                          /\ First.responder \notin Named(sending.telemetry)
                          /\ First.responder \notin Uploading'
        BY DEF First
      <4>1. /\ First.responder \in Responders /\ Unit(First.responder).local_log = << >>
            /\ First.responder \notin Named(sending.telemetry) \union Uploading
        BY <2>9 DEF Facts, Grounded, Newborn
      <4>2. First.responder # r
        BY <2>2, <4>1
      <4>3. First' = First
        BY DEF First
      <4> QED BY <2>6, <2>7, <4>1, <4>2, <4>3 DEF Unit
    <3> QED BY <1>1, <2>6, <2>9, <3>1, <3>3, <3>4, UploadFacts
  <2> QED BY <1>1, <2>8, <2>9 DEF Agreement, Projecting
<1> QED BY <1>2, <1>3

(* The rows are committed, or the process ends. *)
LEMMA CommitAgreement ==
  ASSUME Inductive, Agreement, CommitUpload \/ DictChanged, sending.tick = << >>,
         UNCHANGED <<tables, refused, sending, reconciled, disputed>>
  PROVE  Agreement'
<1>1. Shapes /\ UNCHANGED <<world, telemetry, drawn>> /\ upload' = Idle
      /\ (upload # Idle => upload.sent) /\ (upload = Idle => tick.phase = "flush")
      /\ tick'.phase # "sleep"
  <2>1. CASE CommitUpload
    <3>1. tick.phase = "flush"
      BY <2>1 DEF CommitUpload, Agreement, Shapes
    <3> QED BY <2>1, <3>1 DEF CommitUpload, Agreement
  <2>2. CASE DictChanged
    BY <2>2 DEF DictChanged, Agreement, At
  <2> QED BY <2>1, <2>2
<1>2. Exists
  BY <1>1, ExistsThen
<1>3. /\ UNCHANGED <<Responders, Fires, Exists, WorldGround, Pending, Projecting>>
      /\ \A r : Unit(r)' = Unit(r)
      /\ Uploading' \subseteq Uploading
  BY <1>1 DEF Responders, Fires, Exists, Uploading, WorldGround, Pending, Uploaded, ToUpload,
    Unit, Projecting
<1>4. ASSUME NEW r
      PROVE  Whole(r)' => Whole(r)
  <2>1. upload # Idle => \E i \in DOMAIN telemetry : telemetry[i].responder = upload.responder
    BY <1>1 DEF Shapes
  <2> QED BY <1>1, <2>1 DEF Whole, NeverDark, Unit
<1>5. Shapes'
  <2>1. Uploading' \subseteq 1 .. drawn.responders
    BY <1>1, <1>3 DEF Shapes
  <2> QED BY <1>1, <1>2, <1>3, <2>1, ShapesKept DEF Shapes
<1>6. ASSUME Facts
      PROVE  Facts'
  <2>1. Steady
    <3>1. tables' = [tables EXCEPT !.outbox = tables.outbox]
      BY <1>6 DEF Facts, Grounded, IsTables
    <3> QED BY <1>1, <1>3, <3>1 DEF Steady
  <2>2. \A r \in Responders : Uploads(r)
    BY <1>3, <1>4 DEF Uploads, SameButLog
  <2>3. Heads("RESPONDER_CREATED") =>
          /\ Unit(First.responder)'.local_log = << >>
          /\ First.responder \notin (Named(sending.telemetry) \union Uploading)'
    BY <1>1, <1>3, <1>6 DEF Facts, Newborn, First, Unit
  <2> QED BY <1>1, <1>6, <2>1, <2>2, <2>3, UploadFacts
<1> QED BY <1>3, <1>5, <1>6 DEF Agreement

(* The message is on the topic instead of on its way there. *)
LEMMA SendAgreement ==
  ASSUME Inductive, Agreement, PSend
  PROVE  Agreement'
<1> DEFINE message == [responder |-> upload.responder, position |-> upload.position,
                       backlog |-> upload.backlog]
<1>1. /\ Shapes /\ upload # Idle /\ ~upload.sent /\ upload \in UploadType
      /\ telemetry' = Append(telemetry, message)
      /\ upload' = [upload EXCEPT !.sent = TRUE]
      /\ UNCHANGED <<world, tick, drawn, refused, sending, reconciled, disputed>>
      /\ tables' = [tables EXCEPT !.outbox = Append(@, upload.responder)]
  BY DEF PSend, SendUpload, Inductive, Agreement
<1>2. Exists /\ tick.phase = "flush" /\ upload.backlog # << >>
  BY <1>1, ExistsThen DEF Shapes
<1>3. /\ upload' # Idle /\ upload'.sent /\ upload'.responder = upload.responder
      /\ upload'.backlog = upload.backlog
  <2>1. "sent" \in DOMAIN upload' /\ DOMAIN Idle = {}
    BY <1>1 DEF UploadType, Idle
  <2> QED BY <1>1, <2>1 DEF UploadType
<1>4. /\ message \in Message /\ message.responder = upload.responder
      /\ message.position = upload.position
  BY <1>1 DEF Message, UploadType
<1>5. /\ telemetry \in Seq(Message) /\ reconciled \in 0 .. Len(telemetry)
      /\ Len(telemetry) \in Nat /\ DOMAIN telemetry = 1 .. Len(telemetry)
  BY <1>1 DEF Shapes
<1> HIDE DEF message
<1>6. /\ telemetry' \in Seq(Message) /\ Len(telemetry') = Len(telemetry) + 1
      /\ DOMAIN telemetry' = 1 .. (Len(telemetry) + 1)
      /\ \A i \in DOMAIN telemetry : telemetry'[i] = telemetry[i]
      /\ telemetry'[Len(telemetry) + 1] = message
  BY <1>1, <1>4, <1>5
<1>7. \A i : i \in reconciled' + 1 .. Len(telemetry') <=>
        i \in reconciled + 1 .. Len(telemetry) \/ i = Len(telemetry) + 1
  BY <1>1, <1>5, <1>6
<1>8. reconciled + 1 .. Len(telemetry) \subseteq DOMAIN telemetry
  BY <1>5
<1>9. Uploading' = Uploading
  BY <1>1, <1>3, <1>4, <1>6, <1>7, <1>8 DEF Uploading
<1>10. Pending' = Pending
  <2>1. Arriving(message) = Arriving(upload)
    BY <1>4 DEF Arriving, ReconciliationEvents
  <2>2. Uploaded' = Uploaded \union Arriving(message)
    BY <1>6, <1>7, <1>8 DEF Uploaded
  <2>3. ToUpload = Arriving(upload) /\ ToUpload' = {}
    BY <1>1, <1>3 DEF ToUpload
  <2> QED BY <1>1, <2>1, <2>2, <2>3 DEF Pending
<1>11. /\ UNCHANGED <<Responders, Fires, Exists, WorldGround, Projecting>>
       /\ \A r : Unit(r)' = Unit(r)
  BY <1>1 DEF Responders, Fires, Exists, WorldGround, Unit, Projecting
<1>12. \A r : Whole(r)' => Whole(r)
  BY <1>1, <1>3, <1>5, <1>6, <1>11 DEF Whole, NeverDark
<1>13. Shapes'
  <2>1. \E i \in DOMAIN telemetry' : telemetry'[i].responder = upload'.responder
    BY <1>3, <1>4, <1>5, <1>6
  <2>2. reconciled' \in 0 .. Len(telemetry')
    BY <1>1, <1>5, <1>6
  <2>3. sending.tick # << >> => tick'.phase = "publish"
    BY <1>1 DEF Shapes
  <2>4. Uploading' \subseteq 1 .. drawn.responders
    BY <1>1, <1>9 DEF Shapes
  <2> QED BY <1>1, <1>2, <1>3, <1>6, <1>11, <2>1, <2>2, <2>3, <2>4, ShapesKept
<1>14. ASSUME Facts
       PROVE  Facts'
  <2>1. Steady
    BY <1>1, <1>11 DEF Steady
  <2>2. \A r \in Responders : Uploads(r)
    BY <1>10, <1>11, <1>12 DEF Uploads, SameButLog
  <2>3. Heads("RESPONDER_CREATED") =>
          /\ Unit(First.responder)'.local_log = << >>
          /\ First.responder \notin (Named(sending.telemetry) \union Uploading)'
    BY <1>1, <1>9, <1>11, <1>14 DEF Facts, Newborn, First, Unit
  <2> QED BY <1>1, <1>14, <2>1, <2>2, <2>3, UploadFacts
<1> QED BY <1>11, <1>13, <1>14 DEF Agreement

(* The backlog is the responder's again; the message may have been sent. *)
LEMMA FailAgreement ==
  ASSUME Inductive, Agreement, PFail \/ PRefuseRows
  PROVE  Agreement'
<1> DEFINE r == upload.responder
           log == upload.backlog \o Unit(r).local_log
<1>1. /\ Shapes /\ upload # Idle /\ upload \in UploadType /\ upload' = Idle
      /\ world' = IF r \in Responders THEN PutBacklog(world, r, upload.backlog) ELSE world
      /\ UNCHANGED <<tick, telemetry, drawn, refused, sending, reconciled, disputed>>
      /\ tables' = tables \/ tables' = [tables EXCEPT !.outbox = Front(@)]
  BY DEF PFail, PRefuseRows, FailUpload, RefuseRows, Rebuffer, Inductive, Agreement
<1>2. Exists /\ tick.phase = "flush" /\ upload.backlog # << >>
  BY <1>1, ExistsThen DEF Shapes
<1>3. /\ Exists' /\ WorldGround' = WorldGround /\ Responders' = Responders /\ Fires' = Fires
      /\ world'.fires = world.fires
      /\ \A q \in Responders :
           /\ SameButLog(Unit(q), Unit(q)')
           /\ q # r => Unit(q)'.local_log = Unit(q).local_log
           /\ q = r => Unit(q)'.local_log # << >>
  <2>1. CASE r \in Responders
    <3>1. world' = WithResponder(world, r, [Unit(r) EXCEPT !.local_log = log])
      <4>1. [Unit(r) EXCEPT !.local_log = upload.backlog \o @] = [Unit(r) EXCEPT !.local_log = log]
        OBVIOUS
      <4> QED BY <1>1, <2>1, <4>1 DEF PutBacklog, Unit
    <3>2. log # << >>
      <4>1. Unit(r).local_log \in Seq(Cell) /\ upload.backlog \in Seq(Cell)
        BY <1>1, <1>2, <2>1, HoldingUnit DEF UnitType, UploadType
      <4> QED BY <1>2, <4>1, LastOfConcat
    <3> HIDE DEF log
    <3> QED BY <1>2, <2>1, <3>1, <3>2, WithResponderIs
  <2>2. CASE r \notin Responders
    <3>1. world' = world
      BY <1>1, <2>2
    <3> QED BY <1>2, <2>2, <3>1 DEF Exists, WorldGround, Responders, Fires, Unit, SameButLog
  <2> QED BY <2>1, <2>2
<1>4. Uploading' \subseteq Uploading
  BY <1>1 DEF Uploading
<1>5. /\ Pending' \subseteq Pending
      /\ \A e \in Pending : e \in Pending' \/ e \in Arriving(upload)
  BY <1>1 DEF Pending, Uploaded, ToUpload
<1>6. Shapes'
  <2>1. Uploading' \subseteq 1 .. drawn.responders
    BY <1>1, <1>4 DEF Shapes
  <2> QED BY <1>1, <1>3, <2>1, ShapesKept DEF Shapes
<1>7. ASSUME Facts
      PROVE  Facts'
  <2>1. Steady
    <3>1. \A q \in Responders : Unit(q)'.assigned_fire = Unit(q).assigned_fire
      BY <1>3 DEF SameButLog
    <3>2. \E rows : tables' = [tables EXCEPT !.outbox = rows]
      <4>1. tables = [tables EXCEPT !.outbox = tables.outbox]
        BY <1>7 DEF Facts, Grounded, IsTables
      <4> QED BY <1>1, <4>1
    <3> QED BY <1>1, <1>3, <3>1, <3>2 DEF Steady
  <2>2. ASSUME NEW q \in Responders
        PROVE  Uploads(q)
    <3>1. /\ \A e \in Of(Pending', q) : e \in Of(Pending, q)
          /\ \A e \in Of(Pending, q) : e \in Of(Pending', q) \/ e \in Arriving(upload)
      BY <1>5 DEF Of
    <3>2. \A e \in Arriving(upload) : e.type \in Reconciling /\ e.responder = r
      BY ArrivingIs
    <3>3. q # r => Of(Pending, q) \subseteq Of(Pending', q)
      BY <3>1, <3>2 DEF Of
    <3>4. Whole(q)' => Whole(q)
      BY <1>1, <1>3 DEF Whole, NeverDark
    <3>5. SameButLog(Unit(q), Unit(q)')
          /\ (Unit(q)'.local_log = << >> => Unit(q).local_log = << >> /\ q # r)
      BY <1>3
    <3> QED BY <3>1, <3>2, <3>3, <3>4, <3>5 DEF Uploads
  <2>3. Heads("RESPONDER_CREATED") =>
          /\ Unit(First.responder)'.local_log = << >>
          /\ First.responder \notin (Named(sending.telemetry) \union Uploading)'
    <3> SUFFICES ASSUME Heads("RESPONDER_CREATED")
                 PROVE  /\ Unit(First.responder)'.local_log = << >>
                        /\ First.responder \notin Named(sending.telemetry)
                        /\ First.responder \notin Uploading'
      BY <1>1 DEF First
    <3>1. /\ First.responder \in Responders /\ Unit(First.responder).local_log = << >>
          /\ First.responder \notin Named(sending.telemetry) \union Uploading
      BY <1>7 DEF Facts, Grounded, Newborn
    <3>2. First.responder # r
      BY <1>1, <3>1 DEF Uploading
    <3>3. First' = First
      BY <1>1 DEF First
    <3> QED BY <1>3, <1>4, <3>1, <3>2, <3>3 DEF Unit
  <2> QED BY <1>1, <1>3, <1>7, <2>1, <2>2, <2>3, UploadFacts
<1> QED BY <1>1, <1>2, <1>6, <1>7 DEF Agreement, Projecting

(* The events of a message are on their way instead of the message. *)
LEMMA ReconcileAgreement ==
  ASSUME Inductive, Agreement, Reconcile
  PROVE  Agreement'
<1> DEFINE message == telemetry[reconciled + 1]
<1>1. /\ Shapes /\ sending.telemetry = << >> /\ reconciled < Len(telemetry)
      /\ reconciled' = reconciled + 1
      /\ sending' = [sending EXCEPT !.telemetry = ReconciliationEvents(message)]
      /\ UNCHANGED <<vars, tables, refused, disputed>>
  BY DEF Reconcile, Agreement
<1>2. UNCHANGED <<world, tick, upload, telemetry, drawn>>
  BY <1>1 DEF vars
<1>3. /\ telemetry \in Seq(Message) /\ reconciled \in Nat /\ Len(telemetry) \in Nat
      /\ sending = [task \in Tasks |-> sending[task]]
  BY <1>1 DEF Shapes
<1>4. telemetry # << >>
  BY <1>1, <1>3
<1>5. Exists
  BY <1>1, <1>4, ExistsThen
<1>6. /\ sending' = [task \in Tasks |-> sending'[task]]
      /\ sending.command' = sending.command /\ sending.tick' = sending.tick
      /\ sending.telemetry' = ReconciliationEvents(message)
  BY <1>1, <1>3, TaskNames
<1>7. \A i : i \in reconciled + 1 .. Len(telemetry) <=>
        i \in reconciled' + 1 .. Len(telemetry') \/ i = reconciled + 1
  BY <1>1, <1>2, <1>3
<1> HIDE DEF message
<1>8. Range(sending.telemetry) = {} /\ Range(sending.telemetry') = Arriving(message)
      /\ IsQueue(sending.telemetry')
  BY <1>1, <1>6, QueueFew, ArrivingTells DEF Arriving
<1>9. Pending' = Pending
  <2>1. Uploaded = Uploaded' \union Arriving(message)
    BY <1>2, <1>7 DEF Uploaded, message
  <2>2. ToUpload' = ToUpload
    BY <1>2 DEF ToUpload
  <2> QED BY <1>6, <1>8, <2>1, <2>2 DEF Pending
<1>10. Named(sending.telemetry') \subseteq {message.responder} /\ message.responder \in Uploading
  <2>1. Named(sending.telemetry') \subseteq {message.responder}
    BY <1>8, NamedIs, ArrivingIs
  <2> QED BY <1>7, <2>1 DEF Uploading, message
<1>11. Uploading' \subseteq Uploading
  BY <1>2, <1>7 DEF Uploading
<1>12. /\ UNCHANGED <<Responders, Fires, Exists, WorldGround, Projecting>>
       /\ \A r : Unit(r)' = Unit(r)
       /\ \A r : Whole(r)' = Whole(r)
  BY <1>1, <1>2 DEF Responders, Fires, Exists, WorldGround, Unit, Projecting, Whole, NeverDark
<1>13. Shapes'
  <2>1. \A task \in Tasks : IsQueue(sending'[task])
    BY <1>1, <1>6, <1>8, TaskNames DEF Shapes
  <2>2. \A e \in Range(sending.telemetry') : e.type \in Reconciling
    BY <1>8, ArrivingIs
  <2>3. Named(sending.tick') \union Named(sending.telemetry') \union Uploading'
          \subseteq 1 .. drawn'.responders
    BY <1>1, <1>2, <1>6, <1>10, <1>11 DEF Shapes
  <2>4. reconciled' \in 0 .. Len(telemetry')
    BY <1>1, <1>2, <1>3
  <2> QED BY <1>1, <1>2, <1>5, <1>6, <1>12, <2>1, <2>2, <2>3, <2>4 DEF Shapes
<1>14. ASSUME Facts
       PROVE  Facts'
  <2>1. Steady
    <3>1. tables' = [tables EXCEPT !.outbox = tables.outbox]
      BY <1>1, <1>14 DEF Facts, Grounded, IsTables
    <3> QED BY <1>6, <1>12, <3>1 DEF Steady
  <2>2. \A r \in Responders : Uploads(r)
    BY <1>9, <1>12 DEF Uploads, SameButLog
  <2>3. Heads("RESPONDER_CREATED") =>
          /\ Unit(First.responder)'.local_log = << >>
          /\ First.responder \notin (Named(sending.telemetry) \union Uploading)'
    BY <1>2, <1>6, <1>10, <1>11, <1>14 DEF Facts, Newborn, First, Unit
  <2> QED BY <1>1, <1>2, <1>6, <1>14, <2>1, <2>2, <2>3, UploadFacts
<1> QED BY <1>12, <1>13, <1>14 DEF Agreement
-----------------------------------------------------------------------------
(* 12. The tick. *)
LEMMA DarkMirrors ==
  ASSUME NEW u, NEW v, NEW row, NEW whole \in BOOLEAN, NEW S, Mirrors(u, row, whole, S),
         ~Tells(S, {"RESPONDER_MOVED"}), u.signal_status = "blocked",
         v.signal_status = "blocked", v.last_known = u.last_known, v.local_log # << >>
  PROVE  Mirrors(v, row, FALSE, S)
<1>1. ASSUME NEW e \in S
      PROVE  Truthful(v, FALSE, S, e)
  <2>1. Truthful(u, whole, S, e) /\ e.type # "RESPONDER_MOVED"
    BY DEF Mirrors, Tells
  <2> QED BY <2>1 DEF Truthful
<1> QED BY <1>1 DEF Mirrors

LEMMA NoMoves ==
  ASSUME Shapes, sending.tick = << >>, NEW r
  PROVE  ~Tells(Of(Pending, r), {"RESPONDER_MOVED"})
<1> SUFFICES ASSUME NEW e \in Pending, e.type = "RESPONDER_MOVED"
             PROVE  FALSE
  BY DEF Tells, Of
<1>1. /\ "RESPONDER_MOVED" \notin Reconciling
      /\ "RESPONDER_MOVED" \notin Lasting \union Following \union {"RESPONDER_DISPATCHED"}
  BY DEF Reconciling, Lasting, Following
<1>2. Range(sending.tick) = {}
  BY QueueFew
<1>3. e \notin Range(sending.command) /\ e \notin Range(sending.telemetry)
  BY <1>1 DEF Shapes
<1>4. e \notin Uploaded
  BY <1>1, ArrivingIs DEF Uploaded
<1>5. e \notin ToUpload
  BY <1>1, ArrivingIs DEF ToUpload
<1> QED BY <1>2, <1>3, <1>4, <1>5 DEF Pending

LEMMA TypesDiffer ==
  /\ Knowing \subseteq RM!OfResponder /\ Routing \subseteq RM!OfResponder
  /\ Reconciling \subseteq RM!OfResponder
  /\ RM!OfFire \intersect (RM!OfResponder \union {"RESPONDER_CREATED"}) = {}
  /\ (Knowing \union Reconciling) \intersect (RM!OfFire \union {"FIRE_CREATED"}) = {}
  /\ Lasting \intersect RM!OfResponder = {} /\ Lasting \intersect RM!OfFire = {}
  /\ Following \subseteq RM!OfResponder /\ "RESPONDER_DISPATCHED" \in RM!OfResponder
  /\ Following \intersect (RM!OfFire \union {"FIRE_CREATED", "RESPONDER_CREATED"}) = {}
BY DEF Knowing, Routing, Reconciling, Lasting, Following, RM!OfResponder, RM!OfFire

LEMMA TickAgreement ==
  ASSUME Inductive, Agreement, PTick
  PROVE  Agreement'
<1> DEFINE Moves(r) == Range(MoveEvents(world, r))
           Flames(f) == Range(FireEvents(Marched(world), f))
<1>1. /\ Shapes /\ Exists /\ tick.phase = "sleep" /\ tick' = At("publish")
      /\ UNCHANGED <<upload, telemetry, drawn, tables, refused, reconciled>>
      /\ sending' = [sending EXCEPT !.tick = out']
      /\ disputed' = (disputed \ Moved(out')) \union (Named(out') \intersect OnTheWay)
  BY DEF PTick, RunTick, Agreement
<1>2. /\ drawn \in DrawnType /\ Sound(world, drawn)
      /\ Responders = Ids(world.responders) /\ Fires = Ids(world.fires)
  BY <1>1, DrawnTyped DEF Inductive, Exists, Responders, Fires
<1>3. /\ Responders \subseteq 1 .. drawn.responders /\ Fires \subseteq 1 .. drawn.fires
      /\ \A f \in Fires : world.fires[f] \in FireType
      /\ world = [control |-> world.control, mountains |-> world.mountains,
                  fires |-> world.fires, responders |-> world.responders]
  BY <1>2 DEF Sound, NearlySound, IsMission, IsDict, Ids
<1>4. world' = Tick(world).mission /\ out' = Tick(world).events
  BY <1>1, RunTickTicks DEF PTick
<1>5. /\ world'.control = world.control /\ world'.mountains = world.mountains
      /\ Ids(world'.fires) = Ids(world.fires) /\ Ids(world'.responders) = Ids(world.responders)
      /\ \A r \in Ids(world.responders) :
           world'.responders[r] = TickResponder(world, world.responders[r])
      /\ \A f \in Ids(world.fires) :
           world'.fires[f] = TickFire(Marched(world), world.fires[f])
      /\ Marched(world).fires = world.fires
      /\ IsQueue(out')
      /\ \A e : e \in Range(out') <=>
           \/ \E r \in Ids(world.responders) : e \in Range(MoveEvents(world, r))
           \/ \E f \in Ids(world.fires) : e \in Range(FireEvents(Marched(world), f))
  BY <1>2, <1>4, TickTold
<1>6. Exists'
  BY <1>1, <1>2, <1>4, TickSound, MissionExists DEF Exists, Sound, NearlySound
<1>7. Responders' = Responders /\ Fires' = Fires /\ WorldGround' = WorldGround
  BY <1>1, <1>2, <1>5, <1>6 DEF Responders, Fires, WorldGround, Exists
<1>8. ASSUME NEW r \in Responders
      PROVE  /\ \A e \in Moves(r) : e.type \in Knowing /\ e.responder = r
             /\ Unit(r)'.assigned_fire = Unit(r).assigned_fire
             /\ Unit(r).status = "idle" => Unit(r)' = Unit(r) /\ Moves(r) = {}
             /\ Moves(r) = {} /\ Unit(r)' # Unit(r) =>
                  /\ Unit(r).signal_status = "blocked" /\ Unit(r)'.signal_status = "blocked"
                  /\ Unit(r)'.last_known = Unit(r).last_known /\ Unit(r)'.local_log # << >>
             /\ Unit(r)'.local_log = << >> => Unit(r).local_log = << >>
             /\ Moves(r) # {} => \A row : \A whole \in BOOLEAN :
                  (whole => Unit(r)'.local_log = << >>) => Mirrors(Unit(r)', row, whole, Moves(r))
  BY <1>2, <1>5, MoveTold DEF Unit
<1>9. ASSUME NEW f \in Fires
      PROVE  /\ \A e \in Flames(f) : e.type \in RM!OfFire /\ e.fire = f /\ Burns(world'.fires[f], e)
             /\ world'.fires[f].at = world.fires[f].at
             /\ Flames(f) = {} => world'.fires[f] = world.fires[f]
  <2>1. f \in Ids(Marched(world).fires) /\ Marched(world).fires[f] \in FireType
    BY <1>2, <1>3, <1>5
  <2> QED BY <1>2, <1>5, <2>1, BurnTold
<1>10. \A e : e \in Range(out') <=>
         (\E r \in Responders : e \in Moves(r)) \/ (\E f \in Fires : e \in Flames(f))
  BY <1>2, <1>5
<1> HIDE DEF Moves, Flames
<1>11. ASSUME NEW e \in Range(out')
       PROVE  /\ e.type \in Knowing \union RM!OfFire
              /\ e.type \in RM!OfResponder \union {"RESPONDER_CREATED"} =>
                   e.responder \in Responders /\ e \in Moves(e.responder)
              /\ e.type \in RM!OfFire \union {"FIRE_CREATED"} =>
                   e.fire \in Fires /\ e \in Flames(e.fire)
  BY <1>8, <1>9, <1>10, TypesDiffer
<1>12. /\ \A r \in Responders : r \in Named(out') <=> Moves(r) # {}
       /\ Named(out') \subseteq Responders /\ Moved(out') \subseteq Named(out')
       /\ \A f \in Fires : f \in Burning(out') <=> Flames(f) # {}
       /\ Burning(out') \subseteq Fires
  <2>1. Moved(out') \subseteq Named(out')
    BY NamedIs DEF RM!OfResponder
  <2>2. Named(out') \subseteq Responders /\ Burning(out') \subseteq Fires
    BY <1>11, NamedIs
  <2>3. \A r \in Responders : r \in Named(out') <=> Moves(r) # {}
    BY <1>8, <1>10, <1>11, NamedIs, TypesDiffer
  <2>4. \A f \in Fires : f \in Burning(out') <=> Flames(f) # {}
    BY <1>9, <1>10, <1>11, NamedIs, TypesDiffer
  <2> QED BY <2>1, <2>2, <2>3, <2>4
<1>13. /\ sending.tick = << >> /\ Range(sending.tick) = {} /\ upload = Idle
       /\ Burning(sending.tick) = {}
  <2>1. sending.tick = << >> /\ upload = Idle
    BY <1>1 DEF Shapes
  <2> QED BY <2>1, QueueFew, NamedIs
<1>14. /\ sending' = [task \in Tasks |-> sending'[task]]
       /\ sending.command' = sending.command /\ sending.telemetry' = sending.telemetry
       /\ sending.tick' = out'
  BY <1>1, TaskNames DEF Shapes
<1>15. Uploading' = Uploading /\ Uploaded' = Uploaded /\ ToUpload' = ToUpload
  BY <1>1 DEF Uploading, Uploaded, ToUpload
<1>16. Shapes'
  <2>1. \A task \in Tasks : IsQueue(sending'[task])
    BY <1>1, <1>5, <1>14, TaskNames DEF Shapes
  <2>2. \A e \in Range(sending.tick') : e.type \in Knowing \union RM!OfFire
    BY <1>11, <1>14
  <2>3. Named(sending.tick') \union Named(sending.telemetry') \union Uploading'
          \subseteq 1 .. drawn'.responders
    BY <1>1, <1>3, <1>12, <1>14, <1>15 DEF Shapes
  <2>4. Burning(sending.tick') \subseteq 1 .. drawn'.fires
    BY <1>1, <1>3, <1>12, <1>14
  <2>5. tick'.phase = "publish"
    BY <1>1 DEF At
  <2>6. upload' = Idle
    BY <1>1, <1>13
  <2> QED BY <1>1, <1>6, <1>7, <1>14, <2>1, <2>2, <2>3, <2>4, <2>5, <2>6 DEF Shapes
<1>17. ASSUME Facts
       PROVE  Facts'
  <2>1. Grounded /\ FiresMirrored /\ Assigned /\ Newborn /\ Mirrored
    BY <1>17 DEF Facts
  <2>2. Grounded' /\ Assigned'
    <3>1. tables' = [tables EXCEPT !.outbox = tables.outbox]
      BY <1>1, <2>1 DEF Grounded, IsTables
    <3>2. Steady
      BY <1>7, <1>8, <1>14, <3>1 DEF Steady
    <3> QED BY <1>1, <2>1, <3>2, SteadyGrounded
  <2>3. First' = First /\ \A type : Heads(type)' <=> Heads(type)
    BY <1>14 DEF First, Heads
  <2>4. FiresMirrored'
    <3>1. ASSUME NEW f \in Fires \intersect DOMAIN tables.fires
          PROVE  /\ tables.fires[f].at = world'.fires[f].at
                 /\ f \notin Burning(out') => tables.fires[f] = world'.fires[f]
      BY <1>9, <1>12, <1>13, <2>1 DEF FiresMirrored
    <3>2. ASSUME NEW e \in Range(out'), e.type \in RM!OfFire, e.fire \in Fires
          PROVE  Burns(world'.fires[e.fire], e)
      BY <1>9, <1>11, <3>2
    <3>3. ASSUME Heads("FIRE_CREATED")
          PROVE  /\ First.row.at = world'.fires[First.fire].at /\ IsFireRow(First.row)
                 /\ First.fire \notin Burning(out') => First.row = world'.fires[First.fire]
      <4>1. First.fire \in Fires
        BY <2>1, <3>3 DEF Grounded
      <4> QED BY <1>9, <1>12, <1>13, <2>1, <3>3, <4>1 DEF FiresMirrored
    <3> QED BY <1>1, <1>7, <1>14, <2>3, <3>1, <3>2, <3>3 DEF FiresMirrored
  <2>5. Newborn'
    <3> SUFFICES ASSUME Heads("RESPONDER_CREATED"), NEW r, r = First.responder
                 PROVE  /\ First.row = ResponderResponse(Unit(r)') /\ Tail(sending.command) = << >>
                        /\ Unit(r)'.status = "idle" /\ Unit(r)'.local_log = << >>
                        /\ r \notin Named(out') \union Named(sending.telemetry) \union Uploading
      BY <1>14, <1>15, <2>3 DEF Newborn, Unit
    <3>1. r \in Responders
      BY <2>1 DEF Grounded
    <3>2. /\ First.row = ResponderResponse(Unit(r)) /\ Tail(sending.command) = << >>
          /\ Unit(r).status = "idle" /\ Unit(r).local_log = << >>
          /\ r \notin Named(sending.telemetry) \union Uploading
      BY <2>1 DEF Newborn
    <3> QED BY <1>8, <1>12, <3>1, <3>2
  <2>6. Mirrored'
    <3> SUFFICES ASSUME NEW r \in (Responders \intersect DOMAIN tables.responders) \ disputed'
                 PROVE  Mirrors(Unit(r)', Row(r), Whole(r)', Of(Pending', r))
      BY <1>1, <1>7 DEF Mirrored, Row
    <3>1. Whole(r) \in BOOLEAN /\ Whole(r)' \in BOOLEAN /\ (Whole(r)' => Unit(r)'.local_log = << >>)
      BY DEF Whole, NeverDark
    <3>2. Of(Range(out'), r) = Moves(r)
      BY <1>8, <1>10, <1>11, TypesDiffer DEF Of
    <3>3. Of(Pending', r) = Of(Pending, r) \union Moves(r)
      <4>1. Pending' = Pending \union Range(out')
        BY <1>13, <1>14, <1>15 DEF Pending
      <4> QED BY <3>2, <4>1 DEF Of
    <3>4. CASE Moves(r) = {}
      <4>1. r \notin disputed
        BY <1>1, <1>12, <3>4
      <4>2. Mirrors(Unit(r), Row(r), Whole(r), Of(Pending, r))
        BY <2>1, <4>1 DEF Mirrored
      <4>3. CASE Unit(r)' = Unit(r)
        <5>1. Whole(r)' = Whole(r)
          BY <1>1, <4>3 DEF Whole, NeverDark
        <5> QED BY <3>3, <3>4, <4>2, <4>3, <5>1
      <4>4. CASE Unit(r)' # Unit(r)
        <5>1. /\ Unit(r).signal_status = "blocked" /\ Unit(r)'.signal_status = "blocked"
              /\ Unit(r)'.last_known = Unit(r).last_known /\ Unit(r)'.local_log # << >>
          BY <1>8, <3>4, <4>4
        <5>2. Mirrors(Unit(r)', Row(r), FALSE, Of(Pending, r))
          BY <1>1, <1>13, <3>1, <4>2, <5>1, DarkMirrors, NoMoves
        <5> QED BY <3>1, <3>3, <3>4, <5>1, <5>2
      <4> QED BY <4>3, <4>4
    <3>5. CASE Moves(r) # {}
      <4>1. r \notin OnTheWay
        BY <1>1, <1>12, <3>5
      <4>2. Of(Pending', r) = Moves(r)
        BY <3>3, <4>1, NothingComing
      <4> QED BY <1>8, <3>1, <3>5, <4>2
    <3> QED BY <3>4, <3>5
  <2> QED BY <2>2, <2>4, <2>5, <2>6 DEF Facts
<1> QED BY <1>1, <1>6, <1>16, <1>17 DEF Agreement, Projecting
-----------------------------------------------------------------------------
(* 13. Commands.  What one must report of what it does. *)
Reported(r) ==
  /\ Of(Range(out'), r) = {} => Unit(r)' = Unit(r)
  /\ Unit(r)'.local_log = Unit(r).local_log
  /\ Unit(r)'.assigned_fire = Unit(r).assigned_fire \/ Tells(Of(Range(out'), r), Assigning)
  /\ \A row : \A whole \in BOOLEAN :
       Mirrors(Unit(r), row, whole, {}) => Mirrors(Unit(r)', row, whole, Of(Range(out'), r))

Introduced(e) ==
  /\ e.type = "FIRE_CREATED" =>
       /\ e.fire \in Fires' \ Fires
       /\ e.row = world'.fires[e.fire] /\ IsFireRow(e.row)
  /\ e.type = "RESPONDER_CREATED" =>
       /\ e.responder \in Responders' \ Responders
       /\ e.row = ResponderResponse(world'.responders[e.responder]) /\ Tail(out') = << >>
       /\ world'.responders[e.responder].status = "idle"
       /\ world'.responders[e.responder].local_log = << >>

Reports ==
  /\ Exists'
  /\ IsQueue(out')
  /\ \A e \in Range(out') :
       /\ e.type \in Lasting \union Following \union {"RESPONDER_DISPATCHED"}
       /\ e.type \in RM!OfResponder => e.responder \in Responders'
       /\ e.type = "RESPONDER_DISPATCHED" =>
            /\ e.fire \in Fires'
            /\ \/ world'.responders[e.responder].assigned_fire = e.fire
               \/ Tells(Of(Range(out'), e.responder), {"ROUTE_NOT_FOUND"})
       /\ e.type = "ROUTE_NOT_FOUND" => world'.responders[e.responder].assigned_fire = NoFire
  /\ out' # << >> => \A e \in Range(Tail(out')) : e.type \in Following
  /\ out' # << >> => Introduced(Head(out'))
  /\ WorldGround' = IF out' = << >> THEN WorldGround ELSE Changed(WorldGround, Head(out'))
  /\ \A f \in Fires \intersect Fires' : world'.fires[f] = world.fires[f]
  /\ \A r \in Responders \intersect Responders' : Reported(r)
  /\ 1 .. drawn.fires \subseteq 1 .. drawn'.fires
  /\ 1 .. drawn.responders \subseteq 1 .. drawn'.responders
  /\ \A f \in Fires' \ Fires : f \notin 1 .. drawn.fires
  /\ \A r \in Responders' \ Responders : r \notin 1 .. drawn.responders

LEMMA ReportsAgreement ==
  ASSUME Agreement, Exists, PCommand, Reports
  PROVE  Agreement'
<1>1. /\ Shapes /\ sending.command = << >>
      /\ sending' = [sending EXCEPT !.command = out']
      /\ disputed' = disputed \union (Named(out') \intersect OnTheWay)
      /\ UNCHANGED <<tables, refused, reconciled>>
  BY DEF PCommand, Agreement
<1>2. UNCHANGED <<tick, upload, telemetry>>
  BY DEF PCommand, Command, Handle, HandleCreateMission, HandleOther, HandleReset,
    HandlePlaceFire, HandlePlaceMountain, HandleRemoveMountain, HandleCreateResponder,
    HandleMoveMissionControl, HandleDispatch, flushing
<1>3. /\ sending' = [task \in Tasks |-> sending'[task]]
      /\ sending.tick' = sending.tick /\ sending.telemetry' = sending.telemetry
      /\ sending.command' = out'
  BY <1>1, TaskNames DEF Shapes
<1>4. /\ Uploading' = Uploading /\ Uploaded' = Uploaded /\ ToUpload' = ToUpload
      /\ Range(sending.command) = {}
  BY <1>1, <1>2, QueueFew DEF Uploading, Uploaded, ToUpload
<1>5. Pending' = Pending \union Range(out')
  BY <1>3, <1>4 DEF Pending
<1>6. Shapes'
  <2>1. \A task \in Tasks : IsQueue(sending'[task])
    BY <1>1, <1>3, TaskNames DEF Reports, Shapes
  <2>2. /\ \A e \in Range(sending.command') :
             e.type \in Lasting \union Following \union {"RESPONDER_DISPATCHED"}
        /\ sending.command' # << >> => \A e \in Range(Tail(sending.command')) : e.type \in Following
        /\ \A e \in Range(sending.command') :
             /\ e.type \in RM!OfResponder => e.responder \in Responders'
             /\ e.type = "RESPONDER_DISPATCHED" => e.fire \in Fires'
    BY <1>3 DEF Reports
  <2>3. Named(sending.tick') \union Named(sending.telemetry') \union Uploading'
          \subseteq 1 .. drawn'.responders
    BY <1>1, <1>3, <1>4 DEF Shapes, Reports
  <2>4. Burning(sending.tick') \subseteq 1 .. drawn'.fires
    BY <1>1, <1>3 DEF Shapes, Reports
  <2>5. Exists'
    BY DEF Reports
  <2> QED BY <1>1, <1>2, <1>3, <2>1, <2>2, <2>3, <2>4, <2>5 DEF Shapes
<1>7. ASSUME Facts
      PROVE  Facts'
  <2>1. Grounded /\ FiresMirrored /\ Assigned /\ Newborn /\ Mirrored
    BY <1>7 DEF Facts
  <2>2. /\ WorldGround = Ground(tables)
        /\ DOMAIN tables.fires = Fires /\ DOMAIN tables.responders = Responders
    <3>1. WorldGround = Ground(tables)
      BY <1>1, <2>1 DEF Grounded
    <3> QED BY <3>1 DEF WorldGround, Ground
  <2>3. /\ First' = Head(out') /\ \A type : Heads(type)' <=> out' # << >> /\ Head(out').type = type
    BY <1>3 DEF First, Heads
  <2>4. Grounded'
    <3>1. WorldGround' = IF out' = << >> THEN Ground(tables)
                         ELSE Changed(Ground(tables), Head(out'))
      BY <2>2 DEF Reports
    <3>2. /\ Heads("FIRE_CREATED")' => First.fire' \in Fires' \ DOMAIN tables.fires
          /\ Heads("RESPONDER_CREATED")' =>
               First.responder' \in Responders' \ DOMAIN tables.responders
      BY <2>2, <2>3 DEF Reports, Introduced
    <3> QED BY <1>1, <1>3, <2>1, <2>3, <3>1, <3>2 DEF Grounded, Row
  <2>5. FiresMirrored'
    <3>1. ASSUME NEW f \in Fires' \intersect DOMAIN tables.fires
          PROVE  /\ tables.fires[f].at = world'.fires[f].at
                 /\ f \notin Burning(sending.tick) => tables.fires[f] = world'.fires[f]
      BY <2>1, <2>2 DEF FiresMirrored, Reports
    <3>2. ASSUME NEW e \in Range(sending.tick), e.type \in RM!OfFire, e.fire \in Fires'
          PROVE  Burns(world'.fires[e.fire], e)
      <4>1. e.fire \in 1 .. drawn.fires
        BY <1>1, <3>2, NamedIs DEF Shapes
      <4>2. e.fire \in Fires
        BY <3>2, <4>1 DEF Reports
      <4> QED BY <2>1, <3>2, <4>2 DEF FiresMirrored, Reports
    <3>3. ASSUME out' # << >>, Head(out').type = "FIRE_CREATED"
          PROVE  /\ Head(out').row.at = world'.fires[Head(out').fire].at
                 /\ IsFireRow(Head(out').row)
                 /\ Head(out').row = world'.fires[Head(out').fire]
      BY <3>3 DEF Reports, Introduced
    <3> QED BY <1>1, <1>3, <2>3, <3>1, <3>2, <3>3 DEF FiresMirrored
  <2>6. Assigned'
    <3>1. ASSUME NEW r \in Responders' \intersect DOMAIN tables.responders
          PROVE  \/ Row(r).assigned_fire = Unit(r)'.assigned_fire
                 \/ Tells(Of(Range(out'), r), Assigning)
      <4>1. r \in Responders /\ Reported(r)
        BY <2>2 DEF Reports
      <4>2. ~Tells(Of(Range(sending.command), r), Assigning)
        BY <1>4 DEF Tells, Of
      <4>3. Row(r).assigned_fire = Unit(r).assigned_fire
        BY <2>1, <4>1, <4>2 DEF Assigned
      <4> QED BY <4>1, <4>3 DEF Reported
    <3>2. ASSUME NEW e \in Range(out')
          PROVE  /\ e.type = "RESPONDER_DISPATCHED" =>
                      \/ world'.responders[e.responder].assigned_fire = e.fire
                      \/ Tells(Of(Range(out'), e.responder), {"ROUTE_NOT_FOUND"})
                 /\ e.type = "ROUTE_NOT_FOUND" =>
                      world'.responders[e.responder].assigned_fire = NoFire
      BY DEF Reports
    <3> QED BY <1>1, <1>3, <3>1, <3>2 DEF Assigned, Row, Unit
  <2>7. Newborn'
    <3> SUFFICES ASSUME out' # << >>, Head(out').type = "RESPONDER_CREATED",
                        NEW r, r = Head(out').responder
                 PROVE  /\ Head(out').row = ResponderResponse(world'.responders[r])
                        /\ Tail(out') = << >>
                        /\ world'.responders[r].status = "idle"
                        /\ world'.responders[r].local_log = << >>
                        /\ r \notin
                             Named(sending.tick) \union Named(sending.telemetry) \union Uploading
      BY <1>3, <1>4, <2>3 DEF Newborn, Unit
    <3>1. Introduced(Head(out')) /\ r \in Responders' \ Responders /\ r \notin 1 .. drawn.responders
      BY DEF Reports, Introduced
    <3> QED BY <1>1, <3>1 DEF Introduced, Shapes
  <2>8. Mirrored'
    <3> SUFFICES ASSUME NEW r \in (Responders' \intersect DOMAIN tables.responders) \ disputed'
                 PROVE  Mirrors(Unit(r)', Row(r), Whole(r)', Of(Pending', r))
      BY <1>1 DEF Mirrored, Row
    <3>1. r \in Responders /\ Reported(r) /\ r \notin disputed
      BY <1>1, <2>2 DEF Reports
    <3>2. Mirrors(Unit(r), Row(r), Whole(r), Of(Pending, r))
      BY <2>1, <2>2, <3>1 DEF Mirrored
    <3>3. Whole(r)' = Whole(r) /\ Whole(r) \in BOOLEAN
      BY <1>2, <3>1 DEF Whole, NeverDark, Reported
    <3>4. Of(Pending', r) = Of(Pending, r) \union Of(Range(out'), r)
      BY <1>5 DEF Of
    <3>5. CASE Of(Range(out'), r) = {}
      BY <3>1, <3>2, <3>3, <3>4, <3>5 DEF Reported
    <3>6. CASE Of(Range(out'), r) # {}
      <4>1. r \in Named(out')
        BY <3>6, NamedIs DEF Of
      <4>2. Of(Pending, r) = {}
        BY <1>1, <4>1, NothingComing
      <4> QED BY <3>1, <3>2, <3>3, <3>4, <4>2 DEF Reported
    <3> QED BY <3>5, <3>6
  <2> QED BY <2>4, <2>5, <2>6, <2>7, <2>8 DEF Facts
<1> QED BY <1>1, <1>6, <1>7 DEF Agreement, Projecting

LEMMA WorldParts ==
  ASSUME Inductive, Exists
  PROVE  /\ drawn \in DrawnType /\ Sound(world, drawn)
         /\ Responders = Ids(world.responders) /\ Fires = Ids(world.fires)
         /\ world = [control |-> world.control, mountains |-> world.mountains,
                     fires |-> world.fires, responders |-> world.responders]
         /\ world.fires = [f \in Fires |-> world.fires[f]]
         /\ world.responders = [r \in Responders |-> Unit(r)]
         /\ Responders \subseteq 1 .. drawn.responders /\ Fires \subseteq 1 .. drawn.fires
         /\ \A r \in Responders : Unit(r) \in UnitType
<1>1. /\ drawn \in DrawnType /\ Sound(world, drawn)
      /\ Responders = Ids(world.responders) /\ Fires = Ids(world.fires)
  BY DrawnTyped DEF Inductive, Exists, Responders, Fires
<1> QED BY <1>1 DEF Sound, NearlySound, IsMission, IsDict, Ids, Unit

(* A command with one event, about no responder. *)
LEMMA OneEventReports ==
  ASSUME Exists', NEW e, out' = <<e>>, e.type \in Lasting, Introduced(e),
         WorldGround' = Changed(WorldGround, e),
         \A f \in Fires \intersect Fires' : world'.fires[f] = world.fires[f],
         \A r \in Responders \intersect Responders' : Unit(r)' = Unit(r),
         1 .. drawn.fires \subseteq 1 .. drawn'.fires,
         1 .. drawn.responders \subseteq 1 .. drawn'.responders,
         \A f \in Fires' \ Fires : f \notin 1 .. drawn.fires,
         \A r \in Responders' \ Responders : r \notin 1 .. drawn.responders
  PROVE  Reports
<1>1. /\ IsQueue(out') /\ Range(out') = {e} /\ Head(out') = e /\ Tail(out') = << >>
      /\ out' # << >> /\ Range(<< >>) = {}
  BY QueueFew
<1>2. /\ e.type \notin RM!OfResponder /\ e.type # "RESPONDER_DISPATCHED"
      /\ e.type # "ROUTE_NOT_FOUND"
  BY DEF Lasting, RM!OfResponder
<1>3. \A r : Of(Range(out'), r) = {}
  BY <1>1, <1>2 DEF Of
<1>4. \A r \in Responders \intersect Responders' : Reported(r)
  BY <1>3 DEF Reported
<1> QED BY <1>1, <1>2, <1>4 DEF Reports

LEMMA CreateReports ==
  ASSUME Inductive, Exists, HandleCreateMission
  PROVE  Reports
<1> DEFINE e == [type |-> "MISSION_CREATED"]
<1>1. world' = world /\ out' = <<e>> /\ drawn' = drawn
  BY DEF HandleCreateMission, Becomes, CreateMission, Outcome, Exists
<1>2. e.type = "MISSION_CREATED" /\ e.type \in Lasting
  BY DEF Lasting
<1> HIDE DEF e
<1>3. UNCHANGED <<Exists, Responders, Fires, WorldGround>> /\ \A r : Unit(r)' = Unit(r)
  BY <1>1 DEF Exists, Responders, Fires, WorldGround, Unit
<1>4. Introduced(e)
  BY <1>2 DEF Introduced
<1>5. WorldGround' = Changed(WorldGround, e)
  BY <1>2, <1>3 DEF Changed
<1> QED BY <1>1, <1>2, <1>3, <1>4, <1>5, OneEventReports

LEMMA NewMissionIs ==
  /\ NewMission # NoMission /\ Ids(NewMission.fires) = {} /\ Ids(NewMission.responders) = {}
  /\ NewMission.control = Spawn /\ NewMission.mountains = {}
<1>1. "control" \in DOMAIN NewMission /\ DOMAIN NoMission = {}
  BY DEF NewMission, NoMission
<1> QED BY <1>1 DEF NewMission, EmptyDict, Ids

LEMMA ResetReports ==
  ASSUME Inductive, Exists, HandleReset
  PROVE  Reports
<1> DEFINE e == [type |-> "MISSION_RESET", cell |-> Spawn]
<1>1. world' = NewMission /\ out' = <<e>> /\ drawn' = drawn
  BY DEF HandleReset, Becomes, ResetMission, Outcome
<1>2. e.type = "MISSION_RESET" /\ e.type \in Lasting /\ e.cell = Spawn
  BY DEF Lasting
<1> HIDE DEF e
<1>3. Exists' /\ Responders' = {} /\ Fires' = {}
      /\ WorldGround' = [control |-> Spawn, cells |-> {}, fires |-> {}, responders |-> {}]
  BY <1>1, NewMissionIs DEF Exists, Responders, Fires, WorldGround
<1>4. Introduced(e)
  BY <1>2 DEF Introduced
<1>5. WorldGround' = Changed(WorldGround, e)
  BY <1>2, <1>3 DEF Changed
<1> QED BY <1>1, <1>2, <1>3, <1>4, <1>5, OneEventReports

LEMMA PlaceFireReports ==
  ASSUME Inductive, Exists, NEW cell, NEW intensity, HandlePlaceFire(cell, intensity)
  PROVE  Reports
<1> DEFINE f == drawn.fires + 1
           row == NewFire(cell, intensity)
           e == [type |-> "FIRE_CREATED", fire |-> f, row |-> row]
<1>1. /\ world' = [world EXCEPT !.fires = Put(world.fires, f, row)]
      /\ out' = <<e>> /\ drawn' = [drawn EXCEPT !.fires = @ + 1]
  BY DEF HandlePlaceFire, Becomes, PlaceFire, Outcome
<1>2. e.type = "FIRE_CREATED" /\ e.type \in Lasting /\ e.fire = f /\ e.row = row
  BY DEF Lasting
<1>3. IsFireRow(row)
  BY DEF IsFireRow, NewFire
<1> HIDE DEF e, row
<1>4. drawn \in DrawnType /\ drawn.fires \in Nat /\ drawn.responders \in Nat
  BY WorldParts DEF DrawnType
<1>5. drawn'.fires = f /\ drawn'.responders = drawn.responders /\ f \notin 1 .. drawn.fires
      /\ 1 .. drawn.fires \subseteq 1 .. f
  BY <1>1, <1>4 DEF DrawnType
<1>6. /\ world'.control = world.control /\ world'.mountains = world.mountains
      /\ world'.responders = world.responders /\ world'.fires = Put(world.fires, f, row)
      /\ world' = [control |-> world'.control, mountains |-> world'.mountains,
                   fires |-> world'.fires, responders |-> world'.responders]
  BY <1>1, WorldParts
<1>7. world' # NoMission
  <2>1. "control" \in DOMAIN world' /\ DOMAIN NoMission = {}
    BY <1>6 DEF NoMission
  <2> QED BY <2>1
<1>8. /\ Exists' /\ Responders' = Responders /\ Fires' = Fires \union {f}
      /\ \A r : Unit(r)' = Unit(r)
  BY <1>6, <1>7, WorldParts DEF Exists, Responders, Fires, Unit, Put, Ids
<1>9. f \notin Fires
  BY <1>5, WorldParts
<1>10. /\ \A i \in Fires : world'.fires[i] = world.fires[i]
       /\ world'.fires[f] = row
  BY <1>6, <1>9, WorldParts DEF Put, Ids
<1>11. Introduced(e)
  BY <1>2, <1>3, <1>8, <1>9, <1>10 DEF Introduced
<1>12. WorldGround' = Changed(WorldGround, e)
  BY <1>2, <1>6, <1>8 DEF WorldGround, Changed
<1> QED BY <1>1, <1>2, <1>5, <1>8, <1>10, <1>11, <1>12, OneEventReports

LEMMA CreateResponderReports ==
  ASSUME Inductive, Exists, NEW cell, HandleCreateResponder(cell)
  PROVE  Reports
<1> DEFINE r == drawn.responders + 1
           u == NewResponder(cell)
           row == ResponderResponse(u)
           e == [type |-> "RESPONDER_CREATED", responder |-> r, row |-> row]
<1>1. /\ world' = [world EXCEPT !.responders = Put(world.responders, r, u)]
      /\ out' = <<e>> /\ drawn' = [drawn EXCEPT !.responders = @ + 1]
  BY DEF HandleCreateResponder, Becomes, CreateResponder, Outcome
<1>2. e.type = "RESPONDER_CREATED" /\ e.type \in Lasting /\ e.responder = r /\ e.row = row
  BY DEF Lasting
<1>3. u.status = "idle" /\ u.local_log = << >>
  BY DEF NewResponder
<1> HIDE DEF e, u
<1>4. drawn \in DrawnType /\ drawn.fires \in Nat /\ drawn.responders \in Nat
  BY WorldParts DEF DrawnType
<1>5. drawn'.responders = r /\ drawn'.fires = drawn.fires /\ r \notin 1 .. drawn.responders
      /\ 1 .. drawn.responders \subseteq 1 .. r
  BY <1>1, <1>4 DEF DrawnType
<1>6. /\ world'.control = world.control /\ world'.mountains = world.mountains
      /\ world'.fires = world.fires /\ world'.responders = Put(world.responders, r, u)
      /\ world' = [control |-> world'.control, mountains |-> world'.mountains,
                   fires |-> world'.fires, responders |-> world'.responders]
  BY <1>1, WorldParts
<1>7. world' # NoMission
  <2>1. "control" \in DOMAIN world' /\ DOMAIN NoMission = {}
    BY <1>6 DEF NoMission
  <2> QED BY <2>1
<1>8. Exists' /\ Fires' = Fires /\ Responders' = Responders \union {r}
  BY <1>6, <1>7, WorldParts DEF Exists, Responders, Fires, Put, Ids
<1>9. r \notin Responders
  BY <1>5, WorldParts
<1>10. /\ \A q \in Responders : Unit(q)' = Unit(q)
       /\ world'.responders[r] = u
  BY <1>6, <1>9, WorldParts DEF Put, Ids, Unit
<1>11. Introduced(e)
  <2>1. Tail(out') = << >>
    BY <1>1, QueueFew
  <2> QED BY <1>2, <1>3, <1>8, <1>9, <1>10, <2>1 DEF Introduced
<1>12. WorldGround' = Changed(WorldGround, e)
  BY <1>2, <1>6, <1>8 DEF WorldGround, Changed
<1>13. \A f \in Fires \intersect Fires' : world'.fires[f] = world.fires[f]
  BY <1>6
<1> QED BY <1>1, <1>2, <1>5, <1>8, <1>10, <1>11, <1>12, <1>13, OneEventReports

(* Mountains and moves of mission control: the change, then the flips. *)
LEMMA TerrainReports ==
  ASSUME Inductive, Exists, NEW m, NEW e, NearlySound(m, drawn),
         m.fires = world.fires, m.responders = world.responders,
         e.type \in {"MOUNTAIN_PLACED", "MOUNTAIN_REMOVED", "MISSION_CONTROL_MOVED"},
         [WorldGround EXCEPT !.control = m.control, !.cells = m.mountains]
           = Changed(WorldGround, e),
         Becomes(ThenRecompute(m, e)), drawn' = drawn
  PROVE  Reports
<1> DEFINE Flips(r) == Range(SignalEvent(m, r))
<1>1. /\ drawn \in DrawnType
      /\ Responders = Ids(world.responders) /\ Fires = Ids(world.fires)
      /\ \A r \in Responders : Unit(r) \in UnitType
  BY WorldParts
<1>2. world' = ThenRecompute(m, e).mission /\ out' = ThenRecompute(m, e).events
  BY DEF Becomes
<1>3. /\ world'.control = m.control /\ world'.mountains = m.mountains /\ world'.fires = m.fires
      /\ Ids(world'.responders) = Ids(m.responders)
      /\ \A r \in Ids(m.responders) : world'.responders[r] = Resignal(m, m.responders[r])
      /\ IsQueue(out') /\ out' # << >> /\ Head(out') = e
      /\ \A d : d \in Range(Tail(out')) <=>
           \E r \in Ids(m.responders) : d \in Range(SignalEvent(m, r))
  BY <1>1, <1>2, RecomputeTold, Z3
<1>4. world' # NoMission
  <2>1. Sound(world', drawn)
    BY <1>1, <1>2, ThenRecomputeSound
  <2> QED BY <2>1, MissionExists DEF Sound, NearlySound
<1>5. Exists' /\ Responders' = Responders /\ Fires' = Fires
  BY <1>1, <1>3, <1>4 DEF Exists, Responders, Fires
<1>6. ASSUME NEW r \in Responders
      PROVE  /\ \A d \in Flips(r) : d.type \in {"SIGNAL_LOST", "SIGNAL_RESTORED"} /\ d.responder = r
             /\ Unit(r)'.assigned_fire = Unit(r).assigned_fire
             /\ Unit(r)'.local_log = Unit(r).local_log
             /\ Flips(r) = {} => Unit(r)' = Unit(r)
             /\ \A row : \A whole \in BOOLEAN :
                  Mirrors(Unit(r), row, whole, {}) => Mirrors(Unit(r)', row, whole, Flips(r))
  <2>1. /\ r \in Ids(m.responders) /\ Unit(r) = m.responders[r]
        /\ Unit(r)' = Resignal(m, Unit(r)) /\ Unit(r) \in UnitType
    BY <1>1, <1>3 DEF Unit
  <2>2. Unit(r)'.local_log = Unit(r).local_log
    BY <2>1 DEF Resignal, UnitType
  <2> QED BY <2>1, <2>2, SignalTold
<1>7. \A d : d \in Range(Tail(out')) <=> \E r \in Responders : d \in Flips(r)
  BY <1>1, <1>3
<1> HIDE DEF Flips
<1>8. Range(out') = {e} \union Range(Tail(out'))
  BY <1>3, QueueRest
<1>9. e.type \in Lasting /\ e.type \notin RM!OfResponder
      /\ e.type \notin {"FIRE_CREATED", "RESPONDER_CREATED"}
  BY DEF Lasting, RM!OfResponder
<1>10. ASSUME NEW d \in Range(Tail(out'))
       PROVE  /\ d.type \in {"SIGNAL_LOST", "SIGNAL_RESTORED"} /\ d.responder \in Responders
              /\ d \in Flips(d.responder)
  BY <1>6, <1>7
<1>11. ASSUME NEW r \in Responders
       PROVE  Of(Range(out'), r) = Flips(r)
  <2>1. \A d \in Flips(r) : d \in Range(out') /\ d.type \in RM!OfResponder /\ d.responder = r
    BY <1>6, <1>7, <1>8 DEF RM!OfResponder
  <2>2. \A d \in Range(out') : d.type \in RM!OfResponder /\ d.responder = r => d \in Flips(r)
    BY <1>8, <1>9, <1>10
  <2> QED BY <2>1, <2>2 DEF Of
<1>12. \A r \in Responders \intersect Responders' : Reported(r)
  BY <1>6, <1>11 DEF Reported
<1>13. ASSUME NEW d \in Range(out')
       PROVE  /\ d.type \in Lasting \union Following
              /\ d.type \notin {"RESPONDER_DISPATCHED", "ROUTE_NOT_FOUND"}
              /\ d.type \in RM!OfResponder => d.responder \in Responders
  BY <1>8, <1>9, <1>10 DEF Following, Lasting
<1>14. WorldGround' = Changed(WorldGround, e)
  <2>1. WorldGround' = [WorldGround EXCEPT !.control = m.control, !.cells = m.mountains]
    BY <1>3, <1>5 DEF WorldGround
  <2> QED BY <2>1
<1>15. \A d \in Range(Tail(out')) : d.type \in Following
  BY <1>10 DEF Following
<1>16. Introduced(e)
  BY <1>9 DEF Introduced
<1>17. \A f \in Fires : world'.fires[f] = world.fires[f]
  BY <1>3
<1> QED BY <1>3, <1>5, <1>12, <1>13, <1>14, <1>15, <1>16, <1>17 DEF Reports

LEMMA DispatchReports ==
  ASSUME Inductive, Exists, NEW r, NEW f, HandleDispatch(r, f)
  PROVE  Reports
<1>1. /\ drawn \in DrawnType /\ Sound(world, drawn)
      /\ Responders = Ids(world.responders) /\ Fires = Ids(world.fires)
  BY WorldParts
<1>2. drawn' = drawn
  BY DEF HandleDispatch
<1>3. PICK outcome \in Dispatches(world, r, f) : world' = outcome.mission /\ out' = outcome.events
  BY DEF HandleDispatch, Becomes
<1>4. CASE world' = world /\ out' = << >>
  <2>1. UNCHANGED <<Exists, Responders, Fires, WorldGround>> /\ \A q : Unit(q)' = Unit(q)
    BY <1>4 DEF Exists, Responders, Fires, WorldGround, Unit
  <2>2. IsQueue(out') /\ Range(out') = {}
    BY <1>4, QueueFew
  <2>3. \A q \in Responders \intersect Responders' : Reported(q)
    BY <2>1, <2>2 DEF Reported, Of
  <2> QED BY <1>2, <1>4, <2>1, <2>2, <2>3 DEF Reports
<1>5. ASSUME NEW second,
             /\ r \in Ids(world.responders) /\ f \in Ids(world.fires)
             /\ world'.control = world.control /\ world'.mountains = world.mountains
             /\ world'.fires = world.fires
             /\ Ids(world'.responders) = Ids(world.responders)
             /\ \A q \in Ids(world.responders) \ {r} : world'.responders[q] = world.responders[q]
             /\ world'.responders[r].local_log = world.responders[r].local_log
             /\ out' = <<[type |-> "RESPONDER_DISPATCHED", responder |-> r, fire |-> f], second>>
             /\ second.type \in {"RESPONDER_PATH_ASSIGNED", "ROUTE_NOT_FOUND"}
             /\ second.responder = r
             /\ world'.responders[r].assigned_fire =
                  IF second.type = "ROUTE_NOT_FOUND" THEN NoFire ELSE f
             /\ \A row : \A whole \in BOOLEAN :
                  Mirrors(world.responders[r], row, whole, {}) =>
                    Mirrors(world'.responders[r], row, whole, Range(out'))
      PROVE  Reports
  <2> DEFINE sent == [type |-> "RESPONDER_DISPATCHED", responder |-> r, fire |-> f]
  <2>1. sent.type = "RESPONDER_DISPATCHED" /\ sent.responder = r /\ sent.fire = f
    OBVIOUS
  <2>2. out' = <<sent, second>>
    BY <1>5
  <2> HIDE DEF sent
  <2>3. /\ IsQueue(out') /\ Range(out') = {sent, second} /\ Head(out') = sent
        /\ Tail(out') = <<second>> /\ Range(<<second>>) = {second} /\ out' # << >>
    BY <2>2, QueueFew
  <2>4. world' # NoMission
    <3>1. r \in Nat /\ f \in Nat
      BY <1>1, <1>5, WorldParts DEF DrawnType
    <3>2. Sound(world', drawn)
      BY <1>1, <1>3, <3>1, DispatchSound
    <3> QED BY <3>2, MissionExists DEF Sound, NearlySound
  <2>5. /\ Exists' /\ Responders' = Responders /\ Fires' = Fires
        /\ WorldGround' = WorldGround /\ r \in Responders /\ f \in Fires
    BY <1>1, <1>5, <2>4 DEF Exists, Responders, Fires, WorldGround
  <2>6. sent.type \in RM!OfResponder /\ second.type \in RM!OfResponder
    BY <1>5, <2>1 DEF RM!OfResponder
  <2>7. /\ Of(Range(out'), r) = Range(out')
        /\ \A q \in Responders \ {r} : Of(Range(out'), q) = {}
    BY <1>5, <2>1, <2>3, <2>6 DEF Of
  <2>8. second.type = "ROUTE_NOT_FOUND" => Tells(Range(out'), {"ROUTE_NOT_FOUND"})
    BY <2>3 DEF Tells
  <2>9. Tells(Range(out'), Assigning)
    BY <2>1, <2>3 DEF Tells, Assigning
  <2>10. ASSUME NEW q \in Responders
         PROVE  Reported(q)
    <3>1. CASE q = r
      BY <1>5, <2>3, <2>7, <2>9, <3>1 DEF Reported, Unit
    <3>2. CASE q # r
      BY <1>1, <1>5, <2>7, <3>2 DEF Reported, Unit
    <3> QED BY <3>1, <3>2
  <2>11. ASSUME NEW e \in Range(out')
         PROVE  /\ e.type \in Following \union {"RESPONDER_DISPATCHED"}
                /\ e.responder \in Responders
                /\ e.type = "RESPONDER_DISPATCHED" =>
                     /\ e.fire \in Fires
                     /\ \/ world'.responders[e.responder].assigned_fire = e.fire
                        \/ Tells(Of(Range(out'), e.responder), {"ROUTE_NOT_FOUND"})
                /\ e.type = "ROUTE_NOT_FOUND" =>
                     world'.responders[e.responder].assigned_fire = NoFire
    <3>1. CASE e = sent
      BY <1>5, <2>1, <2>5, <2>7, <2>8, <3>1
    <3>2. CASE e = second
      BY <1>5, <2>5, <3>2 DEF Following
    <3> QED BY <2>3, <3>1, <3>2
  <2>12. second.type \in Following
    BY <1>5 DEF Following
  <2>13. Introduced(Head(out')) /\ WorldGround' = Changed(WorldGround, Head(out'))
    BY <2>1, <2>3, <2>5 DEF Introduced, Changed
  <2> QED BY <1>2, <1>5, <2>3, <2>5, <2>10, <2>11, <2>12, <2>13 DEF Reports
<1> QED BY <1>1, <1>3, <1>4, <1>5, DispatchTold

(* Before the mission exists its creation is the one command obeyed. *)
LEMMA CreationAgreement ==
  ASSUME Agreement, ~Exists, PCommand
  PROVE  Agreement'
<1>1. /\ Shapes /\ sending' = [sending EXCEPT !.command = out']
      /\ UNCHANGED <<tables, refused, reconciled>> /\ sending.command = << >>
  BY DEF PCommand, Agreement
<1>2. /\ \A task \in Tasks : sending[task] = << >>
      /\ tick.phase = "sleep" /\ upload = Idle /\ telemetry = << >>
      /\ tables = RM!MissionRows
  BY <1>1 DEF Shapes
<1>3. HandleCreateMission \/ HandleOther
  BY DEF PCommand, Command, HandleReset, HandlePlaceFire, HandlePlaceMountain,
    HandleRemoveMountain, HandleCreateResponder, HandleMoveMissionControl, HandleDispatch
<1>4. UNCHANGED <<tick, upload, telemetry, drawn>>
  BY <1>3 DEF HandleCreateMission, HandleOther, Handle, flushing
<1>5. /\ sending' = [task \in Tasks |-> sending'[task]]
      /\ sending.tick' = << >> /\ sending.telemetry' = << >> /\ sending.command' = out'
  BY <1>1, <1>2, TaskNames DEF Shapes
<1>6. /\ Named(<< >>) = {} /\ Burning(<< >>) = {} /\ Range(<< >>) = {} /\ IsQueue(<< >>)
  BY QueueFew DEF Named, Burning
<1>7. /\ telemetry \in Seq(Message) /\ reconciled \in 0 .. Len(telemetry) /\ Uploading' = {}
  BY <1>1, <1>2, <1>4 DEF Shapes, Uploading
<1>8. CASE HandleOther
  <2>1. out' = << >> /\ world' = world
    BY <1>8 DEF HandleOther, Becomes, Outcome
  <2>2. ~Exists'
    BY <2>1 DEF Exists
  <2>3. sending'.command = << >> /\ sending'.tick = << >> /\ sending'.telemetry = << >>
    BY <1>5, <2>1
  <2>4. Shapes'
    BY <1>1, <1>2, <1>4, <1>5, <1>6, <1>7, <2>3, TaskNames DEF Shapes
  <2> QED BY <2>2, <2>4 DEF Agreement, Projecting
<1>9. CASE HandleCreateMission
  <2> DEFINE e == [type |-> "MISSION_CREATED"]
  <2>1. world' = NewMission /\ out' = <<e>>
    BY <1>9 DEF HandleCreateMission, Becomes, CreateMission, Outcome, Exists
  <2>2. /\ e.type = "MISSION_CREATED" /\ e.type \in Lasting /\ e.type \notin RM!OfResponder
        /\ e.type \notin Assigning
    BY DEF Lasting, RM!OfResponder, Assigning
  <2> HIDE DEF e
  <2>3. /\ Exists' /\ Responders' = {} /\ Fires' = {}
        /\ WorldGround' = [control |-> Spawn, cells |-> {}, fires |-> {}, responders |-> {}]
    BY <2>1, NewMissionIs DEF Exists, Responders, Fires, WorldGround
  <2>4. /\ sending.command' = <<e>> /\ Range(<<e>>) = {e} /\ Head(<<e>>) = e
        /\ Tail(<<e>>) = << >> /\ IsQueue(<<e>>) /\ <<e>> # << >>
    BY <1>5, <2>1, QueueFew
  <2>5. /\ IsTables(tables) /\ DOMAIN tables.fires = {} /\ DOMAIN tables.responders = {}
        /\ Ground(tables) = WorldGround'
    BY <1>2, <2>3 DEF RM!MissionRows, IsTables, Ground
  <2>6. First' = e /\ \A type : Heads(type)' => type = "MISSION_CREATED"
    BY <2>2, <2>4 DEF First, Heads
  <2>7. Grounded'
    BY <1>1, <2>2, <2>4, <2>5, <2>6 DEF Grounded, Changed
  <2>8. FiresMirrored'
    BY <1>5, <1>6, <2>3, <2>6 DEF FiresMirrored
  <2>9. Assigned' /\ Newborn' /\ Mirrored'
    BY <2>2, <2>3, <2>4, <2>6 DEF Assigned, Newborn, Mirrored, Assigning
  <2>10. Shapes'
    <3>1. sending'.command = <<e>> /\ sending'.tick = << >> /\ sending'.telemetry = << >>
      BY <1>5, <2>4
    <3> QED BY <1>1, <1>2, <1>4, <1>5, <1>6, <1>7, <2>2, <2>3, <2>4, <3>1, TaskNames DEF Shapes
  <2> QED BY <2>7, <2>8, <2>9, <2>10 DEF Agreement, Facts
<1> QED BY <1>3, <1>8, <1>9

LEMMA CommandAgreement ==
  ASSUME Inductive, Agreement, PCommand
  PROVE  Agreement'
<1>1. CASE ~Exists
  BY <1>1, CreationAgreement
<1>2. CASE Exists
  <2>0. drawn \in DrawnType /\ Sound(world, drawn) /\ world.mountains \subseteq Cell
    BY <1>2, WorldParts DEF Sound, NearlySound, IsMission
  <2>1. ASSUME NEW mountains \in SUBSET Cell
        PROVE  /\ NearlySound([world EXCEPT !.mountains = mountains], drawn)
               /\ [world EXCEPT !.mountains = mountains].fires = world.fires
               /\ [world EXCEPT !.mountains = mountains].responders = world.responders
               /\ [world EXCEPT !.mountains = mountains].control = world.control
               /\ [world EXCEPT !.mountains = mountains].mountains = mountains
    <3>1. NearlySound([world EXCEPT !.mountains = mountains], drawn)
      BY <2>0, MountainsSound
    <3> QED BY <1>2, <3>1, WorldParts
  <2>2. ASSUME NEW cell \in Cell
        PROVE  /\ NearlySound([world EXCEPT !.control = cell], drawn)
               /\ [world EXCEPT !.control = cell].fires = world.fires
               /\ [world EXCEPT !.control = cell].responders = world.responders
               /\ [world EXCEPT !.control = cell].control = cell
               /\ [world EXCEPT !.control = cell].mountains = world.mountains
    <3>1. NearlySound([world EXCEPT !.control = cell], drawn)
      BY <2>0 DEF Sound, NearlySound, IsMission, IsDict, Ids
    <3> QED BY <1>2, <3>1, WorldParts
  <2>3. ASSUME NEW cell \in MountainCells, HandlePlaceMountain(cell)
        PROVE  Reports
    <3> DEFINE m == [world EXCEPT !.mountains = @ \union {cell}]
               e == [type |-> "MOUNTAIN_PLACED", cell |-> cell]
    <3>1. Becomes(ThenRecompute(m, e)) /\ drawn' = drawn
      BY <2>3 DEF HandlePlaceMountain, PlaceMountain
    <3>2. cell \in Cell
      BY PlacesAssumption
    <3>3. /\ e.type = "MOUNTAIN_PLACED" /\ e.cell = cell
          /\ e.type \in {"MOUNTAIN_PLACED", "MOUNTAIN_REMOVED", "MISSION_CONTROL_MOVED"}
      OBVIOUS
    <3>4. /\ NearlySound(m, drawn) /\ m.fires = world.fires /\ m.responders = world.responders
          /\ m.control = world.control /\ m.mountains = world.mountains \union {cell}
      BY <2>0, <2>1, <3>2
    <3> HIDE DEF m, e
    <3>5. [WorldGround EXCEPT !.control = m.control, !.cells = m.mountains]
            = Changed(WorldGround, e)
      <4>1. Changed(WorldGround, e) = [WorldGround EXCEPT !.cells = @ \union {e.cell}]
        BY <3>3 DEF Changed
      <4> QED BY <3>3, <3>4, <4>1 DEF WorldGround
    <3> QED BY <1>2, <3>1, <3>3, <3>4, <3>5, TerrainReports, Zenon
  <2>4. ASSUME NEW cell \in MountainCells, HandleRemoveMountain(cell)
        PROVE  Reports
    <3> DEFINE m == [world EXCEPT !.mountains = @ \ {cell}]
               e == [type |-> "MOUNTAIN_REMOVED", cell |-> cell]
    <3>1. Becomes(ThenRecompute(m, e)) /\ drawn' = drawn
      BY <2>4 DEF HandleRemoveMountain, RemoveMountain
    <3>3. /\ e.type = "MOUNTAIN_REMOVED" /\ e.cell = cell
          /\ e.type \in {"MOUNTAIN_PLACED", "MOUNTAIN_REMOVED", "MISSION_CONTROL_MOVED"}
      OBVIOUS
    <3>4. /\ NearlySound(m, drawn) /\ m.fires = world.fires /\ m.responders = world.responders
          /\ m.control = world.control /\ m.mountains = world.mountains \ {cell}
      BY <2>0, <2>1
    <3> HIDE DEF m, e
    <3>5. [WorldGround EXCEPT !.control = m.control, !.cells = m.mountains]
            = Changed(WorldGround, e)
      <4>1. Changed(WorldGround, e) = [WorldGround EXCEPT !.cells = @ \ {e.cell}]
        BY <3>3 DEF Changed
      <4> QED BY <3>3, <3>4, <4>1 DEF WorldGround
    <3> QED BY <1>2, <3>1, <3>3, <3>4, <3>5, TerrainReports, Zenon
  <2>5. ASSUME NEW cell \in Control, HandleMoveMissionControl(cell)
        PROVE  Reports
    <3> DEFINE m == [world EXCEPT !.control = cell]
               e == [type |-> "MISSION_CONTROL_MOVED", cell |-> cell]
    <3>1. Becomes(ThenRecompute(m, e)) /\ drawn' = drawn
      BY <2>5 DEF HandleMoveMissionControl, MoveMissionControl
    <3>2. cell \in Cell
      BY PlacesAssumption
    <3>3. /\ e.type = "MISSION_CONTROL_MOVED" /\ e.cell = cell
          /\ e.type \in {"MOUNTAIN_PLACED", "MOUNTAIN_REMOVED", "MISSION_CONTROL_MOVED"}
      OBVIOUS
    <3>4. /\ NearlySound(m, drawn) /\ m.fires = world.fires /\ m.responders = world.responders
          /\ m.control = cell /\ m.mountains = world.mountains
      BY <2>2, <3>2
    <3> HIDE DEF m, e
    <3>5. [WorldGround EXCEPT !.control = m.control, !.cells = m.mountains]
            = Changed(WorldGround, e)
      <4>1. Changed(WorldGround, e) = [WorldGround EXCEPT !.control = e.cell]
        BY <3>3 DEF Changed
      <4> QED BY <3>3, <3>4, <4>1 DEF WorldGround
    <3> QED BY <1>2, <3>1, <3>3, <3>4, <3>5, TerrainReports, Zenon
  <2>6. Command => Reports
    <3>1. ~HandleOther
      BY <1>2 DEF HandleOther
    <3> QED BY <1>2, <2>3, <2>4, <2>5, <3>1, CreateReports, ResetReports, PlaceFireReports,
          CreateResponderReports, DispatchReports DEF Command
  <2> QED BY <1>2, <2>6, ReportsAgreement DEF PCommand
<1> QED BY <1>1, <1>2
-----------------------------------------------------------------------------
(* 14. An event is appended. *)
Told == Lasting \union Following \union Knowing \union Reconciling \union RM!OfFire
          \union {"RESPONDER_DISPATCHED"}

LEMMA ToldKinds ==
  /\ RM!OfResponder = Following \union Knowing \union Reconciling \union {"RESPONDER_DISPATCHED"}
  /\ Lasting \intersect (RM!OfResponder \union RM!OfFire) = {}
  /\ RM!OfResponder \intersect RM!OfFire = {} /\ Nothing \notin Told
  /\ Following \intersect (RM!OfFire \union Lasting \union {"RESPONDER_DISPATCHED"}) = {}
BY DEF Told, Lasting, Following, Knowing, Reconciling, RM!OfResponder, RM!OfFire, Nothing

(* What an event that is accepted does to the tables. *)
LEMMA ResponderApplied ==
  ASSUME NEW t, IsTables(t), NEW e, e.type \in RM!OfResponder, RM!Accepts(t, e),
         NEW n, n = RM!Apply(t, e)
  PROVE  /\ IsTables(n) /\ Ground(n) = Ground(t) /\ Changed(Ground(t), e) = Ground(t)
         /\ n.fires = t.fires /\ e.responder \in DOMAIN t.responders
         /\ DOMAIN n.responders = DOMAIN t.responders
         /\ \A r \in DOMAIN t.responders :
              n.responders[r] = IF r = e.responder THEN RM!ResponderRow(t.responders[r], e)
                                ELSE t.responders[r]
<1> DEFINE row == RM!ResponderRow(t.responders[e.responder], e)
<1>1. e.responder \in DOMAIN t.responders
  BY TablesExist DEF RM!Accepts
<1>2. n = [t EXCEPT !.responders[e.responder] = row]
  BY DEF RM!Apply, RM!OfResponder
<1> HIDE DEF row
<1>3. /\ n.control = t.control /\ n.cells = t.cells /\ n.fires = t.fires
      /\ n.outbox = t.outbox /\ n.responders = [t.responders EXCEPT ![e.responder] = row]
      /\ n = [control |-> n.control, cells |-> n.cells, fires |-> n.fires,
              responders |-> n.responders, outbox |-> n.outbox]
  BY <1>2 DEF IsTables
<1>4. Changed(Ground(t), e) = Ground(t)
  BY DEF Changed, RM!OfResponder
<1>5. /\ DOMAIN n.responders = DOMAIN t.responders
      /\ \A r \in DOMAIN t.responders :
           n.responders[r] = IF r = e.responder THEN row ELSE t.responders[r]
  BY <1>3
<1> QED BY <1>1, <1>3, <1>4, <1>5 DEF IsTables, Ground, row

LEMMA FireApplied ==
  ASSUME NEW t, IsTables(t), NEW e, e.type \in RM!OfFire, RM!Accepts(t, e),
         NEW n, n = RM!Apply(t, e)
  PROVE  /\ IsTables(n) /\ Ground(n) = Ground(t) /\ Changed(Ground(t), e) = Ground(t)
         /\ n.responders = t.responders /\ e.fire \in DOMAIN t.fires
         /\ DOMAIN n.fires = DOMAIN t.fires
         /\ \A f \in DOMAIN t.fires :
              n.fires[f] = IF f = e.fire THEN RM!FireRow(t.fires[f], e) ELSE t.fires[f]
<1> DEFINE row == RM!FireRow(t.fires[e.fire], e)
<1>1. e.fire \in DOMAIN t.fires
  BY TablesExist DEF RM!Accepts
<1>2. n = [t EXCEPT !.fires[e.fire] = row]
  BY DEF RM!Apply, RM!OfResponder, RM!OfFire
<1> HIDE DEF row
<1>3. /\ n.control = t.control /\ n.cells = t.cells /\ n.responders = t.responders
      /\ n.outbox = t.outbox /\ n.fires = [t.fires EXCEPT ![e.fire] = row]
      /\ n = [control |-> n.control, cells |-> n.cells, fires |-> n.fires,
              responders |-> n.responders, outbox |-> n.outbox]
  BY <1>2 DEF IsTables
<1>4. Changed(Ground(t), e) = Ground(t)
  BY DEF Changed, RM!OfFire
<1>5. /\ DOMAIN n.fires = DOMAIN t.fires
      /\ \A f \in DOMAIN t.fires : n.fires[f] = IF f = e.fire THEN row ELSE t.fires[f]
  BY <1>3
<1> QED BY <1>1, <1>3, <1>4, <1>5 DEF IsTables, Ground, row

LEMMA LastingApplied ==
  ASSUME NEW t, IsTables(t), NEW e, e.type \in Lasting, RM!Accepts(t, e),
         NEW n, n = RM!Apply(t, e)
  PROVE  /\ IsTables(n) /\ Ground(n) = Changed(Ground(t), e)
         /\ \A r \in DOMAIN n.responders :
              n.responders[r] = IF e.type = "RESPONDER_CREATED" /\ r = e.responder
                                THEN e.row ELSE t.responders[r]
         /\ \A f \in DOMAIN n.fires :
              n.fires[f] = IF e.type = "FIRE_CREATED" /\ f = e.fire THEN e.row ELSE t.fires[f]
         /\ \A r \in DOMAIN n.responders :
              r \in DOMAIN t.responders \/ (e.type = "RESPONDER_CREATED" /\ r = e.responder)
         /\ \A f \in DOMAIN n.fires :
              f \in DOMAIN t.fires \/ (e.type = "FIRE_CREATED" /\ f = e.fire)
<1>0. t # RM!NoTables /\ e.type \notin RM!OfResponder /\ e.type \notin RM!OfFire
  BY TablesExist, ToldKinds
<1>1. CASE e.type = "MISSION_CREATED"
  <2>1. n = t
    BY <1>0, <1>1 DEF RM!Apply
  <2>2. Changed(Ground(t), e) = Ground(t)
    BY <1>1 DEF Changed
  <2> QED BY <1>1, <2>1, <2>2
<1>2. CASE e.type = "FIRE_CREATED"
  <2>1. n = [t EXCEPT !.fires = RM!Insert(@, e.fire, e.row)]
    BY <1>0, <1>2 DEF RM!Apply
  <2>2. /\ n.control = t.control /\ n.cells = t.cells /\ n.responders = t.responders
        /\ n.outbox = t.outbox /\ n.fires = RM!Insert(t.fires, e.fire, e.row)
        /\ n = [control |-> n.control, cells |-> n.cells, fires |-> n.fires,
                responders |-> n.responders, outbox |-> n.outbox]
    BY <2>1 DEF IsTables
  <2>3. /\ DOMAIN n.fires = DOMAIN t.fires \union {e.fire}
        /\ \A f \in DOMAIN n.fires : n.fires[f] = IF f = e.fire THEN e.row ELSE t.fires[f]
    BY <2>2 DEF RM!Insert
  <2>4. Changed(Ground(t), e) = [Ground(t) EXCEPT !.fires = @ \union {e.fire}]
    BY <1>2 DEF Changed
  <2>5. Ground(n) = Changed(Ground(t), e)
    BY <2>2, <2>3, <2>4 DEF Ground
  <2> QED BY <1>2, <2>2, <2>3, <2>5 DEF IsTables
<1>3. CASE e.type = "RESPONDER_CREATED"
  <2>1. n = [t EXCEPT !.responders = RM!Insert(@, e.responder, e.row)]
    BY <1>0, <1>3 DEF RM!Apply
  <2>2. /\ n.control = t.control /\ n.cells = t.cells /\ n.fires = t.fires
        /\ n.outbox = t.outbox /\ n.responders = RM!Insert(t.responders, e.responder, e.row)
        /\ n = [control |-> n.control, cells |-> n.cells, fires |-> n.fires,
                responders |-> n.responders, outbox |-> n.outbox]
    BY <2>1 DEF IsTables
  <2>3. /\ DOMAIN n.responders = DOMAIN t.responders \union {e.responder}
        /\ \A r \in DOMAIN n.responders :
             n.responders[r] = IF r = e.responder THEN e.row ELSE t.responders[r]
    BY <2>2 DEF RM!Insert
  <2>4. Changed(Ground(t), e) = [Ground(t) EXCEPT !.responders = @ \union {e.responder}]
    BY <1>3 DEF Changed
  <2>5. Ground(n) = Changed(Ground(t), e)
    BY <2>2, <2>3, <2>4 DEF Ground
  <2> QED BY <1>3, <2>2, <2>3, <2>5 DEF IsTables
<1>4. CASE e.type = "MOUNTAIN_PLACED"
  <2>1. n = [t EXCEPT !.cells = @ \union {e.cell}]
    BY <1>0, <1>4 DEF RM!Apply
  <2>2. Changed(Ground(t), e) = [Ground(t) EXCEPT !.cells = @ \union {e.cell}]
    BY <1>4 DEF Changed
  <2> QED BY <1>4, <2>1, <2>2 DEF IsTables, Ground
<1>5. CASE e.type = "MOUNTAIN_REMOVED"
  <2>1. n = [t EXCEPT !.cells = @ \ {e.cell}]
    BY <1>0, <1>5 DEF RM!Apply
  <2>2. Changed(Ground(t), e) = [Ground(t) EXCEPT !.cells = @ \ {e.cell}]
    BY <1>5 DEF Changed
  <2> QED BY <1>5, <2>1, <2>2 DEF IsTables, Ground
<1>6. CASE e.type = "MISSION_CONTROL_MOVED"
  <2>1. n = [t EXCEPT !.control = e.cell]
    BY <1>0, <1>6 DEF RM!Apply
  <2>2. Changed(Ground(t), e) = [Ground(t) EXCEPT !.control = e.cell]
    BY <1>6 DEF Changed
  <2> QED BY <1>6, <2>1, <2>2 DEF IsTables, Ground
<1>7. CASE e.type = "MISSION_RESET"
  <2>1. n = [t EXCEPT !.fires = << >>, !.responders = << >>, !.cells = {}, !.control = e.cell]
    BY <1>0, <1>7 DEF RM!Apply
  <2>2. Changed(Ground(t), e) =
          [control |-> e.cell, cells |-> {}, fires |-> {}, responders |-> {}]
    BY <1>7 DEF Changed
  <2>3. /\ n.control = e.cell /\ n.cells = {} /\ n.fires = << >>
        /\ n.outbox = t.outbox /\ n.responders = << >>
        /\ n = [control |-> n.control, cells |-> n.cells, fires |-> n.fires,
                responders |-> n.responders, outbox |-> n.outbox]
    BY <2>1 DEF IsTables
  <2>4. DOMAIN n.fires = {} /\ DOMAIN n.responders = {}
    BY <2>3
  <2> QED BY <1>7, <2>2, <2>3, <2>4 DEF IsTables, Ground
<1> QED BY <1>1, <1>2, <1>3, <1>4, <1>5, <1>6, <1>7 DEF Lasting

(* What a task takes from its queue, and what is left. *)
LEMMA Appended ==
  ASSUME Agreement, NEW task \in Tasks, Publish(task), NEW e, e = Head(sending[task])
  PROVE  /\ Exists /\ e.type \in Told /\ sending[task] # << >>
         /\ sending' = [t \in Tasks |-> sending'[t]]
         /\ \A t \in Tasks \ {task} : sending'[t] = sending[t]
         /\ sending'[task] = Tail(sending[task])
         /\ Range(sending[task]) = {e} \union Range(sending'[task]) /\ IsQueue(sending'[task])
         /\ Pending = {e} \union Pending'
         /\ e.type \in Knowing \union RM!OfFire \/ task # "tick"
         /\ e.type \in Reconciling \/ task # "telemetry"
         /\ e.type \in Lasting \union Following \union {"RESPONDER_DISPATCHED"} \/ task # "command"
         /\ task = "command" => \A d \in Range(sending'.command) : d.type \in Following
         /\ \A f : f \in Burning(sending.tick) =>
              f \in Burning(sending'.tick) \/ (e.type \in RM!OfFire /\ e.fire = f /\ task = "tick")
         /\ Named(sending'.tick) \subseteq Named(sending.tick)
         /\ Burning(sending'.tick) \subseteq Burning(sending.tick)
         /\ Named(sending'.telemetry) \subseteq Named(sending.telemetry)
<1>1. /\ Shapes /\ sending[task] # << >>
      /\ sending' = [sending EXCEPT ![task] = Tail(@)] /\ UNCHANGED <<vars, reconciled>>
  BY DEF Agreement, Publish, Project
<1>2. Exists
  BY <1>1 DEF Shapes
<1>3. /\ sending' = [t \in Tasks |-> sending'[t]]
      /\ \A t \in Tasks \ {task} : sending'[t] = sending[t]
      /\ sending'[task] = Tail(sending[task])
  BY <1>1 DEF Shapes
<1>4. /\ Range(sending[task]) = {e} \union Range(sending'[task]) /\ IsQueue(sending'[task])
      /\ e \in Range(sending[task])
  BY <1>1, <1>3, QueueRest DEF Shapes
<1>5. \A t \in Tasks : Range(sending'[t]) \subseteq Range(sending[t])
  BY <1>3, <1>4
<1>6. /\ e.type \in Knowing \union RM!OfFire \/ task # "tick"
      /\ e.type \in Reconciling \/ task # "telemetry"
      /\ e.type \in Lasting \union Following \union {"RESPONDER_DISPATCHED"} \/ task # "command"
  BY <1>1, <1>4 DEF Shapes
<1>7. e.type \in Told
  BY <1>6, TaskNames DEF Told
<1>8. UNCHANGED <<upload, telemetry>>
  BY <1>1 DEF vars
<1>9. Pending = {e} \union Pending'
  <2>1. Uploaded' = Uploaded /\ ToUpload' = ToUpload
    BY <1>1, <1>8 DEF Uploaded, ToUpload
  <2>2. CASE task = "command"
    <3>1. /\ Range(sending.command) = {e} \union Range(sending'.command)
          /\ sending'.tick = sending.tick /\ sending'.telemetry = sending.telemetry
      BY <1>3, <1>4, <2>2, TaskNames
    <3> QED BY <2>1, <3>1 DEF Pending
  <2>3. CASE task = "tick"
    <3>1. /\ Range(sending.tick) = {e} \union Range(sending'.tick)
          /\ sending'.command = sending.command /\ sending'.telemetry = sending.telemetry
      BY <1>3, <1>4, <2>3, TaskNames
    <3> QED BY <2>1, <3>1 DEF Pending
  <2>4. CASE task = "telemetry"
    <3>1. /\ Range(sending.telemetry) = {e} \union Range(sending'.telemetry)
          /\ sending'.command = sending.command /\ sending'.tick = sending.tick
      BY <1>3, <1>4, <2>4, TaskNames
    <3> QED BY <2>1, <3>1 DEF Pending
  <2> QED BY <2>2, <2>3, <2>4, TaskNames
<1>10. task = "command" => \A d \in Range(sending'.command) : d.type \in Following
  BY <1>1, <1>3 DEF Shapes
<1>11. /\ Named(sending'.tick) \subseteq Named(sending.tick)
       /\ Burning(sending'.tick) \subseteq Burning(sending.tick)
       /\ Named(sending'.telemetry) \subseteq Named(sending.telemetry)
  <2>1. /\ Range(sending'.tick) \subseteq Range(sending.tick)
        /\ Range(sending'.telemetry) \subseteq Range(sending.telemetry)
    BY <1>5, TaskNames
  <2> QED BY <2>1, NamedIs
<1>12. ASSUME NEW f \in Burning(sending.tick)
       PROVE  f \in Burning(sending'.tick) \/ (e.type \in RM!OfFire /\ e.fire = f /\ task = "tick")
  <2>1. PICK d \in Range(sending.tick) :
          d.type \in RM!OfFire \union {"FIRE_CREATED"} /\ d.fire = f
    BY NamedIs
  <2>2. d.type \in RM!OfFire
    BY <1>1, <2>1 DEF Shapes, Knowing, RM!OfFire
  <2>3. d \in Range(sending'.tick) \/ (task = "tick" /\ d = e)
    BY <1>3, <1>4, TaskNames
  <2> QED BY <2>1, <2>2, <2>3, NamedIs
<1> QED BY <1>1, <1>2, <1>3, <1>4, <1>6, <1>7, <1>9, <1>10, <1>11, <1>12

LEMMA AppendedShapes ==
  ASSUME Agreement, NEW task \in Tasks, Publish(task)
  PROVE  Shapes' /\ UNCHANGED <<vars, reconciled, disputed>>
<1> DEFINE e == Head(sending[task])
<1>1. /\ Shapes /\ UNCHANGED <<vars, reconciled, disputed>>
  BY DEF Agreement, Publish, Project
<1>2. /\ Exists /\ sending' = [t \in Tasks |-> sending'[t]]
      /\ \A t \in Tasks \ {task} : sending'[t] = sending[t]
      /\ Range(sending[task]) = {e} \union Range(sending'[task]) /\ IsQueue(sending'[task])
      /\ sending'[task] = Tail(sending[task]) /\ sending[task] # << >>
      /\ Named(sending'.tick) \subseteq Named(sending.tick)
      /\ Burning(sending'.tick) \subseteq Burning(sending.tick)
      /\ Named(sending'.telemetry) \subseteq Named(sending.telemetry)
      /\ task = "command" => \A d \in Range(sending'.command) : d.type \in Following
  BY Appended
<1> HIDE DEF e
<1>3. /\ UNCHANGED <<world, tick, upload, telemetry, drawn>>
      /\ UNCHANGED <<Exists, Responders, Fires, Uploading>>
  BY <1>1 DEF vars, Exists, Responders, Fires, Uploading
<1>4. /\ Range(sending'.command) \subseteq Range(sending.command)
      /\ Range(sending'.tick) \subseteq Range(sending.tick)
      /\ Range(sending'.telemetry) \subseteq Range(sending.telemetry)
      /\ \A t \in Tasks : IsQueue(sending'[t])
  BY <1>1, <1>2, TaskNames DEF Shapes
<1>5. sending'.command # << >> => \A d \in Range(Tail(sending'.command)) : d.type \in Following
  <2> SUFFICES ASSUME sending'.command # << >>
               PROVE  \A d \in Range(Tail(sending'.command)) : d.type \in Following
    OBVIOUS
  <2>1. CASE task = "command"
    BY <1>2, <1>4, <2>1, QueueRest
  <2>2. CASE task # "command"
    BY <1>1, <1>2, <2>2, TaskNames DEF Shapes
  <2> QED BY <2>1, <2>2
<1>6. sending'.tick # << >> => sending.tick # << >>
  <2>1. CASE task = "tick"
    BY <1>2, <2>1
  <2>2. CASE task # "tick"
    BY <1>2, <2>2, TaskNames
  <2> QED BY <2>1, <2>2
<1>7. /\ \A d \in Range(sending'.tick) : d.type \in Knowing \union RM!OfFire
      /\ \A d \in Range(sending'.telemetry) : d.type \in Reconciling
      /\ \A d \in Range(sending'.command) :
           /\ d.type \in Lasting \union Following \union {"RESPONDER_DISPATCHED"}
           /\ d.type \in RM!OfResponder => d.responder \in Responders
           /\ d.type = "RESPONDER_DISPATCHED" => d.fire \in Fires
  BY <1>1, <1>4 DEF Shapes
<1>8. /\ Named(sending'.tick) \union Named(sending'.telemetry) \union Uploading
           \subseteq 1 .. drawn.responders
      /\ Burning(sending'.tick) \subseteq 1 .. drawn.fires
      /\ telemetry \in Seq(Message) /\ reconciled \in 0 .. Len(telemetry)
      /\ sending'.tick # << >> => tick.phase = "publish"
      /\ upload # Idle =>
           /\ tick.phase = "flush" /\ upload.backlog # << >>
           /\ upload.sent => \E i \in DOMAIN telemetry : telemetry[i].responder = upload.responder
  BY <1>1, <1>2, <1>6 DEF Shapes
<1> QED BY <1>1, <1>2, <1>3, <1>4, <1>5, <1>7, <1>8 DEF Shapes

(* As long as nothing is refused the tables are what the event makes them. *)
LEMMA AppendedTables ==
  ASSUME Agreement, NEW task \in Tasks, Publish(task), Projecting', NEW e, e = Head(sending[task])
  PROVE  Projecting /\ RM!Accepts(tables, e) /\ tables' = RM!Apply(tables, e)
<1>1. Exists /\ e.type # Nothing
  BY Appended, ToldKinds
<1>2. /\ tables' = IF refused = Nothing /\ RM!Accepts(tables, e) THEN RM!Apply(tables, e)
                    ELSE tables
      /\ refused' = IF refused = Nothing /\ ~RM!Accepts(tables, e) THEN e.type ELSE refused
  BY DEF Publish, Project
<1>3. refused' = Nothing
  BY DEF Projecting
<1> QED BY <1>1, <1>2, <1>3 DEF Projecting

(* What stays of the world and of the commands' queue.                     *)
LEMMA AppendedRest ==
  ASSUME Agreement, NEW task \in Tasks, Publish(task), NEW e, e = Head(sending[task])
  PROVE  /\ UNCHANGED <<Responders, Fires, WorldGround, world, disputed>>
         /\ \A r : Unit(r)' = Unit(r) /\ Whole(r)' = Whole(r)
         /\ Uploading' = Uploading
         /\ task = "command" => /\ e = First /\ sending.command # << >>
                                /\ Range(sending.command) = {e} \union Range(sending'.command)
         /\ task # "command" => sending'.command = sending.command
         /\ task # "command" => First' = First /\ \A type : Heads(type)' = Heads(type)
         /\ task # "tick" => sending'.tick = sending.tick
         /\ task = "command" => \A type \in Lasting : ~Heads(type)'
<1>1. UNCHANGED <<vars, reconciled, disputed>>
  BY AppendedShapes
<1>2. /\ UNCHANGED <<Responders, Fires, WorldGround, world, disputed, Uploading>>
      /\ \A r : Unit(r)' = Unit(r) /\ Whole(r)' = Whole(r)
  BY <1>1 DEF vars, Exists, Responders, Fires, WorldGround, Uploading, Unit, Whole, NeverDark
<1>3. /\ \A t \in Tasks \ {task} : sending'[t] = sending[t]
      /\ sending[task] # << >>
      /\ Range(sending[task]) = {e} \union Range(sending'[task]) /\ IsQueue(sending'[task])
      /\ task = "command" => \A d \in Range(sending'.command) : d.type \in Following
  BY Appended
<1>4. ASSUME task = "command", NEW type \in Lasting, sending'.command # << >>
      PROVE  Head(sending'.command).type # type
  <2>1. Head(sending'.command).type \in Following
    BY <1>3, <1>4, QueueRest
  <2> QED BY <2>1, ToldKinds
<1>5. task # "command" => sending'.command = sending.command
  BY <1>3, TaskNames
<1>6. task # "tick" => sending'.tick = sending.tick
  BY <1>3, TaskNames
<1> QED BY <1>2, <1>3, <1>4, <1>5, <1>6 DEF First, Heads

LEMMA ResponderAppended ==
  ASSUME Agreement, NEW task \in Tasks, Publish(task), Projecting', NEW e,
         e = Head(sending[task]), e.type \in RM!OfResponder
  PROVE  Facts'
<1>1. Projecting /\ RM!Accepts(tables, e) /\ tables' = RM!Apply(tables, e) /\ Facts /\ Shapes
  BY AppendedTables DEF Agreement
<1>2. /\ IsTables(tables') /\ Ground(tables') = Ground(tables)
      /\ Changed(Ground(tables), e) = Ground(tables)
      /\ tables'.fires = tables.fires /\ e.responder \in DOMAIN tables.responders
      /\ DOMAIN tables'.responders = DOMAIN tables.responders
      /\ \A r \in DOMAIN tables.responders :
           Row(r)' = IF r = e.responder THEN RM!ResponderRow(Row(r), e) ELSE Row(r)
  BY <1>1, ResponderApplied DEF Facts, Grounded, Row
<1>3. /\ UNCHANGED <<Responders, Fires, WorldGround, world, disputed>>
      /\ \A r : Unit(r)' = Unit(r) /\ Whole(r)' = Whole(r)
      /\ task = "command" => /\ e = First /\ sending.command # << >>
                             /\ Range(sending.command) = {e} \union Range(sending'.command)
      /\ task # "command" => sending'.command = sending.command
      /\ task # "command" => First' = First /\ \A type : Heads(type)' = Heads(type)
      /\ task # "tick" => sending'.tick = sending.tick
      /\ task = "command" => \A type \in Lasting : ~Heads(type)'
  BY AppendedRest
<1>4. /\ Pending = {e} \union Pending'
      /\ task = "command" => \A d \in Range(sending'.command) : d.type \in Following
      /\ \A f : f \in Burning(sending.tick) => f \in Burning(sending'.tick)
      /\ Named(sending'.tick) \subseteq Named(sending.tick)
      /\ Burning(sending'.tick) \subseteq Burning(sending.tick)
      /\ Named(sending'.telemetry) \subseteq Named(sending.telemetry)
      /\ e.type \in Knowing \union RM!OfFire \/ task # "tick"
      /\ e.type \in Reconciling \/ task # "telemetry"
      /\ task = "tick" => Range(sending.tick) = {e} \union Range(sending'.tick)
  BY Appended, ToldKinds
<1>5. "FIRE_CREATED" \in Lasting /\ "RESPONDER_CREATED" \in Lasting
  BY DEF Lasting
<1>6. \A r \in DOMAIN tables.responders : IsRow(Row(r)) /\ IsRow(Row(r)')
  BY <1>1, <1>2, RowWritten DEF Facts, Grounded
<1>7. Grounded'
  <2>1. WorldGround' = IF sending'.command = << >> THEN Ground(tables')
                       ELSE Changed(Ground(tables'), First')
    <3>1. CASE task = "command"
      <4>1. WorldGround = Ground(tables)
        BY <1>1, <1>2, <1>3, <3>1 DEF Facts, Grounded
      <4>2. sending'.command # << >> => Changed(Ground(tables), First') = Ground(tables)
        <5>1. sending'.command # << >> => First'.type \in Following
          BY <1>4, <3>1, AppendedShapes, QueueRest, TaskNames DEF First, Shapes
        <5> QED BY <5>1 DEF Changed, Following
      <4> QED BY <1>2, <1>3, <4>1, <4>2
    <3>2. CASE task # "command"
      BY <1>1, <1>2, <1>3, <3>2 DEF Facts, Grounded
    <3> QED BY <3>1, <3>2
  <2>2. Heads("FIRE_CREATED")' => First'.fire \in Fires' \ DOMAIN tables'.fires
    BY <1>1, <1>2, <1>3, <1>5 DEF Facts, Grounded
  <2>3. Heads("RESPONDER_CREATED")' => First'.responder \in Responders' \ DOMAIN tables'.responders
    BY <1>1, <1>2, <1>3, <1>5 DEF Facts, Grounded
  <2>4. \A f \in DOMAIN tables'.fires : IsFireRow(tables'.fires[f])
    BY <1>1, <1>2 DEF Facts, Grounded
  <2> QED BY <1>2, <1>6, <2>1, <2>2, <2>3, <2>4 DEF Grounded
<1>8. FiresMirrored'
  <2>1. \A d \in Range(sending'.tick) : d \in Range(sending.tick)
    BY <1>3, <1>4
  <2> QED BY <1>1, <1>2, <1>3, <1>4, <1>5, <2>1 DEF Facts, FiresMirrored
<1>9. Assigned'
  <2>1. ASSUME NEW r \in Responders \intersect DOMAIN tables.responders
        PROVE  \/ Row(r)'.assigned_fire = Unit(r).assigned_fire
               \/ Tells(Of(Range(sending'.command), r), Assigning)
    <3>1. ASSUME Tells(Of(Range(sending.command), r), Assigning),
                 task = "command" => e.type \notin Assigning \/ e.responder # r
          PROVE  Tells(Of(Range(sending'.command), r), Assigning)
      BY <1>3, <3>1 DEF Tells, Of
    <3>2. CASE r # e.responder
      BY <1>1, <1>2, <3>1, <3>2 DEF Facts, Assigned
    <3>3. CASE r = e.responder /\ e.type \notin Assigning
      <4>1. Row(r)'.assigned_fire = Row(r).assigned_fire
        BY <1>2, <1>6, <3>3, RowWritten DEF Assigning
      <4> QED BY <1>1, <3>1, <3>3, <4>1 DEF Facts, Assigned
    <3>4. CASE r = e.responder /\ e.type \in Assigning
      <4>1. e \in Range(sending.command) /\ task = "command"
        BY <1>3, <1>4, <3>4, TaskNames DEF Assigning, Knowing, Reconciling, RM!OfFire
      <4>2. CASE e.type = "ROUTE_NOT_FOUND"
        BY <1>1, <1>2, <1>6, <3>4, <4>1, <4>2, RowWritten DEF Facts, Assigned
      <4>3. CASE e.type = "RESPONDER_DISPATCHED"
        <5>1. Row(r)'.assigned_fire = e.fire
          BY <1>2, <1>6, <3>4, <4>3, RowWritten
        <5>2. CASE Unit(r).assigned_fire = e.fire
          BY <5>1, <5>2
        <5>3. CASE Tells(Of(Range(sending.command), r), {"ROUTE_NOT_FOUND"})
          BY <1>3, <4>1, <4>3, <5>3 DEF Tells, Of, Assigning
        <5> QED BY <1>1, <3>4, <4>1, <4>3, <5>2, <5>3 DEF Facts, Assigned
      <4> QED BY <3>4, <4>2, <4>3 DEF Assigning
    <3> QED BY <3>2, <3>3, <3>4
  <2>2. ASSUME NEW d \in Range(sending'.command)
        PROVE  /\ d.type = "RESPONDER_DISPATCHED" =>
                    \/ Unit(d.responder).assigned_fire = d.fire
                    \/ Tells(Of(Range(sending'.command), d.responder), {"ROUTE_NOT_FOUND"})
               /\ d.type = "ROUTE_NOT_FOUND" => Unit(d.responder).assigned_fire = NoFire
    <3>1. d \in Range(sending.command)
      BY <1>3
    <3>2. CASE task = "command"
      BY <1>1, <1>4, <3>1, <3>2 DEF Facts, Assigned, Following
    <3>3. CASE task # "command"
      BY <1>1, <1>3, <3>1, <3>3 DEF Facts, Assigned
    <3> QED BY <3>2, <3>3
  <2> QED BY <1>2, <1>3, <2>1, <2>2 DEF Assigned
<1>10. Newborn'
  <2> SUFFICES ASSUME Heads("RESPONDER_CREATED")'
               PROVE  /\ First'.row = ResponderResponse(Unit(First.responder)')
                      /\ Tail(sending'.command) = << >>
                      /\ Unit(First.responder)'.status = "idle"
                      /\ Unit(First.responder)'.local_log = << >>
                      /\ First'.responder \notin
                           Named(sending'.tick) \union Named(sending'.telemetry) \union Uploading'
    BY DEF Newborn
  <2>1. task # "command"
    BY <1>3, <1>5
  <2>2. /\ Heads("RESPONDER_CREATED") /\ First' = First /\ sending'.command = sending.command
        /\ Uploading' = Uploading
    BY <1>3, <2>1, AppendedRest
  <2>3. Unit(First.responder)' = Unit(First'.responder)
    BY AppendedRest DEF Unit
  <2> QED BY <1>1, <1>4, <2>2, <2>3 DEF Facts, Newborn
<1>11. Mirrored'
  <2> SUFFICES ASSUME NEW r \in (Responders \intersect DOMAIN tables.responders) \ disputed
               PROVE  Mirrors(Unit(r), Row(r)', Whole(r), Of(Pending', r))
    BY <1>2, <1>3 DEF Mirrored
  <2>1. Mirrors(Unit(r), Row(r), Whole(r), Of(Pending, r)) /\ Whole(r) \in BOOLEAN
    BY <1>1 DEF Facts, Mirrored, Whole
  <2>2. CASE r # e.responder
    <3>1. Of(Pending, r) = Of(Pending', r)
      BY <1>4, <2>2 DEF Of
    <3> QED BY <1>2, <2>1, <2>2, <3>1
  <2>3. CASE r = e.responder
    <3>1. Of(Pending, r) = Of(Pending', r) \union {e}
      BY <1>4, <2>3 DEF Of
    <3>2. ASSUME e.type = "ROUTE_NOT_FOUND"
          PROVE  ~Tells(Of(Pending', r), {"RESPONDER_DISPATCHED"})
      <4> SUFFICES ASSUME NEW d \in Pending', d.type = "RESPONDER_DISPATCHED"
                   PROVE  FALSE
        BY DEF Tells, Of
      <4>1. task = "command"
        BY <1>4, <3>2, TaskNames DEF Knowing, Reconciling, RM!OfFire
      <4>2. d \notin Range(sending'.command)
        BY <1>4, <4>1 DEF Following
      <4>3. d \notin Uploaded' \union ToUpload'
        BY ArrivingIs DEF Uploaded, ToUpload, Reconciling
      <4>4. d \notin Range(sending'.tick) \union Range(sending'.telemetry)
        BY AppendedShapes DEF Shapes, Knowing, Reconciling, RM!OfFire
      <4> QED BY <4>2, <4>3, <4>4 DEF Pending
    <3>3. Mirrors(Unit(r), RM!ResponderRow(Row(r), e), Whole(r), Of(Pending', r))
      BY <1>6, <2>1, <3>1, <3>2, RowMirrors
    <3> QED BY <1>2, <2>3, <3>3
  <2> QED BY <2>2, <2>3
<1> QED BY <1>7, <1>8, <1>9, <1>10, <1>11 DEF Facts

LEMMA FireAppended ==
  ASSUME Inductive, Agreement, NEW task \in Tasks, Publish(task), Projecting', NEW e,
         e = Head(sending[task]), e.type \in RM!OfFire
  PROVE  Facts'
<1>1. Projecting /\ RM!Accepts(tables, e) /\ tables' = RM!Apply(tables, e) /\ Facts /\ Shapes
  BY AppendedTables DEF Agreement
<1>2. /\ IsTables(tables') /\ Ground(tables') = Ground(tables)
      /\ tables'.responders = tables.responders /\ e.fire \in DOMAIN tables.fires
      /\ DOMAIN tables'.fires = DOMAIN tables.fires
      /\ \A f \in DOMAIN tables.fires :
           tables'.fires[f] = IF f = e.fire THEN RM!FireRow(tables.fires[f], e) ELSE tables.fires[f]
  BY <1>1, FireApplied DEF Facts, Grounded
<1>3. task = "tick"
  BY Appended, ToldKinds, TaskNames
     DEF Lasting, Following, Reconciling, RM!OfFire
<1>4. /\ UNCHANGED <<Responders, Fires, WorldGround, world, disputed>>
      /\ \A r : Unit(r)' = Unit(r) /\ Whole(r)' = Whole(r)
      /\ sending'.command = sending.command /\ Uploading' = Uploading
      /\ First' = First /\ \A type : Heads(type)' = Heads(type)
  BY <1>3, AppendedRest
<1>5. /\ Pending = {e} \union Pending'
      /\ Range(sending.tick) = {e} \union Range(sending'.tick)
      /\ \A f : f \in Burning(sending.tick) => f \in Burning(sending'.tick) \/ e.fire = f
      /\ Named(sending'.tick) \subseteq Named(sending.tick)
      /\ Named(sending'.telemetry) \subseteq Named(sending.telemetry)
  BY <1>3, Appended
<1>6. ASSUME NEW f \in DOMAIN tables.fires
      PROVE  /\ IsFireRow(tables'.fires[f]) /\ tables'.fires[f].at = tables.fires[f].at
             /\ f = e.fire /\ e.type = "FIRE_INTENSITY_CHANGED" =>
                  tables'.fires[f].intensity = e.intensity /\ tables'.fires[f].status = e.status
             /\ f = e.fire /\ e.type # "FIRE_INTENSITY_CHANGED" =>
                  tables'.fires[f].intensity = 0 /\ tables'.fires[f].status = "extinguished"
  <2>1. IsFireRow(tables.fires[f])
    BY <1>1 DEF Facts, Grounded
  <2> QED BY <1>2, <2>1 DEF IsFireRow, RM!FireRow
<1>7. Grounded'
  <2>1. \A r : Row(r)' = Row(r)
    BY <1>2 DEF Row
  <2> QED BY <1>1, <1>2, <1>4, <1>6, <2>1 DEF Facts, Grounded
<1>8. FiresMirrored'
  <2>1. ASSUME NEW f \in Fires \intersect DOMAIN tables.fires
        PROVE  /\ tables'.fires[f].at = world.fires[f].at
               /\ f \notin Burning(sending'.tick) => tables'.fires[f] = world.fires[f]
    <3>1. tables'.fires[f].at = world.fires[f].at
      BY <1>1, <1>6 DEF Facts, FiresMirrored
    <3>2. CASE f # e.fire
      BY <1>1, <1>2, <1>5, <3>1, <3>2 DEF Facts, FiresMirrored
    <3>3. CASE f = e.fire
      <4>1. Burns(world.fires[f], e)
        BY <1>1, <1>5, <3>3 DEF Facts, FiresMirrored
      <4>2. /\ tables'.fires[f].intensity = world.fires[f].intensity
            /\ tables'.fires[f].status = world.fires[f].status
        BY <1>6, <3>3, <4>1 DEF Burns
      <4>3. IsFireRow(tables'.fires[f]) /\ IsFireRow(world.fires[f])
        <5>1. world.fires[f] \in FireType
          BY <1>1, WorldParts DEF Projecting, Sound, NearlySound, IsMission, IsDict, Ids
        <5> QED BY <1>6, <5>1 DEF IsFireRow, FireType
      <4> QED BY <3>1, <4>2, <4>3 DEF IsFireRow
    <3> QED BY <3>2, <3>3
  <2>2. \A d \in Range(sending'.tick) :
          d.type \in RM!OfFire /\ d.fire \in Fires => Burns(world.fires[d.fire], d)
    BY <1>1, <1>5 DEF Facts, FiresMirrored
  <2>3. Heads("FIRE_CREATED") =>
          /\ First.row.at = world.fires[First.fire].at /\ IsFireRow(First.row)
          /\ First.fire \notin Burning(sending'.tick) => First.row = world.fires[First.fire]
    BY <1>1, <1>2, <1>5 DEF Facts, FiresMirrored, Grounded
  <2> QED BY <1>2, <1>4, <2>1, <2>2, <2>3 DEF FiresMirrored
<1>9. Assigned' /\ Newborn'
  <2>1. \A r : Row(r)' = Row(r)
    BY <1>2 DEF Row
  <2>2. Unit(First.responder)' = Unit(First'.responder)
    BY <1>4 DEF Unit
  <2>3. Assigned'
    BY <1>1, <1>2, <1>4, <2>1 DEF Facts, Assigned
  <2>4. Newborn'
    BY <1>1, <1>4, <1>5, <2>2 DEF Facts, Newborn
  <2> QED BY <2>3, <2>4
<1>10. Mirrored'
  <2> SUFFICES ASSUME NEW r \in (Responders \intersect DOMAIN tables.responders) \ disputed
               PROVE  Mirrors(Unit(r), Row(r)', Whole(r), Of(Pending', r))
    BY <1>2, <1>4 DEF Mirrored
  <2>1. Of(Pending, r) = Of(Pending', r)
    BY <1>5, ToldKinds DEF Of
  <2>2. Row(r)' = Row(r)
    BY <1>2 DEF Row
  <2> QED BY <1>1, <2>1, <2>2 DEF Facts, Mirrored
<1> QED BY <1>7, <1>8, <1>9, <1>10 DEF Facts

LEMMA LastingAppended ==
  ASSUME Agreement, NEW task \in Tasks, Publish(task), Projecting', NEW e,
         e = Head(sending[task]), e.type \in Lasting
  PROVE  Facts'
<1>1. Projecting /\ RM!Accepts(tables, e) /\ tables' = RM!Apply(tables, e) /\ Facts /\ Shapes
  BY AppendedTables DEF Agreement
<1>2. /\ IsTables(tables') /\ Ground(tables') = Changed(Ground(tables), e)
      /\ \A r \in DOMAIN tables'.responders :
           /\ Row(r)' = IF e.type = "RESPONDER_CREATED" /\ r = e.responder THEN e.row ELSE Row(r)
           /\ r \in DOMAIN tables.responders \/ (e.type = "RESPONDER_CREATED" /\ r = e.responder)
      /\ \A f \in DOMAIN tables'.fires :
           /\ tables'.fires[f] = IF e.type = "FIRE_CREATED" /\ f = e.fire THEN e.row
                                 ELSE tables.fires[f]
           /\ f \in DOMAIN tables.fires \/ (e.type = "FIRE_CREATED" /\ f = e.fire)
  BY <1>1, LastingApplied DEF Facts, Grounded, Row
<1>3. task = "command"
  BY Appended, ToldKinds, TaskNames
     DEF Lasting, Knowing, Reconciling, RM!OfFire
<1>4. /\ UNCHANGED <<Responders, Fires, WorldGround, world, disputed>>
      /\ \A r : Unit(r)' = Unit(r) /\ Whole(r)' = Whole(r)
      /\ e = First /\ sending.command # << >> /\ Uploading' = Uploading
      /\ Range(sending.command) = {e} \union Range(sending'.command)
      /\ sending'.tick = sending.tick /\ \A type \in Lasting : ~Heads(type)'
  BY <1>3, AppendedRest
<1>5. /\ Pending = {e} \union Pending' /\ sending'.command = Tail(sending.command)
      /\ \A d \in Range(sending'.command) : d.type \in Following
      /\ sending'.telemetry = sending.telemetry
  BY <1>3, Appended, TaskNames
<1>6. "FIRE_CREATED" \in Lasting /\ "RESPONDER_CREATED" \in Lasting
  BY DEF Lasting
<1>7. e.type = "FIRE_CREATED" =>
        /\ Heads("FIRE_CREATED") /\ e.fire \in Fires /\ IsFireRow(e.row)
        /\ e.row.at = world.fires[e.fire].at
        /\ e.fire \notin Burning(sending.tick) => e.row = world.fires[e.fire]
  BY <1>1, <1>4 DEF Heads, Facts, FiresMirrored, Grounded
<1>8. e.type = "RESPONDER_CREATED" =>
        /\ e.row = ResponderResponse(Unit(e.responder)) /\ sending'.command = << >>
        /\ e.responder \notin Named(sending.tick) \union Named(sending.telemetry) \union Uploading
  BY <1>1, <1>4, <1>5 DEF Heads, Facts, Newborn
<1>9. Grounded'
  <2>1. WorldGround' = IF sending'.command = << >> THEN Ground(tables')
                       ELSE Changed(Ground(tables'), First')
    <3>1. WorldGround = Changed(Ground(tables), e)
      BY <1>1, <1>4 DEF Facts, Grounded
    <3>2. sending'.command # << >> => Changed(Ground(tables'), First') = Ground(tables')
      <4>1. sending'.command # << >> => First'.type \in Following
        BY <1>5, AppendedShapes, QueueRest, TaskNames DEF First, Shapes
      <4> QED BY <4>1 DEF Changed, Following
    <3> QED BY <1>2, <1>4, <3>1, <3>2
  <2>2. \A r \in DOMAIN tables'.responders : IsRow(Row(r)')
    <3>1. \A u : IsRow(ResponderResponse(u))
      BY DEF IsRow, ResponderResponse
    <3> QED BY <1>1, <1>2, <1>8, <3>1 DEF Facts, Grounded
  <2>3. \A f \in DOMAIN tables'.fires : IsFireRow(tables'.fires[f])
    BY <1>1, <1>2, <1>7 DEF Facts, Grounded
  <2> QED BY <1>2, <1>4, <1>6, <2>1, <2>2, <2>3 DEF Grounded
<1>10. FiresMirrored'
  <2>1. ASSUME NEW f \in Fires \intersect DOMAIN tables'.fires
        PROVE  /\ tables'.fires[f].at = world.fires[f].at
               /\ f \notin Burning(sending.tick) => tables'.fires[f] = world.fires[f]
    <3>1. CASE e.type = "FIRE_CREATED" /\ f = e.fire
      BY <1>2, <1>7, <3>1
    <3>2. CASE ~(e.type = "FIRE_CREATED" /\ f = e.fire)
      BY <1>1, <1>2, <3>2 DEF Facts, FiresMirrored
    <3> QED BY <3>1, <3>2
  <2>2. \A d \in Range(sending.tick) :
          d.type \in RM!OfFire /\ d.fire \in Fires => Burns(world.fires[d.fire], d)
    BY <1>1 DEF Facts, FiresMirrored
  <2> QED BY <1>4, <1>6, <2>1, <2>2 DEF FiresMirrored
<1>11. e.type \notin Assigning /\ e.type \notin RM!OfResponder
  BY ToldKinds DEF Assigning, Lasting
<1>12. \A r : Of(Range(sending.command), r) = Of(Range(sending'.command), r)
  BY <1>4, <1>11 DEF Of
<1>13. Assigned'
  <2>1. ASSUME NEW r \in Responders \intersect DOMAIN tables'.responders
        PROVE  \/ Row(r)'.assigned_fire = Unit(r).assigned_fire
               \/ Tells(Of(Range(sending'.command), r), Assigning)
    <3>1. CASE e.type = "RESPONDER_CREATED" /\ r = e.responder
      BY <1>2, <1>8, <3>1 DEF ResponderResponse
    <3>2. CASE ~(e.type = "RESPONDER_CREATED" /\ r = e.responder)
      BY <1>1, <1>2, <1>12, <3>2 DEF Facts, Assigned
    <3> QED BY <3>1, <3>2
  <2>2. \A d \in Range(sending'.command) :
          /\ d.type = "RESPONDER_DISPATCHED" =>
               \/ Unit(d.responder).assigned_fire = d.fire
               \/ Tells(Of(Range(sending'.command), d.responder), {"ROUTE_NOT_FOUND"})
          /\ d.type = "ROUTE_NOT_FOUND" => Unit(d.responder).assigned_fire = NoFire
    BY <1>1, <1>4, <1>12 DEF Facts, Assigned
  <2> QED BY <1>4, <2>1, <2>2 DEF Assigned
<1>14. Newborn'
  BY <1>4, <1>6 DEF Newborn
<1>15. Mirrored'
  <2> SUFFICES ASSUME NEW r \in (Responders \intersect DOMAIN tables'.responders) \ disputed
               PROVE  Mirrors(Unit(r), Row(r)', Whole(r), Of(Pending', r))
    BY <1>4 DEF Mirrored
  <2>1. Of(Pending, r) = Of(Pending', r)
    BY <1>5, <1>11 DEF Of
  <2>2. CASE e.type = "RESPONDER_CREATED" /\ r = e.responder
    <3>1. Of(Pending', r) = {}
      <4> SUFFICES ASSUME NEW d \in Pending', d.type \in RM!OfResponder, d.responder = r
                   PROVE  FALSE
        BY DEF Of
      <4>1. d \notin Range(sending'.command)
        BY <1>8, <2>2, QueueFew
      <4>2. d \notin Range(sending'.tick) \union Range(sending'.telemetry)
        BY <1>4, <1>5, <1>8, <2>2, NamedIs
      <4>3. d \notin Uploaded'
        <5> SUFFICES ASSUME d \in Uploaded'
                     PROVE  FALSE
          OBVIOUS
        <5>1. PICK i \in reconciled' + 1 .. Len(telemetry') : d \in Arriving(telemetry'[i])
          BY DEF Uploaded
        <5>2. telemetry'[i].responder = r
          BY <5>1, ArrivingIs
        <5>3. r \in Uploading'
          BY <5>1, <5>2 DEF Uploading
        <5> QED BY <1>4, <1>8, <2>2, <5>3
      <4>4. d \notin ToUpload'
        BY <1>4, <1>8, <2>2, ArrivingIs DEF ToUpload, Uploading
      <4> QED BY <4>1, <4>2, <4>3, <4>4 DEF Pending
    <3>2. Row(r)' = ResponderResponse(Unit(r))
      BY <1>2, <1>8, <2>2
    <3> QED BY <3>1, <3>2 DEF Mirrors, ResponderResponse
  <2>3. CASE ~(e.type = "RESPONDER_CREATED" /\ r = e.responder)
    BY <1>1, <1>2, <2>1, <2>3 DEF Facts, Mirrored
  <2> QED BY <2>2, <2>3
<1> QED BY <1>9, <1>10, <1>13, <1>14, <1>15 DEF Facts

LEMMA PublishAgreement ==
  ASSUME Inductive, Agreement, NEW task \in Tasks, Publish(task)
  PROVE  Agreement'
<1> DEFINE e == Head(sending[task])
<1>1. e.type \in RM!OfResponder \union RM!OfFire \union Lasting
  BY Appended, ToldKinds DEF Told
<1> HIDE DEF e
<1>2. Projecting' => Facts'
  BY <1>1, ResponderAppended, FireAppended, LastingAppended DEF e
<1> QED BY <1>2, AppendedShapes DEF Agreement

LEMMA InitAgreement == PInit => Agreement
<1> SUFFICES ASSUME PInit
             PROVE  Agreement
  OBVIOUS
<1>1. /\ world = NoMission /\ tick = At("sleep") /\ upload = Idle /\ telemetry = << >>
      /\ tables = RM!MissionRows /\ reconciled = 0
      /\ sending = [task \in Tasks |-> << >>]
  BY DEF PInit, Init
<1>2. /\ sending = [task \in Tasks |-> sending[task]]
      /\ sending.command = << >> /\ sending.tick = << >> /\ sending.telemetry = << >>
      /\ \A task \in Tasks : sending[task] = << >>
  BY <1>1, TaskNames
<1>3. /\ IsQueue(<< >>) /\ Range(<< >>) = {} /\ Named(<< >>) = {} /\ Burning(<< >>) = {}
  BY QueueFew DEF Named, Burning
<1>4. Uploading = {} /\ ~Exists /\ tick.phase = "sleep"
  BY <1>1 DEF Uploading, Exists, At
<1>5. telemetry \in Seq(Message) /\ reconciled \in 0 .. Len(telemetry)
  BY <1>1
<1>6. Shapes
  BY <1>1, <1>2, <1>3, <1>4, <1>5 DEF Shapes
<1> QED BY <1>4, <1>6 DEF Agreement, Projecting

LEMMA StillAgreement ==
  ASSUME Agreement, UNCHANGED pvars
  PROVE  Agreement'
<1>1. UNCHANGED <<vars, tables, refused, sending, reconciled, disputed>>
  BY DEF pvars
<1>2. UNCHANGED <<world, tick, upload, telemetry, drawn>>
  BY <1>1 DEF vars
<1>3. /\ UNCHANGED <<Exists, Responders, Fires, WorldGround, Uploading, Uploaded, ToUpload, First>>
      /\ \A r : Unit(r)' = Unit(r) /\ Row(r)' = Row(r) /\ Whole(r)' = Whole(r)
      /\ \A type : Heads(type)' = Heads(type)
  BY <1>1, <1>2 DEF Exists, Responders, Fires, WorldGround, Uploading, Uploaded, ToUpload, First,
     Heads, Unit, Row, Whole, NeverDark
<1>4. Pending' = Pending /\ Projecting' = Projecting /\ Ground(tables)' = Ground(tables)
  BY <1>1, <1>3 DEF Pending, Projecting, Ground
<1>5. Shapes => Shapes'
  BY <1>1, <1>2, <1>3 DEF Shapes
<1>6. Grounded => Grounded'
  BY <1>1, <1>3, <1>4 DEF Grounded
<1>7. FiresMirrored => FiresMirrored'
  BY <1>1, <1>2, <1>3 DEF FiresMirrored
<1>8. Assigned => Assigned'
  <2>1. \A e : Unit(e.responder)' = Unit(e.responder)
    BY <1>3
  <2> QED BY <1>1, <1>3, <2>1 DEF Assigned
<1>9. Newborn => Newborn'
  <2>1. Unit(First.responder)' = Unit(First.responder)
    BY <1>3 DEF Unit
  <2> QED BY <1>1, <1>3, <2>1 DEF Newborn
<1>10. Mirrored => Mirrored'
  BY <1>1, <1>3, <1>4 DEF Mirrored
<1> QED BY <1>4, <1>5, <1>6, <1>7, <1>8, <1>9, <1>10 DEF Agreement, Facts

LEMMA NextAgreement ==
  ASSUME Inductive, Agreement, [PNext]_pvars
  PROVE  Agreement'
<1>1. CASE PLoop
  <2>1. Shapes /\ sending.tick = << >>
        /\ UNCHANGED <<tables, refused, sending, reconciled, disputed>>
    BY <1>1 DEF PLoop, Agreement
  <2>2. CASE StartFlush
    <3>1. upload = Idle /\ tick.phase # "sleep" /\ UNCHANGED <<telemetry, drawn>>
      BY <2>1, <2>2 DEF StartFlush, Shapes
    <3> QED BY <2>1, <2>2, <3>1, LoopAgreement DEF StartFlush
  <2>3. CASE ContinueFlush
    <3>1. upload = Idle /\ tick.phase # "sleep" /\ UNCHANGED <<telemetry, drawn>>
      BY <2>3 DEF ContinueFlush
    <3> QED BY <2>1, <2>3, <3>1, LoopAgreement DEF ContinueFlush
  <2>4. CASE CommitUpload \/ DictChanged
    BY <2>1, <2>4, CommitAgreement
  <2> QED BY <1>1, <2>2, <2>3, <2>4 DEF PLoop
<1>2. CASE UNCHANGED pvars
  BY <1>2, StillAgreement
<1> QED BY <1>1, <1>2, CommandAgreement, TickAgreement, SendAgreement, FailAgreement,
      ReconcileAgreement, PublishAgreement DEF PNext

LEMMA StepIsNext == [PNext]_pvars => [Next]_vars
BY DEF PNext, PCommand, PTick, PLoop, PSend, PRefuseRows, PFail, Reconcile, Publish, Project, pvars,
  Next, TickTask

LEMMA AlwaysAgreement == PSpec => [](Inductive /\ Agreement)
<1>1. PInit => Inductive /\ Agreement
  BY InitInductive, InitAgreement DEF PInit
<1>2. Inductive /\ Agreement /\ [PNext]_pvars => (Inductive /\ Agreement)'
  BY NextInductive, NextAgreement, StepIsNext
<1> QED BY <1>1, <1>2, PTL DEF PSpec

(* What the world has is in the tables or about to be. *)
LEMMA InTables ==
  ASSUME Agreement, Projecting
  PROVE  /\ \A r \in Responders :
              r \in DOMAIN tables.responders \/ (Heads("RESPONDER_CREATED") /\ First.responder = r)
         /\ \A f \in Fires :
              f \in DOMAIN tables.fires \/ (Heads("FIRE_CREATED") /\ First.fire = f)
         /\ (sending.command = << >> \/ First.type \notin Lasting) => WorldGround = Ground(tables)
<1>1. WorldGround = IF sending.command = << >> THEN Ground(tables)
                    ELSE Changed(Ground(tables), First)
  BY DEF Agreement, Facts, Grounded
<1>2. CASE sending.command = << >> \/ First.type \notin Lasting
  <2>1. WorldGround = Ground(tables)
    BY <1>1, <1>2 DEF Changed, Lasting
  <2>2. Responders = DOMAIN tables.responders /\ Fires = DOMAIN tables.fires
    BY <2>1 DEF WorldGround, Ground
  <2> QED BY <2>1, <2>2
<1>3. CASE sending.command # << >> /\ First.type \in Lasting
  <2>1. /\ Responders = Changed(Ground(tables), First).responders
        /\ Fires = Changed(Ground(tables), First).fires
    BY <1>1, <1>3 DEF WorldGround
  <2>2. CASE First.type = "FIRE_CREATED"
    <3>1. Changed(Ground(tables), First) = [Ground(tables) EXCEPT !.fires = @ \union {First.fire}]
      BY <2>2 DEF Changed
    <3> QED BY <1>3, <2>1, <2>2, <3>1 DEF Ground, Heads
  <2>3. CASE First.type = "RESPONDER_CREATED"
    <3>1. Changed(Ground(tables), First)
            = [Ground(tables) EXCEPT !.responders = @ \union {First.responder}]
      BY <2>3 DEF Changed
    <3> QED BY <1>3, <2>1, <2>3, <3>1 DEF Ground, Heads
  <2>4. CASE First.type \notin {"FIRE_CREATED", "RESPONDER_CREATED"}
    <3>1. /\ Changed(Ground(tables), First).responders \subseteq DOMAIN tables.responders
          /\ Changed(Ground(tables), First).fires \subseteq DOMAIN tables.fires
      BY <1>3, <2>4 DEF Changed, Ground, Lasting
    <3> QED BY <1>3, <2>1, <3>1
  <2> QED BY <2>2, <2>3, <2>4
<1> QED BY <1>2, <1>3
-----------------------------------------------------------------------------
(* 15. The read model. *)

(* Nothing stops the projector of a mission but the mountain placed twice, *)
(* the reset the constraints refuse and, from the tick task and the        *)
(* telemetry worker, an event that commands have overtaken: whatever order *)
(* the three tasks append in, every other event finds the rows it is about *)
(* and none creates a row that is there.                                   *)
THEOREM ProjectorStopsOnlyAt == PSpec => []StopsOnlyAt
<1>1. Agreement => StopsOnlyAt
  <2> SUFFICES ASSUME Agreement, Projecting, NEW task \in Tasks, sending[task] # << >>,
                      NEW e, e = Head(sending[task]), ~RM!Accepts(tables, e),
                      e.type \notin {"MOUNTAIN_PLACED", "MISSION_RESET"}
               PROVE  task # "command" /\ Overtaken(e)
    BY DEF StopsOnlyAt
  <2>1. Shapes /\ Facts /\ tables # RM!NoTables
    BY TablesExist DEF Agreement, Facts, Grounded
  <2>2. e \in Range(sending[task])
    BY <2>1, QueueRest DEF Shapes
  <2>3. task = "command" => e = First
    BY DEF First
  <2>4. CASE e.type \in RM!OfResponder /\ e.responder \notin DOMAIN tables.responders
    <3>1. \/ e.responder \notin Responders
          \/ Heads("RESPONDER_CREATED") /\ First.responder = e.responder
      BY <2>4, InTables
    <3>2. CASE task = "command"
      <4>1. e.responder \in Responders
        BY <2>1, <2>2, <2>4, <3>2 DEF Shapes
      <4>2. First.type # "RESPONDER_CREATED"
        BY <2>3, <2>4, <3>2 DEF RM!OfResponder
      <4> QED BY <3>1, <4>1, <4>2 DEF Heads
    <3>3. CASE task # "command"
      <4>1. e.responder \in Named(sending.tick) \union Named(sending.telemetry)
        BY <2>2, <2>4, <3>3, NamedIs, TaskNames
      <4>2. e.responder \notin Responders
        BY <2>1, <3>1, <4>1 DEF Facts, Newborn
      <4> QED BY <2>4, <3>3, <4>2 DEF Overtaken
    <3> QED BY <3>2, <3>3
  <2>5. CASE e.type \in RM!OfFire /\ e.fire \notin DOMAIN tables.fires
    <3>1. task # "command"
      BY <2>1, <2>2, <2>5, ToldKinds DEF Shapes
    <3>2. CASE e.fire \notin Fires
      BY <2>5, <3>1, <3>2 DEF Overtaken
    <3>3. CASE e.fire \in Fires
      <4>1. Heads("FIRE_CREATED") /\ First.fire = e.fire
        BY <2>5, <3>3, InTables
      <4>2. First \in Range(sending.command)
        BY <2>1, <4>1, QueueRest, TaskNames DEF Shapes, Heads, First
      <4>3. \E i \in DOMAIN sending.command : sending.command[i] = First
        BY <4>2 DEF Range
      <4> QED BY <2>5, <3>1, <4>1, <4>3 DEF Overtaken, Heads
    <3> QED BY <3>2, <3>3
  <2>6. ASSUME e.type \in {"FIRE_CREATED", "RESPONDER_CREATED", "RESPONDER_DISPATCHED"}
        PROVE  task = "command"
    BY <2>1, <2>2, <2>6, TaskNames DEF Shapes, Knowing, Reconciling, RM!OfFire
  <2>7. CASE e.type = "FIRE_CREATED" /\ e.fire \in DOMAIN tables.fires
    BY <2>1, <2>3, <2>6, <2>7 DEF Facts, Grounded, Heads
  <2>8. CASE e.type = "RESPONDER_CREATED" /\ e.responder \in DOMAIN tables.responders
    BY <2>1, <2>3, <2>6, <2>8 DEF Facts, Grounded, Heads
  <2>9. CASE e.type = "RESPONDER_DISPATCHED" /\ e.fire \notin DOMAIN tables.fires
    <3>1. e.fire \in Fires
      BY <2>1, <2>2, <2>6, <2>9 DEF Shapes
    <3> QED BY <2>3, <2>6, <2>9, <3>1, InTables DEF Heads
  <2> QED BY <2>1, <2>4, <2>5, <2>7, <2>8, <2>9 DEF RM!Accepts
<1> QED BY <1>1, AlwaysAgreement, PTL

(* Unless the projector has stopped, the tables have the mission of the    *)
(* world but for what is on its way and what two tasks have told at once:  *)
(* the terrain, the fires, and of each responder what mission control is   *)
(* to know, where it is once its backlog is uploaded, and everything if it *)
(* has never been dark.                                                    *)
THEOREM TablesMirrorTheWorld == PSpec => []ReadModelAgrees
<1>1. Agreement => ReadModelAgrees
  <2> SUFFICES ASSUME Agreement, Projecting
               PROVE  CommandsAgree /\ FiresAgree /\ RespondersAgree
    BY DEF ReadModelAgrees
  <2>1. Shapes /\ Facts
    BY DEF Agreement
  <2>2. CommandsAgree
    <3> SUFFICES ASSUME sending.command = << >>
                 PROVE  /\ tables.control = world.control
                        /\ tables.cells = world.mountains
                        /\ DOMAIN tables.fires = Fires
                        /\ DOMAIN tables.responders = Responders
                        /\ \A r \in Responders : Row(r).assigned_fire = Unit(r).assigned_fire
      BY DEF CommandsAgree
    <3>1. WorldGround = Ground(tables)
      BY InTables
    <3>2. /\ tables.control = world.control /\ tables.cells = world.mountains
          /\ DOMAIN tables.fires = Fires /\ DOMAIN tables.responders = Responders
      BY <3>1 DEF WorldGround, Ground
    <3>3. \A r : ~Tells(Of(Range(sending.command), r), Assigning)
      BY QueueFew DEF Tells, Of
    <3> QED BY <2>1, <3>2, <3>3 DEF Facts, Assigned
  <2>3. FiresAgree
    <3> SUFFICES ASSUME NEW f \in Fires,
                        f \notin Burning(sending.command) \union Burning(sending.tick)
                 PROVE  tables.fires[f] = world.fires[f]
      BY DEF FiresAgree
    <3>1. f \in DOMAIN tables.fires
      <4> SUFFICES ASSUME Heads("FIRE_CREATED"), First.fire = f
                   PROVE  FALSE
        BY InTables
      <4>1. First \in Range(sending.command)
        BY <2>1, QueueRest, TaskNames DEF Shapes, Heads, First
      <4> QED BY <4>1, NamedIs DEF Heads
    <3> QED BY <2>1, <3>1 DEF Facts, FiresMirrored
  <2>4. RespondersAgree
    <3> SUFFICES ASSUME NEW r \in Responders \ (OnTheWay \union disputed)
                 PROVE  /\ Row(r).signal_status = Unit(r).signal_status
                        /\ Row(r).last_known = Unit(r).last_known
                        /\ Unit(r).local_log = << >> => Row(r).at = Unit(r).at
                        /\ NeverDark(r) =>
                             /\ Row(r).status = Unit(r).status
                             /\ Row(r).path_index = Unit(r).path_index
      BY DEF RespondersAgree
    <3>1. r \notin Named(sending.command) /\ r \notin Uploading
      BY TaskNames DEF OnTheWay
    <3>2. r \in DOMAIN tables.responders
      <4> SUFFICES ASSUME Heads("RESPONDER_CREATED"), First.responder = r
                   PROVE  FALSE
        BY InTables
      <4>1. First \in Range(sending.command)
        BY <2>1, QueueRest, TaskNames DEF Shapes, Heads, First
      <4> QED BY <3>1, <4>1, NamedIs DEF Heads
    <3>3. Mirrors(Unit(r), Row(r), Whole(r), {})
      BY <2>1, <3>2, NothingComing DEF Facts, Mirrored
    <3>4. NeverDark(r) => Whole(r)
      BY <3>1 DEF Whole, Uploading
    <3> QED BY <3>3, <3>4 DEF Mirrors, Tells
  <2> QED BY <2>2, <2>3, <2>4
<1> QED BY <1>1, AlwaysAgreement, PTL
=============================================================================
