----------------------------- MODULE MockBackend -----------------------------
(***************************************************************************)
(* lib/mock/mockBackend.ts: the simulation the browser runs in place of    *)
(* the server when NEXT_PUBLIC_MOCK is set, for one mission.  A command    *)
(* runs to its end before anything else does, and so does the tick of its  *)
(* timer: each is an operator on the world, a record of                    *)
(*                                                                         *)
(*   exists, control, mountains, fires, responders                         *)
(*              the mission; fires and responders are the ids it lists     *)
(*   heap       the fire and responder objects, by id: listed, or reset    *)
(*              but still in a payload                                     *)
(*   recent     recent_events                                              *)
(*   drawn      ids drawn so far                                           *)
(*   listening  whether a page is subscribed                               *)
(*   store      the store of that page                                     *)
(*                                                                         *)
(* An event reaches the store inside the command, between its assignments. *)
(* The payloads of FIRE_CREATED and RESPONDER_CREATED are the mock's own   *)
(* objects.                                                                *)
(***************************************************************************)
EXTENDS MissionReducer, Integers, Sequences, FiniteSets, SequencesExt

CONSTANTS Spawn,             \* mission control at first and after a reset
          Grid,
          Sees(_, _, _),     \* hasLineOfSight(control, cell, mountains)
          PathBetween(_, _, _), \* findPath(from, to, mountains); << >> is null
          FireIntensity,     \* DEFAULT_INTENSITY
          MaxRecent,         \* MAX_RECENT_EVENTS
          MaxEvents,         \* MAX_EVENTS of the store
          NoEvent

ASSUME LimitsAssumption ==
  FireIntensity \in Nat \ {0} /\ MaxRecent \in Nat /\ MaxEvents \in Nat \ {0}

NoState == << >>             \* null: the store holds no mission

ExtinguishRate == 5          \* EXTINGUISH_RATE

(* The store of the page, while the objects are as they are in heap. *)
Store(heap) == INSTANCE MissionStore WITH Reduce <- LAMBDA m, e : Reduce(heap, m, e)

EmptyStore == [state |-> NoState, events |-> << >>, base |-> NoState,
               timeline |-> << >>, cursor |-> NoEvent]

NoWorld == [exists |-> FALSE, control |-> Spawn, mountains |-> {}, fires |-> {},
            responders |-> {}, heap |-> [fires |-> << >>, responders |-> << >>],
            recent |-> << >>, drawn |-> 0, listening |-> FALSE, store |-> EmptyStore]

(* An event gets the next id. *)
Numbered(n, e) == [k \in DOMAIN e \union {"id"} |-> IF k = "id" THEN n ELSE e[k]]

Emit(w, e) ==
  LET event == Numbered(w.drawn + 1, e)
      recent == <<event>> \o w.recent
  IN  [w EXCEPT !.drawn = @ + 1,
                !.recent = SubSeq(recent, 1, IF Len(recent) > MaxRecent THEN MaxRecent ELSE Len(recent)),
                !.store = IF w.listening THEN Store(w.heap)!ApplyEvent(@, event) ELSE @]

SetResponder(w, r, row) == [w EXCEPT !.heap.responders[r] = row]
SetFire(w, f, row) == [w EXCEPT !.heap.fires[f] = row]

(* The order of the code's lists. *)
InOrder(ids) ==
  FlattenSeq([i \in 1 .. Max(ids \union {0}) |-> IF i \in ids THEN <<i>> ELSE << >>])
-----------------------------------------------------------------------------
Resignal(w, r) ==
  LET row == w.heap.responders[r]
      sees == Sees(w.control, row.at, w.mountains)
      lost == [type |-> "SIGNAL_LOST", responder |-> r, last_known |-> row.last_known]
      restored == [type |-> "SIGNAL_RESTORED", responder |-> r, position |-> row.at]
  IN  IF ~sees /\ row.signal_status # "blocked"
      THEN Emit(SetResponder(w, r, [row EXCEPT !.signal_status = "blocked"]), lost)
      ELSE IF sees /\ row.signal_status = "blocked"
      THEN Emit(SetResponder(w, r, [row EXCEPT !.signal_status = "connected",
                                               !.last_known = row.at]), restored)
      ELSE w

RecomputeSignals(w) == FoldLeft(Resignal, w, InOrder(w.responders))

(* An event and the recomputation that follows it. *)
Announce(w, e) == RecomputeSignals(Emit(w, e))
-----------------------------------------------------------------------------
(* Commands *)

CreateMission == Emit([NoWorld EXCEPT !.exists = TRUE], [type |-> "MISSION_CREATED"])

BurningAt(w, cell) ==
  {f \in w.fires : w.heap.fires[f].at = cell /\ w.heap.fires[f].status # "extinguished"}

PlaceFire(w, cell) ==
  LET f == w.drawn + 1
      row == [at |-> cell, intensity |-> FireIntensity, status |-> "active"]
  IN  IF cell \notin Grid \/ cell \in w.mountains \/ BurningAt(w, cell) # {} THEN w
      ELSE Emit([w EXCEPT !.drawn = f, !.fires = @ \union {f},
                          !.heap.fires = Put(@, f, row)],
                [type |-> "FIRE_CREATED", fire |-> f, row |-> Shared])

PlaceMountain(w, cell) ==
  IF cell \notin Grid \/ cell \in w.mountains THEN w
  ELSE Announce([w EXCEPT !.mountains = @ \union {cell}],
                [type |-> "MOUNTAIN_PLACED", cell |-> cell])

RemoveMountain(w, cell) ==
  IF cell \notin w.mountains THEN w
  ELSE Announce([w EXCEPT !.mountains = @ \ {cell}],
                [type |-> "MOUNTAIN_REMOVED", cell |-> cell])

CreateResponder(w, cell) ==
  LET r == w.drawn + 1
      row == [at |-> cell, last_known |-> cell, status |-> "idle",
              signal_status |-> "connected", assigned_fire |-> NoFire,
              path |-> NoPath, path_index |-> 0]
  IN  IF cell \notin Grid THEN w
      ELSE Announce([w EXCEPT !.drawn = r, !.responders = @ \union {r},
                              !.heap.responders = Put(@, r, row)],
                    [type |-> "RESPONDER_CREATED", responder |-> r, row |-> Shared])

Assign(w, r, f) ==
  Emit(SetResponder(w, r, [w.heap.responders[r] EXCEPT !.assigned_fire = f]),
       [type |-> "RESPONDER_DISPATCHED", responder |-> r, fire |-> f])

Unroute(w, r, f) ==
  Emit(SetResponder(w, r, [w.heap.responders[r] EXCEPT !.status = "idle",
                                                       !.assigned_fire = NoFire,
                                                       !.path = NoPath]),
       [type |-> "ROUTE_NOT_FOUND", responder |-> r, fire |-> f])

Route(w, r, path) ==
  Emit(SetResponder(w, r, [w.heap.responders[r] EXCEPT !.path = path, !.path_index = 0,
                                                       !.status = "moving"]),
       [type |-> "RESPONDER_PATH_ASSIGNED", responder |-> r, path |-> path])

DispatchResponder(w, r, f) ==
  LET path == PathBetween(w.heap.responders[r].at, w.heap.fires[f].at, w.mountains)
  IN  IF r \notin w.responders \/ f \notin w.fires THEN w
      ELSE IF w.heap.fires[f].status = "extinguished" THEN w
      ELSE IF path = NoPath THEN Unroute(Assign(w, r, f), r, f)
      ELSE Route(Assign(w, r, f), r, path)

MoveMissionControl(w, cell) ==
  Announce([w EXCEPT !.control = cell], [type |-> "MISSION_CONTROL_MOVED", cell |-> cell])

ResetMission(w) ==
  Emit([w EXCEPT !.mountains = {}, !.fires = {}, !.responders = {}, !.control = Spawn],
       [type |-> "MISSION_RESET", cell |-> Spawn])
-----------------------------------------------------------------------------
(* The tick *)

(* The last known position follows while the signal was there before the   *)
(* move: it is recomputed after.                                           *)
EmitMove(w, r) ==
  LET row == w.heap.responders[r]
      told == [row EXCEPT !.last_known = IF row.signal_status = "connected" THEN row.at ELSE @]
  IN  Emit(SetResponder(w, r, told),
           [type |-> "RESPONDER_MOVED", responder |-> r, position |-> told.at,
            last_known |-> told.last_known, path_index |-> told.path_index,
            status |-> told.status, signal_status |-> told.signal_status])

AtItsFire(w, row) == row.assigned_fire \in w.fires /\ w.heap.fires[row.assigned_fire].at = row.at

Arrived(w, row) == [row EXCEPT !.status = IF AtItsFire(w, row) THEN "fighting_fire" ELSE "idle"]

Moved(w, row) ==
  LET index == row.path_index + 1
      next == [row EXCEPT !.path_index = index, !.at = row.path[index + 1]]
  IN  IF row.path_index >= Len(row.path) - 1 THEN Arrived(w, row)
      ELSE IF index >= Len(row.path) - 1 THEN Arrived(w, next)
      ELSE next

MoveResponder(w, r) ==
  LET row == w.heap.responders[r]
  IN  IF row.status # "moving" \/ row.path = NoPath THEN w
      ELSE EmitMove(SetResponder(w, r, Moved(w, row)), r)

Crew(w, cell) ==
  Cardinality({r \in w.responders : /\ w.heap.responders[r].at = cell
                                    /\ w.heap.responders[r].status = "fighting_fire"})

Stop(w, r) ==
  EmitMove(SetResponder(w, r, [w.heap.responders[r] EXCEPT !.status = "idle",
                                                           !.assigned_fire = NoFire,
                                                           !.path = NoPath]), r)

AssignedTo(w, f) == {r \in w.responders : w.heap.responders[r].assigned_fire = f}

(* Fault: a crew that has arrived is not stood down. *)
StandDownEnRoute(w, f) ==
  FoldLeft(Stop, w, InOrder({r \in AssignedTo(w, f) : w.heap.responders[r].status = "moving"}))

(* Whoever was assigned to the fire, wherever it is. *)
StandDown(w, f) == FoldLeft(Stop, w, InOrder(AssignedTo(w, f)))

Dampen(w, f, left) ==
  LET out == left = 0
      fire == w.heap.fires[f]
      burnt == [fire EXCEPT !.intensity = left, !.status = IF out THEN "extinguished" ELSE @]
      told == Emit(SetFire(w, f, burnt),
                   [type |-> "FIRE_INTENSITY_CHANGED", fire |-> f, intensity |-> left,
                    status |-> burnt.status])
  IN  IF out THEN StandDown(Emit(told, [type |-> "FIRE_EXTINGUISHED", fire |-> f]), f) ELSE told

ApplyFire(w, f) ==
  LET fire == w.heap.fires[f]
      water == Crew(w, fire.at) * ExtinguishRate
  IN  IF fire.status = "extinguished" \/ water = 0 THEN w
      ELSE Dampen(w, f, IF fire.intensity > water THEN fire.intensity - water ELSE 0)

Tick(w) ==
  LET moved == FoldLeft(MoveResponder, w, InOrder(w.responders))
      seen == RecomputeSignals(moved)
  IN  FoldLeft(ApplyFire, seen, InOrder(seen.fires))
-----------------------------------------------------------------------------
(* The mission by value, as structuredClone gives it and as it is shown. *)
Mission(w) ==
  [control |-> w.control, mountains |-> w.mountains,
   fires |-> [f \in w.fires |-> w.heap.fires[f]],
   responders |-> [r \in w.responders |-> w.heap.responders[r]]]
=============================================================================
