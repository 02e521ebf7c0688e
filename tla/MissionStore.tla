---------------------------- MODULE MissionStore ----------------------------
(***************************************************************************)
(* web store/missionStore.ts and hooks/useTacticalState.ts: the projected  *)
(* mission a console holds, the log it shows and the time travel it allows.*)
(* A store is a record and each operation of the store an operator on it.  *)
(*                                                                         *)
(*   state     the mission now, NoState before the first snapshot          *)
(*   events    the log, newest first, at most MaxEvents of them            *)
(*   base      the mission the timeline starts from                        *)
(*   timeline  the events since, oldest first                              *)
(*   cursor    the event whose state the tactical view shows, NoEvent live *)
(*                                                                         *)
(* What an event does to a mission is a parameter; an event has an id.     *)
(* Selection, tool and notices are kept by the module of the grid.         *)
(***************************************************************************)
EXTENDS Naturals, Sequences

CONSTANTS Reduce(_, _),      \* the mission after an event
          MaxEvents,         \* MAX_EVENTS, 100 in the code
          NoState, NoEvent

ASSUME MaxEventsAssumption == MaxEvents \in Nat \ {0}

Empty == [state |-> NoState, events |-> << >>, base |-> NoState,
          timeline |-> << >>, cursor |-> NoEvent]

(* A mission with events reduced into it, in order. *)
Fold(mission, es) ==
  LET after[i \in 0 .. Len(es)] ==
        IF i = 0 THEN mission ELSE Reduce(after[i - 1], es[i])
  IN  after[Len(es)]

SetSnapshot(store, mission, recent) ==
  [state |-> mission, events |-> recent, base |-> mission,
   timeline |-> << >>, cursor |-> NoEvent]

InLog(store, e) == \E i \in DOMAIN store.events : store.events[i].id = e.id

Newest(es) == SubSeq(es, 1, IF Len(es) > MaxEvents THEN MaxEvents ELSE Len(es))

(* Fault: the log's copy of an event does not stop it from being applied. *)
AppliesTwice(store, e) == store.state # NoState

Applies(store, e) == store.state # NoState /\ ~InLog(store, e)

(* Fault: the event that overflows the timeline is dropped, not folded. *)
ForgetOldest(store, e) ==
  [base |-> store.base, timeline |-> Tail(Append(store.timeline, e))]

(* A timeline that overflows folds its oldest event into the base.  It is  *)
(* never more than one over, so the code's loop runs at most once.         *)
FoldOldest(store, e) ==
  LET grown == Append(store.timeline, e)
  IN  [base |-> Reduce(store.base, Head(grown)), timeline |-> Tail(grown)]

Extended(store, e) ==
  IF Len(store.timeline) < MaxEvents
  THEN [base |-> store.base, timeline |-> Append(store.timeline, e)]
  ELSE FoldOldest(store, e)

ApplyEvent(store, e) ==
  IF ~Applies(store, e) THEN store
  ELSE [state |-> Reduce(store.state, e),
        events |-> Newest(<<e>> \o store.events),
        base |-> Extended(store, e).base,
        timeline |-> Extended(store, e).timeline,
        cursor |-> store.cursor]

SetReplayCursor(store, e) == [store EXCEPT !.cursor = e]

(* Where the cursor is in the timeline: nowhere if its event is older than *)
(* the base.                                                               *)
CursorAt(store) == {i \in DOMAIN store.timeline : store.timeline[i].id = store.cursor.id}

(* Fault: the frame stops short of the cursor's event. *)
TacticalStateBefore(store) ==
  IF store.cursor = NoEvent \/ store.base = NoState THEN store.state
  ELSE IF CursorAt(store) = {} THEN store.base
  ELSE LET i == CHOOSE i \in CursorAt(store) : \A j \in CursorAt(store) : i <= j
       IN  Fold(store.base, SubSeq(store.timeline, 1, i - 1))

(* The mission the tactical display draws. *)
TacticalState(store) ==
  IF store.cursor = NoEvent \/ store.base = NoState THEN store.state
  ELSE IF CursorAt(store) = {} THEN store.base
  ELSE LET i == CHOOSE i \in CursorAt(store) : \A j \in CursorAt(store) : i <= j
       IN  Fold(store.base, SubSeq(store.timeline, 1, i))
=============================================================================
