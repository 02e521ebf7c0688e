------------------------------ MODULE Console ------------------------------
(***************************************************************************)
(* An operator's console over one mission: the store of MissionStore fed   *)
(* with snapshots and events, and the replay of its log.  The controller   *)
(* of hooks/useArchitectureSignals.ts pushes a cursor into the store event *)
(* by event, on a timer; ReplayControls and ReplayEventList are its        *)
(* buttons; hiding, showing, expanding or restoring the System Data Flow   *)
(* panel unmounts it, with its timer, and mounts another.                  *)
(*                                                                         *)
(* The mission's events are the constant Log.  What the server sends is    *)
(* LiveFeed's subject: here a snapshot is of any prefix of Log and live    *)
(* events come in order, none twice, some lost when a snapshot follows.    *)
(***************************************************************************)
EXTENDS MissionStore, SequencesExt

CONSTANTS Mission,         \* projected missions
          FirstMission,    \* the mission before its first event
          Log,             \* its events, in order
          MaxRecent,       \* RECENT_EVENTS_LIMIT: events a snapshot comes with
          MaxSnapshots     \* bound: snapshots received

Event == {Log[i] : i \in DOMAIN Log}
Id == {e.id : e \in Event}

ASSUME MissionAssumption == FirstMission \in Mission /\ NoState \notin Mission
ASSUME EventAssumption == NoEvent \notin Event
ASSUME ReduceAssumption == \A m \in Mission, e \in Event : Reduce(m, e) \in Mission
ASSUME LogAssumption ==
  Log \in Seq(Event) /\ \A i, j \in DOMAIN Log : Log[i].id = Log[j].id => i = j
ASSUME RecentAssumption == MaxRecent \in Nat /\ MaxRecent <= MaxEvents

VARIABLES
  store,       \* useMissionStore
  next,        \* live events sent so far
  snapshots,   \* snapshots received so far
  seen,        \* the mission the operator saw after each event (history)
  panel,       \* the data flow panel: "hidden", "compact" or "expanded"
  replay       \* its replay controller

vars == <<store, next, snapshots, seen, panel, replay>>

(* A controller that has just been mounted.  timers counts the timeouts    *)
(* that are pending, whether or not the controller still knows of them.    *)
Fresh == [status |-> "idle", buffer |-> << >>, index |-> 0,
          current |-> NoEvent, timers |-> 0]

Init ==
  /\ store = Empty /\ next = 0 /\ snapshots = 0
  /\ seen = [id \in Id |-> NoState]
  /\ panel = "compact" /\ replay = Fresh
-----------------------------------------------------------------------------
(* The feed *)

Deliver ==
  /\ next < Len(Log)
  /\ next' = next + 1
  /\ LET e == Log[next + 1]
     IN  /\ store' = ApplyEvent(store, e)
         /\ seen' = IF Applies(store, e) THEN [seen EXCEPT ![e.id] = store'.state] ELSE seen
  /\ UNCHANGED <<snapshots, panel, replay>>

(* The events of a snapshot of the first p, newest first. *)
Recent(p) == [i \in 1 .. IF p < MaxRecent THEN p ELSE MaxRecent |-> Log[p + 1 - i]]

Snapshot(p, resumed) ==
  /\ snapshots < MaxSnapshots
  /\ snapshots' = snapshots + 1
  /\ store' = SetSnapshot(store, Fold(FirstMission, SubSeq(Log, 1, p)), Recent(p))
  /\ next' = resumed
  /\ UNCHANGED <<seen, panel, replay>>

Feed ==
  \/ Deliver
  \/ \E p \in 0 .. Len(Log), resumed \in next .. Len(Log) : Snapshot(p, resumed)
-----------------------------------------------------------------------------
(* The replay controller *)

(* clearTimer: exact while at most one timeout is pending. *)
Cleared(r) == [r EXCEPT !.timers = IF @ = 0 THEN 0 ELSE @ - 1]

(* snapshot() of the controller. *)
Buffered(r) == [r EXCEPT !.buffer = Reverse(store.events), !.index = 0]

Show(r) ==
  /\ replay' = [r EXCEPT !.current = r.buffer[r.index + 1], !.index = @ + 1,
                         !.timers = @ + 1]
  /\ store' = SetReplayCursor(store, r.buffer[r.index + 1])

(* Fault: at its end the replay starts over. *)
StartOver(r) == Show([Cleared(r) EXCEPT !.index = 0])

Finish(r) ==
  /\ replay' = [Cleared(r) EXCEPT !.status = "idle", !.current = NoEvent]
  /\ store' = SetReplayCursor(store, NoEvent)

StepFrom(r) ==
  /\ IF r.index >= Len(r.buffer) THEN Finish(r) ELSE Show(r)
  /\ UNCHANGED <<next, snapshots, seen, panel>>

TimerFires ==
  /\ replay.timers > 0
  /\ StepFrom([replay EXCEPT !.timers = @ - 1])

(* The buttons are disabled while the log is empty.  When a button is not, *)
(* neither is the buffer it plays, so the code's early returns on an empty *)
(* buffer are not taken.                                                   *)
Offered == panel # "hidden" /\ store.events # << >>

Play ==
  /\ Offered /\ replay.status # "playing"
  /\ LET r == IF replay.status = "idle" THEN Buffered(replay) ELSE replay
     IN  StepFrom([r EXCEPT !.status = "playing"])

Pause ==
  /\ Offered /\ replay.status = "playing"
  /\ replay' = [Cleared(replay) EXCEPT !.status = "paused"]
  /\ UNCHANGED <<store, next, snapshots, seen, panel>>

Restart ==
  /\ Offered
  /\ StepFrom([Buffered(Cleared(replay)) EXCEPT !.status = "playing", !.current = NoEvent])

(* The track spans the buffer, or the log before anything is buffered. *)
Total == IF replay.buffer # << >> THEN Len(replay.buffer) ELSE Len(store.events)

Clamp(i) == IF i > Len(replay.buffer) THEN Len(replay.buffer) ELSE i

(* Fault: the pending timeout is left running beside the new one. *)
SeekUncleared(i) ==
  LET r == [replay EXCEPT !.index = Clamp(i)]
  IN  /\ Offered
      /\ IF r.status = "playing" THEN StepFrom(r)
         ELSE /\ replay' = r
              /\ store' = SetReplayCursor(store, IF r.index < Len(r.buffer)
                                                 THEN r.buffer[r.index + 1] ELSE NoEvent)
              /\ UNCHANGED <<next, snapshots, seen, panel>>

(* Seeking while idle sets the cursor too, without a status to show it. *)
Seek(i) ==
  LET r == [replay EXCEPT !.index = Clamp(i)]
  IN  /\ Offered
      /\ IF r.status = "playing" THEN StepFrom(Cleared(r))
         ELSE /\ replay' = r
              /\ store' = SetReplayCursor(store, IF r.index < Len(r.buffer)
                                                 THEN r.buffer[r.index + 1] ELSE NoEvent)
              /\ UNCHANGED <<next, snapshots, seen, panel>>

(* The list of events, oldest first, is part of the expanded view only. *)
Listed == DOMAIN store.events

PlayFrom(i) ==
  /\ panel = "expanded"
  /\ StepFrom([Buffered(Cleared(replay)) EXCEPT !.status = "playing", !.index = i - 1])

(* A new speed restarts the pending timeout. *)
SetSpeed ==
  /\ panel # "hidden" /\ replay.status = "playing" /\ replay.timers > 0
  /\ replay' = [Cleared(replay) EXCEPT !.timers = @ + 1]
  /\ UNCHANGED <<store, next, snapshots, seen, panel>>

GoLive ==
  /\ panel # "hidden" /\ replay.current # NoEvent
  /\ replay' = [Cleared(replay) EXCEPT !.status = "idle", !.current = NoEvent]
  /\ store' = SetReplayCursor(store, NoEvent)
  /\ UNCHANGED <<next, snapshots, seen, panel>>

(* Every change of the panel unmounts the controller, whose clean-up does  *)
(* not touch the store's cursor.                                           *)
Rearrange(from, to) ==
  /\ panel = from /\ panel' = to
  /\ replay' = Fresh
  /\ UNCHANGED <<store, next, snapshots, seen>>

(* The page shows the panel open or hidden below the grid, with its        *)
(* button, or expanded beside it.                                          *)
Toggle == Rearrange("compact", "hidden") \/ Rearrange("hidden", "compact")

ToggleExpand == Rearrange("compact", "expanded") \/ Rearrange("expanded", "compact")

Operate ==
  \/ Play \/ Pause \/ Restart \/ SetSpeed \/ GoLive
  \/ \E i \in 0 .. Total : Seek(i)
  \/ \E i \in Listed : PlayFrom(i)
  \/ Toggle \/ ToggleExpand
-----------------------------------------------------------------------------
Next == Feed \/ TimerFires \/ Operate

Spec == Init /\ [][Next]_vars

(* A browser runs the timeouts that are due. *)
FairSpec == Spec /\ WF_vars(TimerFires)
-----------------------------------------------------------------------------
(* What applyEvent promises: the retained base with the retained timeline  *)
(* folded into it is the mission now, also when the timeline overflows.    *)
FoldsTimeline == Fold(store.base, store.timeline) = store.state

(* What useTacticalState promises: the frame of an event that is still in  *)
(* the timeline is the mission the operator saw when the event arrived,    *)
(* whatever has arrived or been folded into the base since.                *)
FrameWasSeen ==
  store.cursor # NoEvent /\ CursorAt(store) # {} =>
    TacticalState(store) = seen[store.cursor.id]

(* A replay that plays has one timeout pending and any other has none:     *)
(* seeking, restarting, unmounting never leave one behind, which would     *)
(* play the log twice as fast or move the cursor of a later replay.        *)
OneReplayTimer == replay.timers = IF replay.status = "playing" THEN 1 ELSE 0

(* A replay that is left to its own timer comes to its end, whatever the   *)
(* feed does: no timeout is lost, none starts the log over, and the events *)
(* that arrive meanwhile do not keep it going.                             *)
ReplayEnds == <>[][TimerFires \/ Feed]_vars => <>[](replay.status # "playing")
=============================================================================
