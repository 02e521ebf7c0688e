------------------------------ MODULE LiveFeed ------------------------------
(***************************************************************************)
(* How events reach a console: the API process of api/websocket.py, which  *)
(* sends a socket one snapshot and forwards every event to the sockets of  *)
(* its mission; lib/ws.ts, which keeps a socket open; and the hook         *)
(* useMissionConnection, which loads a mission and subscribes to it while  *)
(* its page is mounted.  The store is MissionStore's.                      *)
(*                                                                         *)
(* Each visit of a mission page has its own loader, socket and connection  *)
(* to the server; what one visit leaves behind may still act during the    *)
(* next.  The events of a mission are published all along: the projector   *)
(* and the broadcaster are wherever they are in them.                      *)
(***************************************************************************)
EXTENDS MissionStore

CONSTANTS Missions,
          State(_),          \* a mission as it may be projected
          mission,           \* the mission of each visit of a page
          FirstMission(_),   \* a mission before its first event
          Log,               \* the events of each mission, in order
          MaxRecent,         \* the events get_mission_state returns, 50
          MaxAttempts,       \* MAX_ATTEMPTS of the hook, 6
          MaxVisits,         \* bound: pages mounted
          MaxFaults          \* bound: drops, failed reads, restarts of the API

ASSUME LimitsAssumption ==
  /\ MaxRecent \in Nat /\ MaxRecent <= MaxEvents
  /\ MaxAttempts \in Nat \ {0} /\ MaxVisits \in Nat /\ MaxFaults \in Nat

Visits == 1 .. MaxVisits

ASSUME MissionAssumption == mission \in [Visits -> Missions]

EventsOf(m) == {Log[m][k] : k \in DOMAIN Log[m]}

ASSUME LogAssumption ==
  \A m \in Missions : /\ Log[m] \in Seq(EventsOf(m))
                      /\ \A i, j \in DOMAIN Log[m] : Log[m][i].id = Log[m][j].id => i = j

(* No event takes the id from a mission. *)
ASSUME StateAssumption ==
  \A m \in Missions :
    /\ FirstMission(m) \in State(m) /\ NoState \notin State(m)
    /\ \A s \in State(m) : s.mission_id = m /\ \A e \in EventsOf(m) : Reduce(s, e) \in State(m)

VARIABLES
  projected,   \* events of each mission in the read model
  broadcast,   \* events of each mission the broadcaster has forwarded
  store,       \* useMissionStore
  connection,  \* its connection: what the badge shows
  visits,      \* pages mounted so far
  current,     \* the visit whose page is mounted, 0 for none
  load,        \* its loader: "idle", "getting", "backoff" or "ended"
  attempts,    \* failed GETs of the loader
  link,        \* its socket: "none", "connecting", "open", "retry", "closing", "closed"
  peer,        \* the server's end: "none", "joined", "read" or "live"
  rows,        \* events in the rows read for its snapshot
  wire,        \* frames on the way to the socket
  covered,     \* what was broadcast is what the snapshot holds (history)
  faults

server == <<projected, broadcast>>
page == <<visits, current>>
loader == <<load, attempts>>
socket == <<link, peer, rows, wire, covered>>
vars == <<server, store, connection, page, loader, socket, faults>>

Init ==
  /\ projected = [m \in Missions |-> 0] /\ broadcast = [m \in Missions |-> 0]
  /\ store = Empty /\ connection = "connecting"
  /\ visits = 0 /\ current = 0
  /\ load = [v \in Visits |-> "idle"] /\ attempts = [v \in Visits |-> 0]
  /\ link = [v \in Visits |-> "none"] /\ peer = [v \in Visits |-> "none"]
  /\ rows = [v \in Visits |-> 0] /\ wire = [v \in Visits |-> << >>]
  /\ covered = [v \in Visits |-> FALSE]
  /\ faults = 0

(* A mission after its first n events. *)
After(m, n) == Fold(FirstMission(m), SubSeq(Log[m], 1, n))

(* The latest of its first n events, newest first. *)
Recent(m, n) == [i \in 1 .. IF n < MaxRecent THEN n ELSE MaxRecent |-> Log[m][n + 1 - i]]
-----------------------------------------------------------------------------
(* The server *)

Project(m) ==
  /\ projected[m] < Len(Log[m])
  /\ projected' = [projected EXCEPT ![m] = @ + 1]
  /\ UNCHANGED <<broadcast, store, connection, page, loader, socket, faults>>

Room(m) == {v \in Visits : mission[v] = m /\ peer[v] # "none"}

EventFrame(e) == [type |-> "mission_event", event |-> e]

Broadcast(m) ==
  /\ broadcast[m] < Len(Log[m])
  /\ broadcast' = [broadcast EXCEPT ![m] = @ + 1]
  /\ wire' = [v \in Visits |->
                IF v \in Room(m) THEN Append(wire[v], EventFrame(Log[m][broadcast'[m]]))
                ELSE wire[v]]
  /\ UNCHANGED <<projected, store, connection, page, loader, link, peer, rows, covered,
                 faults>>

(* The socket joins its room, then the rows are read, then the events.     *)
(* The five tables of rows are read as one.                                *)
Accept(v) ==
  /\ link[v] = "connecting"
  /\ link' = [link EXCEPT ![v] = "open"] /\ connection' = "open"
  /\ peer' = [peer EXCEPT ![v] = "joined"]
  /\ UNCHANGED <<server, store, page, loader, rows, wire, covered, faults>>

ReadRows(v) ==
  /\ peer[v] = "joined"
  /\ peer' = [peer EXCEPT ![v] = "read"]
  /\ rows' = [rows EXCEPT ![v] = projected[mission[v]]]
  /\ UNCHANGED <<server, store, connection, page, loader, link, wire, covered, faults>>

(* The snapshot covers what this socket will not be told, or was told too  *)
(* early, and its events are those of its rows.                            *)
Covers(n, recent, sent) == recent = n /\ sent <= n /\ n <= sent + MaxRecent

SendSnapshot(v) ==
  LET m == mission[v]
      frame == [type |-> "snapshot", rows |-> rows[v], recent |-> projected[m]]
  IN  /\ peer[v] = "read"
      /\ peer' = [peer EXCEPT ![v] = "live"]
      /\ wire' = [wire EXCEPT ![v] = Append(@, frame)]
      /\ covered' = [covered EXCEPT ![v] = Covers(rows[v], projected[m], broadcast[m])]
      /\ UNCHANGED <<server, store, connection, page, loader, link, rows, faults>>
-----------------------------------------------------------------------------
(* lib/ws.ts *)

(* Sockets whose connection is gone: onclose starts the backoff. *)
Disconnect(vs) ==
  /\ vs # {}
  /\ link' = [v \in Visits |-> IF v \in vs THEN "retry" ELSE link[v]]
  /\ peer' = [v \in Visits |-> IF v \in vs THEN "none" ELSE peer[v]]
  /\ wire' = [v \in Visits |-> IF v \in vs THEN << >> ELSE wire[v]]
  /\ rows' = [v \in Visits |-> IF v \in vs THEN 0 ELSE rows[v]]
  /\ covered' = [v \in Visits |-> v \notin vs /\ covered[v]]
  /\ connection' = "closed"

Linked == {v \in Visits : link[v] \in {"connecting", "open"}}

Fault == faults < MaxFaults /\ faults' = faults + 1

Drop(v) ==
  /\ Fault /\ v \in Linked /\ Disconnect({v})
  /\ UNCHANGED <<server, store, page, loader>>

(* get_mission_state raises: an error frame, which nobody handles, and the *)
(* server closes the socket; frames already sent are received or not.      *)
ReadFails(v) ==
  /\ Fault /\ peer[v] \in {"joined", "read"} /\ Disconnect({v})
  /\ UNCHANGED <<server, store, page, loader>>

(* A restarted API process has a new consumer group: it broadcasts what is *)
(* published from then on.                                                 *)
Restart ==
  /\ Fault
  /\ \E m \in Missions : \E latest \in broadcast[m] .. Len(Log[m]) :
       broadcast' = [broadcast EXCEPT ![m] = latest]
  /\ IF Linked = {} THEN UNCHANGED <<socket, connection>> ELSE Disconnect(Linked)
  /\ UNCHANGED <<projected, store, page, loader>>

Reconnect(v) ==
  /\ link[v] = "retry"
  /\ link' = [link EXCEPT ![v] = "connecting"] /\ connection' = "connecting"
  /\ UNCHANGED <<server, store, page, loader, peer, rows, wire, covered, faults>>

Receive(v) ==
  /\ link[v] = "open" /\ wire[v] # << >>
  /\ wire' = [wire EXCEPT ![v] = Tail(@)]
  /\ LET frame == Head(wire[v])
         m == mission[v]
     IN  store' = IF frame.type = "snapshot"
                  THEN SetSnapshot(store, After(m, frame.rows), Recent(m, frame.recent))
                  ELSE ApplyEvent(store, frame.event)
  /\ UNCHANGED <<server, connection, page, loader, link, peer, rows, covered, faults>>

(* The onclose of a socket its page has closed: the status it reports is   *)
(* shown whatever page is mounted by then.                                 *)
Closed(v) ==
  /\ link[v] = "closing"
  /\ link' = [link EXCEPT ![v] = "closed"] /\ connection' = "closed"
  /\ UNCHANGED <<server, store, page, loader, peer, rows, wire, covered, faults>>
-----------------------------------------------------------------------------
(* useMissionConnection *)

Visit ==
  /\ current = 0 /\ visits < MaxVisits
  /\ visits' = visits + 1 /\ current' = visits + 1
  /\ load' = [load EXCEPT ![visits + 1] = "getting"]
  /\ UNCHANGED <<server, store, connection, attempts, socket, faults>>

(* The clean-up: active is cleared, the socket closed (or its timer), the  *)
(* store reset.  A closed socket dispatches no more messages.              *)
Leave ==
  LET v == current
  IN  /\ v # 0
      /\ current' = 0 /\ store' = Empty
      /\ link' = [link EXCEPT ![v] = IF v \in Linked THEN "closing"
                                     ELSE IF @ = "retry" THEN "closed" ELSE @]
      /\ peer' = [peer EXCEPT ![v] = "none"] /\ wire' = [wire EXCEPT ![v] = << >>]
      /\ rows' = [rows EXCEPT ![v] = 0] /\ covered' = [covered EXCEPT ![v] = FALSE]
      /\ UNCHANGED <<server, connection, visits, loader, faults>>

Subscribe(v) ==
  /\ link' = [link EXCEPT ![v] = "connecting"] /\ connection' = "connecting"

(* Fault: the answer to a page that was left is taken. *)
LoadedLate(v) ==
  /\ load[v] = "getting"
  /\ load' = [load EXCEPT ![v] = "ended"]
  /\ LET m == mission[v]
     IN  store' = SetSnapshot(store, After(m, projected[m]), Recent(m, projected[m]))
  /\ IF v = current THEN Subscribe(v) ELSE UNCHANGED <<link, connection>>
  /\ UNCHANGED <<server, page, attempts, peer, rows, wire, covered, faults>>

Loaded(v) ==
  /\ load[v] = "getting"
  /\ load' = [load EXCEPT ![v] = "ended"]
  /\ LET m == mission[v]
     IN  IF v = current
         THEN /\ store' = SetSnapshot(store, After(m, projected[m]), Recent(m, projected[m]))
              /\ Subscribe(v)
         ELSE UNCHANGED <<store, link, connection>>
  /\ UNCHANGED <<server, page, attempts, peer, rows, wire, covered, faults>>

(* Fault: the page is not subscribed when its mission could not be loaded. *)
LoadFailsForGood(v) ==
  /\ load[v] = "getting"
  /\ attempts' = [attempts EXCEPT ![v] = @ + 1]
  /\ load' = [load EXCEPT ![v] = IF attempts'[v] < MaxAttempts THEN "backoff" ELSE "ended"]
  /\ UNCHANGED <<server, store, connection, page, socket, faults>>

(* After the last attempt the page is subscribed all the same. *)
LoadFails(v) ==
  /\ load[v] = "getting"
  /\ attempts' = [attempts EXCEPT ![v] = @ + 1]
  /\ load' = [load EXCEPT ![v] = IF attempts'[v] < MaxAttempts THEN "backoff" ELSE "ended"]
  /\ IF attempts'[v] = MaxAttempts /\ v = current
     THEN Subscribe(v) ELSE UNCHANGED <<link, connection>>
  /\ UNCHANGED <<server, store, page, peer, rows, wire, covered, faults>>

Retry(v) ==
  /\ load[v] = "backoff"
  /\ load' = [load EXCEPT ![v] = IF v = current THEN "getting" ELSE "ended"]
  /\ UNCHANGED <<server, store, connection, page, attempts, socket, faults>>
-----------------------------------------------------------------------------
Answered(v) == Loaded(v) \/ LoadFails(v)

Next ==
  \/ \E m \in Missions : Project(m) \/ Broadcast(m)
  \/ \E v \in Visits : \/ Accept(v) \/ ReadRows(v) \/ SendSnapshot(v)
                       \/ Drop(v) \/ ReadFails(v) \/ Reconnect(v) \/ Receive(v) \/ Closed(v)
                       \/ Answered(v) \/ Retry(v)
  \/ Restart \/ Visit \/ Leave

Spec == Init /\ [][Next]_vars

(* Requests are answered or fail, timeouts fire, the server's awaits come  *)
(* back and frames arrive.  Faults owe nothing, nor do the operator, the   *)
(* projector and the broadcaster.                                          *)
FairSpec ==
  /\ Spec
  /\ \A v \in Visits : /\ WF_vars(Answered(v)) /\ WF_vars(Retry(v))
                       /\ WF_vars(Accept(v)) /\ WF_vars(Reconnect(v))
                       /\ WF_vars(ReadRows(v)) /\ WF_vars(SendSnapshot(v))
                       /\ WF_vars(Receive(v))
-----------------------------------------------------------------------------
(* Whatever answers, closes or reconnects late, the store holds nothing of *)
(* a mission whose page is not the one mounted.                            *)
OnlyThisMission ==
  IF current = 0 THEN store = Empty
  ELSE LET m == mission[current]
       IN  /\ store.state # NoState => store.state.mission_id = m
           /\ \A i \in DOMAIN store.events : \E k \in DOMAIN Log[m] : store.events[i] = Log[m][k]

(* The socket of the mounted page has received its snapshot and all that   *)
(* was sent to it.                                                         *)
Received(v) == v = current /\ peer[v] = "live" /\ wire[v] = << >>

(* Once the snapshot covers what was broadcast before it, the console is   *)
(* as far as the further of snapshot and broadcaster, no event missing or  *)
(* folded twice, whatever overlaps and whatever was lost before.           *)
ConvergesWhenCovered ==
  \A v \in Visits : Received(v) /\ covered[v] =>
    LET m == mission[v]
    IN  store.state = After(m, IF broadcast[m] > rows[v] THEN broadcast[m] ELSE rows[v])

(* A page that stays mounted shows its mission in the end, by GET or by    *)
(* the snapshot of its socket.                                             *)
EventuallyLoaded ==
  \A v \in Visits : current = v ~> store.state # NoState \/ current # v
=============================================================================
