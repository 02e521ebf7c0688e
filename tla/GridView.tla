------------------------------ MODULE GridView ------------------------------
(***************************************************************************)
(* What the tactical grid, components/MissionGrid.tsx, and the fire panel  *)
(* make of a mission they are given: what a cell holds, the routes, rays   *)
(* and markers that are drawn, and where a tool may be used.  A mission is *)
(* MissionReducer's; pixels and colours are left out.                      *)
(***************************************************************************)
EXTENDS Integers, Sequences, FiniteSets, FiniteSetsExt

CONSTANT Grid

Tools == {"select", "fire", "mountain", "remove_mountain", "responder", "dispatch",
          "mission_control"}
-----------------------------------------------------------------------------
(* A cell *)

Burning(fire) == fire.status # "extinguished"

Raised(m, cell) == cell \in m.mountains

FiresAt(m, cell) == {f \in DOMAIN m.fires : m.fires[f].at = cell /\ Burning(m.fires[f])}

(* A responder is found where it is and where it was last known. *)
RespondersAt(m, cell) ==
  {r \in DOMAIN m.responders : cell \in {m.responders[r].at, m.responders[r].last_known}}

(* The first of a list, 0 when it is empty. *)
Find(ids) == IF ids = {} THEN 0 ELSE Min(ids)

(* cellMeta *)
Meta(m, cell) ==
  [inGrid |-> cell \in Grid, mountain |-> Raised(m, cell),
   fire |-> Find(FiresAt(m, cell)), responder |-> Find(RespondersAt(m, cell))]

(* The tint of the preview under the cursor. *)
Valid(tool, meta) ==
  CASE tool = "fire" -> meta.inGrid /\ ~meta.mountain
    [] tool = "mountain" ->
         meta.inGrid /\ ~meta.mountain /\ meta.fire = 0 /\ meta.responder = 0
    [] tool = "remove_mountain" -> meta.mountain
    [] tool = "responder" -> meta.inGrid /\ ~meta.mountain /\ meta.fire = 0
    [] tool = "mission_control" -> TRUE
    [] tool = "dispatch" -> meta.responder # 0 \/ meta.fire # 0
    [] tool = "select" -> FALSE
-----------------------------------------------------------------------------
(* What is drawn *)

(* Fault: the cells already travelled are drawn too. *)
WholePath(row) == row.path

Remaining(row) == SubSeq(row.path, Max({0, row.path_index}) + 1, Len(row.path))

HasRoute(row) == row.path # << >> /\ row.status = "moving" /\ Len(Remaining(row)) >= 2

Blocked(row) == row.signal_status = "blocked"

(* Where the ray from mission control ends, and the official marker is. *)
RayTarget(row) == IF Blocked(row) THEN row.last_known ELSE row.at

(* The official marker, and a ghost where a blocked responder really is. *)
Markers(row) == {RayTarget(row)} \union (IF Blocked(row) THEN {row.at} ELSE {})

(* A fire that is out is crossed out; one that burns has a ring as long as *)
(* it is intense, at most 100.                                             *)
FireMark(fire) == IF Burning(fire) THEN Max({0, Min({100, fire.intensity})}) ELSE 0

(* The figures of the head-up display. *)
Stats(m) ==
  [units |-> Cardinality(DOMAIN m.responders),
   noSignal |-> Quantify(DOMAIN m.responders, LAMBDA r : Blocked(m.responders[r])),
   fires |-> Quantify(DOMAIN m.fires, LAMBDA f : Burning(m.fires[f]))]

(* The crew the fire panel counts, and what it says the fire loses a tick. *)
CrewShown(m, f) ==
  Quantify(DOMAIN m.responders, LAMBDA r : /\ m.responders[r].at = m.fires[f].at
                                           /\ m.responders[r].status = "fighting_fire")

RateShown(m, f) == IF Burning(m.fires[f]) THEN CrewShown(m, f) * 5 ELSE 0
=============================================================================
