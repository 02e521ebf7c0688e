---------------------------- MODULE MCSimulation ----------------------------
(* One fire, two responders, five commands and a failed upload in the      *)
(* grid of SmallGrid: enough for a dispatch behind a mountain, a blackout  *)
(* on the way, a reset or a new responder while its backlog is uploaded.   *)
EXTENDS Simulation, SmallGrid
=============================================================================
