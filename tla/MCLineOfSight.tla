---------------------------- MODULE MCLineOfSight ----------------------------
(* Every line between a 6 by 5 grid and the cells on and around its left   *)
(* half, mission control's spawn column (x = -2) included.                 *)
EXTENDS LineOfSight

MCFroms == (-2 .. 2) \X (-1 .. 4)
MCTos == (0 .. 5) \X (0 .. 4)
=============================================================================
