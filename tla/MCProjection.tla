---------------------------- MODULE MCProjection ----------------------------
(* The world of MCSimulation with its read model.  A fire at (1, 1) is     *)
(* hidden from the spawn by a mountain at (0, 1): a responder from (2, 1)  *)
(* goes dark as it arrives.                                                *)
EXTENDS Projection, SmallGrid

MCHiddenFireCells == {<<1, 1>>}
=============================================================================
