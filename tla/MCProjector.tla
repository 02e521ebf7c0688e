----------------------------- MODULE MCProjector -----------------------------
(* Two processes of the group, three events; the read model is the list of *)
(* the bodies folded in, the value that tells every history apart.         *)
EXTENDS Projector

MCBody == {"good", "poison"}
MCModel == UNION {[1 .. n -> MCBody] : n \in 0 .. MaxLog}
MCEmptyModel == << >>
MCApply(m, b) == Append(m, b)
MCAccepts(m, b) == b # "poison" /\ Len(m) < MaxLog
=============================================================================
