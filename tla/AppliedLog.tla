----------------------------- MODULE AppliedLog -----------------------------
(***************************************************************************)
(* What the projector promises, whatever crashes and redeliveries it goes  *)
(* through: the read model is the fold of a prefix of mission.events.v1.   *)
(* Events are only appended, and they are taken one at a time, in log      *)
(* order, each exactly once.                                               *)
(***************************************************************************)
EXTENDS Naturals, Sequences

CONSTANTS Body,           \* event bodies
          Model,          \* values of the read model
          EmptyModel,     \* the read model of an empty log
          Apply(_, _),    \* Apply(m, b): the read model after event b
          Accepts(_, _)   \* Accepts(m, b): b can be applied to m

VARIABLES log,            \* the topic
          applied,        \* how many events of the log are folded in
          model           \* the read model

vars == <<log, applied, model>>

Init == log = << >> /\ applied = 0 /\ model = EmptyModel

Append1(b) == log' = Append(log, b) /\ UNCHANGED <<applied, model>>

FoldNext ==
  /\ applied < Len(log)
  /\ Accepts(model, log[applied + 1])
  /\ applied' = applied + 1
  /\ model' = Apply(model, log[applied + 1])
  /\ UNCHANGED log

Next == (\E b \in Body : Append1(b)) \/ FoldNext

Spec == Init /\ [][Next]_vars
=============================================================================
