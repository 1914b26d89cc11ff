-------------------------- MODULE MCSinglePipeline --------------------------
(* Two stages: a mutable first stage, two read-only consumers behind it.   *)
EXTENDS SinglePipeline, TLC

CONSTANTS first, left, right

MCConsumers == {first, left, right}
MCStage == [c \in MCConsumers |-> IF c = first THEN 0 ELSE 1]
MCReadonly == {left, right}
MCSymmetry == Permutations(MCReadonly)
=============================================================================
