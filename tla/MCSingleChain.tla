--------------------------- MODULE MCSingleChain ---------------------------
(* A chain of two mutable consumers, for the liveness properties.          *)
EXTENDS SinglePipeline

CONSTANTS first, second

MCConsumers == {first, second}
MCStage == [c \in MCConsumers |-> IF c = first THEN 0 ELSE 1]
=============================================================================
