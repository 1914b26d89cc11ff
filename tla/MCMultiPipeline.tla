--------------------------- MODULE MCMultiPipeline ---------------------------
(* Two producers in front of one read-only consumer.                         *)
EXTENDS MultiPipeline, TLC

CONSTANTS handler, p1, p2

MCProducers == {p1, p2}
MCConsumers == {handler}
MCStage == [c \in MCConsumers |-> 0]

\* One producer waits for capacity, the other does not.
MCMixed == [p \in MCProducers |-> IF p = p1 THEN {"publish"} ELSE {"try_publish"}]
MCBlocking == [p \in MCProducers |-> {"publish"}]
MCBoth == [p \in MCProducers |-> {"publish", "try_publish"}]
=============================================================================
