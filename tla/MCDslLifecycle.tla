--------------------------- MODULE MCDslLifecycle ---------------------------
(* Two processors: a chain, or two calls of handle_events_with.            *)
EXTENDS DslLifecycle

MCChain == <<"handle_events_with", "then">>
MCTwice == <<"handle_events_with", "handle_events_with">>
=============================================================================
