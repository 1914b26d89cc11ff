------------------------------ MODULE EventLog ------------------------------
(***************************************************************************)
(* What a pipeline promises to the application: a bounded log.             *)
(*                                                                         *)
(* Producers append events; every consumer handles every event, in order   *)
(* and once; a stage handles an event only after the stage before it; and  *)
(* the log never runs more than Size events ahead of a live consumer.      *)
(***************************************************************************)
EXTENDS Integers

CONSTANTS Consumers, Stage, Size

VARIABLES
    published,  \* the highest event of the log
    handled,    \* consumer -> the last event it has handled
    retired     \* the consumers that have stopped for good

vars == <<published, handled, retired>>

Init ==
    /\ published = -1
    /\ handled = [c \in Consumers |-> -1]
    /\ retired = {}

\* The log grows by the events that become visible together.
Append ==
    /\ published' \in Int /\ published' > published
    /\ \A c \in Consumers \ retired : published' - handled[c] <= Size
    /\ UNCHANGED <<handled, retired>>

Handle(c) ==
    /\ c \notin retired
    /\ handled[c] < published
    /\ \A d \in Consumers : Stage[d] < Stage[c] => handled[c] < handled[d]
    /\ handled' = [handled EXCEPT ![c] = @ + 1]
    /\ UNCHANGED <<published, retired>>

Retire(c) ==
    /\ retired' = retired \cup {c}
    /\ UNCHANGED <<published, handled>>

Next == Append \/ \E c \in Consumers : Handle(c) \/ Retire(c)

Spec == Init /\ [][Next]_vars
=============================================================================
