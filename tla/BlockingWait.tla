---------------------------- MODULE BlockingWait ----------------------------
(***************************************************************************)
(* A chain of consumers that wait with BlockingWaitStrategy: for the       *)
(* cursor on a condition variable, then for the stage before by spinning.  *)
(* The classic DSL waits without a deadline and is halted by an alert that *)
(* signals; the Builder waits in rounds of a millisecond (timed) and is    *)
(* stopped by a flag that signals nobody.                                  *)
(*                                                                         *)
(* Claims are the subject of the pipeline modules: the next event may be   *)
(* published at any time.  The stop is a halt or into_producer; the drain  *)
(* before a halt is in Pipeline and DslLifecycle.  The strategy's own      *)
(* alert flag has no caller in the crate and is left out.                  *)
(***************************************************************************)
EXTENDS Integers

CONSTANTS
    N,           \* length of the chain
    MaxSequence  \* bound: the last sequence that is published

ASSUME WaitAssumption == N \in Nat \ {0} /\ MaxSequence \in Nat

Waiters == 1 .. N

VARIABLES
    cursor,
    sequence,   \* waiter -> its consumer sequence
    available,  \* waiter -> what its wait has found
    mutex,      \* the waiter that holds the strategy's mutex, or 0
    pc,         \* waiter -> its place in the loop and in the wait
    stop,       \* waiter -> its StopFlag says stop
    alerted,    \* waiter -> its barrier's alert
    producer,   \* "idle", or "signal" between the cursor and the signal
    owner, at,  \* the place of the stopping thread, and whom it halts
    timed       \* how the chain was built: TRUE by the Builder, FALSE by the DSL

vars == <<cursor, sequence, available, mutex, pc, stop, alerted, producer, owner, at, timed>>
controlVars == <<stop, alerted, owner, at, timed>>

Init ==
    /\ timed \in BOOLEAN
    /\ cursor = -1 /\ mutex = 0 /\ producer = "idle" /\ owner = "live" /\ at = 1
    /\ sequence = [w \in Waiters |-> -1] /\ available = [w \in Waiters |-> -1]
    /\ pc = [w \in Waiters |-> "loop"]
    /\ stop = [w \in Waiters |-> FALSE] /\ alerted = [w \in Waiters |-> FALSE]

GoTo(w, place) == pc' = [pc EXCEPT ![w] = place]
Unless(alert, place) == IF alert THEN "done" ELSE place

\* notify_all sends the parked waiters to ask for the mutex again.
Notified == [w \in Waiters |-> IF pc[w] = "parked" THEN "lock" ELSE pc[w]]

\* Mutant of signal_all_when_blocking: notify without the waiters' mutex.
SignalUnlocked == pc' = Notified

\* Lock, notify_all, unlock: nothing else is touched under the mutex.
signal_all_when_blocking == mutex = 0 /\ pc' = Notified

-----------------------------------------------------------------------------
(* The waiter.  Leaving with an alert ends the consumer's loop.            *)

\* should_continue and, with the same flag, the head of every round.
PollStop(w) ==
    /\ pc[w] = "loop"
    /\ GoTo(w, IF stop[w] THEN "done" ELSE "enter")
    /\ UNCHANGED <<cursor, sequence, available, mutex, producer, controlVars>>

\* check_alert, before the strategy is asked.
CheckAlert(w) ==
    /\ pc[w] = "enter" /\ GoTo(w, Unless(alerted[w], "look"))
    /\ UNCHANGED <<cursor, sequence, available, mutex, producer, controlVars>>

\* The first look at the cursor takes no lock.
FirstLook(w) ==
    /\ pc[w] = "look" /\ GoTo(w, IF cursor > sequence[w] THEN "spin" ELSE "lock")
    /\ UNCHANGED <<cursor, sequence, available, mutex, producer, controlVars>>

Lock(w) ==
    /\ pc[w] = "lock" /\ mutex = 0
    /\ mutex' = w /\ GoTo(w, "locked")
    /\ UNCHANGED <<cursor, sequence, available, producer, controlVars>>

LookAgain(w) ==
    /\ pc[w] = "locked"
    /\ IF cursor > sequence[w]
       THEN GoTo(w, "spin") /\ mutex' = 0
       ELSE GoTo(w, "doubt") /\ UNCHANGED mutex
    /\ UNCHANGED <<cursor, sequence, available, producer, controlVars>>

\* The alert, then a deadline that has passed, keep the waiter from parking.
BeforeWait(w) ==
    /\ pc[w] = "doubt"
    /\ \/ alerted[w] /\ GoTo(w, "done") /\ mutex' = 0
       \/ ~alerted[w] /\ GoTo(w, "park") /\ UNCHANGED mutex
       \/ ~alerted[w] /\ timed /\ GoTo(w, "loop") /\ mutex' = 0
    /\ UNCHANGED <<cursor, sequence, available, producer, controlVars>>

\* Condvar::wait releases the mutex and parks in one step.
Park(w) ==
    /\ pc[w] = "park" /\ GoTo(w, "parked") /\ mutex' = 0
    /\ UNCHANGED <<cursor, sequence, available, producer, controlVars>>

\* The timed wait ends unsignalled, and takes the mutex to look at the alert.
TimeOut(w) ==
    /\ timed /\ pc[w] = "parked" /\ GoTo(w, "late")
    /\ UNCHANGED <<cursor, sequence, available, mutex, producer, controlVars>>

Late(w) ==
    /\ pc[w] = "late" /\ mutex = 0 /\ GoTo(w, Unless(alerted[w], "loop"))
    /\ UNCHANGED <<cursor, sequence, available, mutex, producer, controlVars>>

\* The second wait, for the cursor or the stage before.
Upstream(w) == IF w = 1 THEN cursor ELSE sequence[w - 1]

Spin(w) ==
    /\ pc[w] = "spin"
    /\ IF Upstream(w) > sequence[w]
       THEN GoTo(w, "found") /\ available' = [available EXCEPT ![w] = Upstream(w)]
       ELSE GoTo(w, "missed") /\ UNCHANGED available
    /\ UNCHANGED <<cursor, sequence, mutex, producer, controlVars>>

\* is_alerted_with takes the mutex to look at the strategy's own flag.
SpinAlert(w) ==
    /\ pc[w] = "missed" /\ mutex = 0 /\ GoTo(w, Unless(alerted[w], "spin"))
    /\ UNCHANGED <<cursor, sequence, available, mutex, producer, controlVars>>

\* No alert, and the deadline of a timed wait has passed.
SpinDeadline(w) ==
    /\ timed /\ pc[w] = "missed" /\ mutex = 0 /\ ~alerted[w] /\ GoTo(w, "loop")
    /\ UNCHANGED <<cursor, sequence, available, mutex, producer, controlVars>>

\* check_alert after the wait, then the batch and its commit, or a failure at
\* one of its events, which freezes the sequence before that event.
Handle(w) ==
    /\ pc[w] = "found"
    /\ \/ alerted[w] /\ GoTo(w, "done") /\ UNCHANGED sequence
       \/ /\ ~alerted[w] /\ GoTo(w, "loop")
          /\ sequence' = [sequence EXCEPT ![w] = available[w]]
       \/ /\ ~alerted[w] /\ GoTo(w, "failed")
          /\ \E s \in sequence[w] .. available[w] - 1 : sequence' = [sequence EXCEPT ![w] = s]
    /\ available' = [available EXCEPT ![w] = -1]
    /\ UNCHANGED <<cursor, mutex, producer, controlVars>>

\* The failed consumer poisons the pipeline, which signals, and ends.
Poison(w) ==
    /\ pc[w] = "failed" /\ mutex = 0
    /\ pc' = [Notified EXCEPT ![w] = "done"]
    /\ UNCHANGED <<cursor, sequence, available, mutex, producer, controlVars>>

WaiterStep(w) ==
    \/ PollStop(w) \/ CheckAlert(w) \/ FirstLook(w) \/ Lock(w) \/ LookAgain(w)
    \/ BeforeWait(w) \/ Park(w) \/ TimeOut(w) \/ Late(w) \/ Spin(w)
    \/ SpinAlert(w) \/ SpinDeadline(w) \/ Handle(w) \/ Poison(w)

-----------------------------------------------------------------------------
(* The signallers.                                                         *)

\* Mutant of Publish: the strategy is taken for one that needs no signal.
PublishQuietly ==
    /\ producer = "idle" /\ cursor < MaxSequence
    /\ cursor' = cursor + 1
    /\ UNCHANGED <<sequence, available, mutex, pc, producer, controlVars>>

Publish ==
    /\ producer = "idle" /\ cursor < MaxSequence
    /\ cursor' = cursor + 1 /\ producer' = "signal"
    /\ UNCHANGED <<sequence, available, mutex, pc, controlVars>>

SignalPublished ==
    /\ producer = "signal" /\ signal_all_when_blocking /\ producer' = "idle"
    /\ UNCHANGED <<cursor, sequence, available, mutex, controlVars>>

\* halt closes the claims, which signals; into_producer does not close.
Close ==
    /\ owner = "live" /\ signal_all_when_blocking /\ owner' = "halt"
    /\ UNCHANGED <<cursor, sequence, available, mutex, stop, alerted, producer, at, timed>>

\* stop_consumers_keep_claims sets the one flag of the Builder's consumers.
StopBuilder ==
    /\ timed /\ owner \in {"live", "halt"} /\ owner' = "join"
    /\ stop' = [w \in Waiters |-> TRUE]
    /\ UNCHANGED <<cursor, sequence, available, mutex, pc, alerted, producer, at, timed>>

\* halt_join halts the DSL's processors one after the other: running, alert.
StopProcessor ==
    /\ ~timed /\ owner = "halt" /\ owner' = "alert"
    /\ stop' = [stop EXCEPT ![at] = TRUE]
    /\ UNCHANGED <<cursor, sequence, available, mutex, pc, alerted, producer, at, timed>>

\* Mutant of Alert: the flag is set, and nobody signalled.
AlertQuietly ==
    /\ owner = "alert" /\ alerted' = [alerted EXCEPT ![at] = TRUE]
    /\ IF at = N THEN owner' = "join" /\ UNCHANGED at ELSE owner' = "halt" /\ at' = at + 1
    /\ UNCHANGED <<cursor, sequence, available, mutex, pc, stop, producer, timed>>

Alert ==
    /\ owner = "alert" /\ owner' = "signal"
    /\ alerted' = [alerted EXCEPT ![at] = TRUE]
    /\ UNCHANGED <<cursor, sequence, available, mutex, pc, stop, producer, at, timed>>

SignalAlerted ==
    /\ owner = "signal" /\ signal_all_when_blocking
    /\ IF at = N THEN owner' = "join" /\ UNCHANGED at ELSE owner' = "halt" /\ at' = at + 1
    /\ UNCHANGED <<cursor, sequence, available, mutex, stop, alerted, producer, timed>>

Join ==
    /\ owner = "join" /\ \A w \in Waiters : pc[w] = "done"
    /\ owner' = "stopped"
    /\ UNCHANGED <<cursor, sequence, available, mutex, pc, stop, alerted, producer, at, timed>>

Stopping == StopProcessor \/ Alert \/ SignalAlerted \/ Join

Next ==
    \/ \E w \in Waiters : WaiterStep(w)
    \/ Publish \/ SignalPublished
    \/ Close \/ StopBuilder \/ Stopping

Spec == Init /\ [][Next]_vars

\* Threads run on; nobody has to publish or to stop.  The mutex is fair to a
\* thread that keeps asking (parking_lot hands it over), and the clock runs on
\* while a timed wait spins: strong fairness stands for both.
FairSpec ==
    /\ Spec
    /\ \A w \in Waiters : WF_vars(WaiterStep(w))
                          /\ SF_vars(Lock(w) \/ Late(w) \/ SpinAlert(w) \/ Poison(w))
                          /\ SF_vars(SpinDeadline(w))
    /\ SF_vars(SignalPublished)
    /\ WF_vars(owner = "halt" /\ StopBuilder) /\ WF_vars(Stopping) /\ SF_vars(SignalAlerted)

-----------------------------------------------------------------------------
\* No wakeup is lost: while a waiter is parked although its event is published
\* or its barrier alerted, the signal for that is still to come (signal_all_when_blocking:
\* "so a producer cannot notify in the narrow window between the consumer's
\* cursor check and its transition into the condvar wait state").
NoLostWakeup ==
    \A w \in Waiters : pc[w] = "parked" =>
        /\ cursor > sequence[w] => producer = "signal"
        /\ alerted[w] => owner = "signal"

\* What is published reaches the end of the chain, unless a consumer ends.
PublishedIsConsumed ==
    \A s \in 0 .. MaxSequence :
        cursor >= s ~> (sequence[N] >= s \/ \E w \in Waiters : pc[w] = "done")

\* Every stop ends with all consumers out of their waits: by the alert's
\* signal, or by the deadline of the round where the flag signals nobody.
StopsEnd == owner # "live" ~> owner = "stopped"
=============================================================================
