---------------------------- MODULE BarrierWait -----------------------------
(***************************************************************************)
(* One consumer's ProcessingSequenceBarrier over a wait strategy that      *)
(* polls: the three waits of the barrier, each of them around the polling  *)
(* loop of whichever strategy the pipeline was built with.  A strategy is  *)
(* the order in which its loops make their checks; the idle action between *)
(* two rounds (spin, yield, sleep) takes time and nothing else.            *)
(* BlockingWaitStrategy, which parks, is in BlockingWait.                  *)
(***************************************************************************)
EXTENDS Integers, Sequences

CONSTANT LastPublished  \* bound: the last sequence that is published

ASSUME BarrierAssumption == LastPublished \in Nat

VARIABLES
    wait_strategy,           \* the loops of the strategy in use
    needs_contiguity_check,  \* TRUE under a multi-producer sequencer
    dependent,               \* TRUE for a consumer behind another one
    tip, flagged,            \* the cursor, the published sequences
    upstream,                \* the minimum of the dependent sequences
    shutdown_flag, barrier_alerted,
    waiting, method,         \* the place in a wait, and which wait it is
    requested, found, check, \* its argument, the strategy's answer and place
    deadline,                \* the timeout, or the interval, has elapsed
    verdict,                 \* what the last wait has returned
    overruled                \* history: a flag was up before the last check

barrierVars == <<wait_strategy, needs_contiguity_check, dependent, tip, flagged,
                 upstream, shutdown_flag, barrier_alerted, waiting, method,
                 requested, found, check, deadline, verdict, overruled>>
builtVars   == <<wait_strategy, needs_contiguity_check, dependent>>
worldVars   == <<tip, flagged, upstream, shutdown_flag, barrier_alerted>>
callVars    == <<method, requested>>

-----------------------------------------------------------------------------
(* The strategies: the checks of one round of each of their loops.         *)

\* Mutant of YieldingWaitStrategy: the shutdown loop forgets its flag.
YieldingDeaf ==
    [alert    |-> <<"alert", "available">>,
     timeout  |-> <<"alert", "available", "alert", "elapsed">>,
     shutdown |-> <<"alert", "available">>]

YieldingWaitStrategy ==
    [alert    |-> <<"alert", "available">>,
     timeout  |-> <<"alert", "available", "alert", "elapsed">>,
     shutdown |-> <<"shutdown", "alert", "available">>]

BusySpinWaitStrategy ==
    [alert    |-> <<"alert", "available">>,
     timeout  |-> <<"alert", "available", "alert", "elapsed">>,
     shutdown |-> <<"shutdown", "alert", "available">>]

SleepingWaitStrategy ==
    [alert    |-> <<"alert", "available">>,
     timeout  |-> <<"alert", "available", "alert", "elapsed">>,
     shutdown |-> <<"shutdown", "alert", "available">>]

SimpleWaitStrategyAdapter ==
    [alert    |-> <<"alert", "available">>,
     timeout  |-> <<"alert", "available", "alert", "elapsed">>,
     shutdown |-> <<"shutdown", "alert", "available">>]

\* The four simple strategies differ in their backoff only.
BusySpin         == SimpleWaitStrategyAdapter
BusySpinWithHint == SimpleWaitStrategyAdapter
Yielding         == SimpleWaitStrategyAdapter
Sleeping         == SimpleWaitStrategyAdapter

\* A strategy behind a pointer answers as the one it points to.
BoxDyn(strategy) == strategy

\* The trait's default methods, for a strategy that only brings the untimed
\* loop: the wait with a flag is rounds of the timed wait, over an interval.
wait_for_with_timeout_and_alert == <<"alert", "available", "alert", "elapsed">>
wait_for_with_shutdown_and_alert ==
    <<"shutdown", "alert", "alert", "available", "alert", "interval">>
FirstOfRound == 3

Custom ==
    [alert    |-> <<"alert", "available">>,
     timeout  |-> wait_for_with_timeout_and_alert,
     shutdown |-> wait_for_with_shutdown_and_alert]

Strategies ==
    {YieldingWaitStrategy, BusySpinWaitStrategy, SleepingWaitStrategy, BusySpin,
     BusySpinWithHint, Yielding, Sleeping, BoxDyn(SleepingWaitStrategy), Custom}

\* ProcessingSequenceBarrier::new, on an empty ring.
BarrierInit ==
    /\ wait_strategy \in Strategies
    /\ needs_contiguity_check \in BOOLEAN /\ dependent \in BOOLEAN
    /\ tip = -1 /\ flagged = {} /\ upstream = -1
    /\ shutdown_flag = FALSE /\ barrier_alerted = FALSE
    /\ waiting = "out" /\ method = "alert" /\ requested = 0 /\ found = -1 /\ check = 0
    /\ deadline = FALSE /\ verdict = "none" /\ overruled = FALSE

wait_available_sequence == IF dependent THEN upstream ELSE tip

-----------------------------------------------------------------------------
(* The barrier's waits.                                                    *)

Flagged(kind) == barrier_alerted \/ (kind = "shutdown" /\ shutdown_flag)

Call(kind, s) ==
    /\ waiting = "out" /\ method' = kind /\ requested' = s
    /\ verdict' = "none" /\ found' = -1 /\ check' = 0 /\ deadline' = FALSE
    /\ overruled' = Flagged(kind)
    /\ UNCHANGED <<builtVars, worldVars>>

wait_for(s)               == Call("alert", s) /\ waiting' = "entry"
wait_for_with_timeout(s)  == Call("timeout", s) /\ waiting' = "entry"
wait_for_with_shutdown(s) == Call("shutdown", s) /\ waiting' = "flag"

Answer(answer) ==
    /\ waiting' = "out" /\ verdict' = answer
    /\ check' = 0 /\ deadline' = FALSE
    /\ UNCHANGED <<found, overruled>>

Proceed(place, index) ==
    /\ waiting' = place /\ check' = index
    /\ UNCHANGED <<found, deadline, verdict, overruled>>

CheckShutdown ==
    /\ waiting = "flag"
    /\ IF shutdown_flag THEN Answer("Alert") ELSE Proceed("entry", 0)

check_alert ==
    /\ waiting = "entry"
    /\ IF barrier_alerted THEN Answer("Alert") ELSE Proceed("strategy", 1)

Loop == wait_strategy[method]
Round == Proceed("strategy", IF check = Len(Loop) THEN 1 ELSE check + 1)

\* The strategy's answer goes through the barrier's last check.
LeaveStrategy(place, available) ==
    /\ waiting' = place /\ found' = available /\ check' = 0 /\ deadline' = FALSE
    /\ UNCHANGED <<verdict, overruled>>

\* The timed wait of the default method has run out: the next one.
StartInterval ==
    /\ check' = 1 /\ deadline' = FALSE
    /\ UNCHANGED <<waiting, found, verdict, overruled>>

\* One check of the strategy's loop.
PollOnce ==
    /\ waiting = "strategy"
    /\ CASE Loop[check] = "alert"     -> IF barrier_alerted THEN Answer("Alert") ELSE Round
         [] Loop[check] = "shutdown"  -> IF shutdown_flag THEN Answer("Alert") ELSE Round
         [] Loop[check] = "available" -> IF wait_available_sequence >= requested
                                         THEN LeaveStrategy("after", wait_available_sequence)
                                         ELSE Round
         [] Loop[check] = "elapsed"   -> IF deadline THEN LeaveStrategy("late", found) ELSE Round
         [] Loop[check] = "interval"  -> IF deadline THEN StartInterval
                                         ELSE Proceed("strategy", FirstOfRound)

\* Mutant of AfterWait: what the strategy has found is the answer.
AfterWaitTrusting ==
    /\ waiting \in {"after", "late"}
    /\ IF waiting = "late" THEN Answer("Timeout") ELSE Proceed("resolve", 0)

\* The check after the wait, of what was found and of a timeout alike.
AfterWait ==
    /\ waiting \in {"after", "late"}
    /\ IF barrier_alerted THEN Answer("Alert")
       ELSE IF waiting = "late" THEN Answer("Timeout")
       ELSE Proceed("resolve", 0)

\* The end of the published run from s on, no further than available.
resolve_highest_published(s, available) ==
    IF ~needs_contiguity_check \/ available < s THEN available
    ELSE CHOOSE h \in s - 1 .. available :
            /\ s .. h \subseteq flagged
            /\ h = available \/ h + 1 \notin flagged

Resolve ==
    /\ waiting = "resolve" /\ waiting' = "out" /\ verdict' = "Ok"
    /\ found' = resolve_highest_published(requested, found)
    /\ UNCHANGED <<check, deadline, overruled>>

WaitStep ==
    /\ \/ CheckShutdown \/ check_alert \/ PollOnce \/ AfterWait \/ Resolve
    /\ UNCHANGED <<builtVars, worldVars, callVars>>

-----------------------------------------------------------------------------
(* Around the consumer: producers, the stage before, the owner, the clock. *)

waitVars == <<waiting, method, requested, found, check, verdict>>

\* publish() of a single producer moves the cursor over what it has written.
SinglePublish ==
    /\ ~needs_contiguity_check /\ tip < LastPublished
    /\ tip' = tip + 1 /\ flagged' = flagged \cup {tip + 1}
    /\ UNCHANGED <<builtVars, waitVars, upstream, shutdown_flag, barrier_alerted, deadline,
                   overruled>>

\* next() of one of several moves it before anything is written.
MultiClaim ==
    /\ needs_contiguity_check /\ tip < LastPublished /\ tip' = tip + 1
    /\ UNCHANGED <<builtVars, waitVars, flagged, upstream, shutdown_flag, barrier_alerted,
                   deadline, overruled>>

\* publish() of one of several marks a claimed sequence, in any order.
PublishClaimed ==
    /\ \E s \in 0 .. tip : s \notin flagged /\ flagged' = flagged \cup {s}
    /\ UNCHANGED <<builtVars, waitVars, tip, upstream, shutdown_flag, barrier_alerted, deadline,
                   overruled>>

UpstreamConsumes ==
    /\ dependent /\ upstream + 1 \in flagged /\ upstream' = upstream + 1
    /\ UNCHANGED <<builtVars, waitVars, tip, flagged, shutdown_flag, barrier_alerted, deadline,
                   overruled>>

\* The flag counts as seen in time up to the wait's last check of it.
alert ==
    /\ ~barrier_alerted /\ barrier_alerted' = TRUE
    /\ overruled' = (overruled \/ waiting \notin {"out", "resolve"})
    /\ UNCHANGED <<builtVars, waitVars, tip, flagged, upstream, shutdown_flag, deadline>>

\* run() clears the alert of its own barrier before it waits.
clear_alert ==
    /\ barrier_alerted /\ waiting = "out"
    /\ barrier_alerted' = FALSE /\ verdict' = "none" /\ overruled' = FALSE
    /\ UNCHANGED <<builtVars, waiting, method, requested, found, check, tip, flagged, upstream,
                   shutdown_flag, deadline>>

RaiseShutdown ==
    /\ ~shutdown_flag /\ shutdown_flag' = TRUE
    /\ UNCHANGED <<builtVars, waitVars, tip, flagged, upstream, barrier_alerted, deadline,
                   overruled>>

Elapse ==
    /\ waiting = "strategy" /\ method # "alert" /\ ~deadline /\ deadline' = TRUE
    /\ UNCHANGED <<builtVars, waitVars, worldVars, overruled>>

Calls == \E s \in 0 .. LastPublished : wait_for(s) \/ wait_for_with_timeout(s)
                                       \/ wait_for_with_shutdown(s)

BarrierNext ==
    \/ Calls \/ WaitStep \/ Elapse
    \/ SinglePublish \/ MultiClaim \/ PublishClaimed \/ UpstreamConsumes
    \/ alert \/ clear_alert \/ RaiseShutdown

\* The waiting thread and the clock run on.
BarrierSpec ==
    BarrierInit /\ [][BarrierNext]_barrierVars /\ WF_barrierVars(WaitStep) /\ WF_barrierVars(Elapse)

-----------------------------------------------------------------------------
\* What a wait answers is so.  A sequence it returns closes a run of published
\* events that the stage before has finished with (resolve_highest_published);
\* an alert that was up before the last check is never answered with events or
\* a timeout, even when the sequence was available ("Alert has terminal
\* priority", simple_wait_strategy.rs), and none is made up.
AnswersAreTrue ==
    waiting = "out" =>
        /\ verdict = "Ok" =>
              /\ requested .. found \subseteq flagged /\ found >= requested - 1
              /\ dependent => found <= upstream
        /\ verdict \in {"Ok", "Timeout"} => ~overruled
        /\ verdict = "Alert" => Flagged(method)

\* Every wait that has a reason to end does: its event is there, its barrier is
\* alerted, its deadline will pass, or its flag is up - whichever strategy it
\* polls with, the default methods' rounds of timed waits included.
WaitsReturn ==
    (/\ waiting # "out"
     /\ Flagged(method) \/ method = "timeout" \/ wait_available_sequence >= requested)
    ~> waiting = "out"

-----------------------------------------------------------------------------
(* The inductive invariant: why AnswersAreTrue holds.                      *)

BarrierTypeOK ==
    /\ wait_strategy \in Strategies /\ method \in {"alert", "timeout", "shutdown"}
    /\ waiting \in {"out", "flag", "entry", "strategy", "after", "late", "resolve"}
    /\ verdict \in {"none", "Ok", "Timeout", "Alert"}
    /\ tip \in Int /\ upstream \in Int /\ found \in Int /\ requested \in Nat
    /\ waiting = "strategy" => check \in 1 .. Len(Loop)

\* A cursor of one producer is published to its end; the stage before has
\* passed over published events only.
PublishedInv ==
    /\ -1 <= upstream /\ 0 .. upstream \subseteq flagged
    /\ ~needs_contiguity_check => 0 .. tip \subseteq flagged

\* Up to the last check an alert that was up still is, since nobody clears it
\* under a wait; past that check none was up.  What was found was available.
WaitInv ==
    /\ waiting = "flag" => method = "shutdown" /\ (overruled => Flagged(method))
    /\ waiting \in {"entry", "strategy", "after", "late"} => (overruled => barrier_alerted)
    /\ waiting = "resolve" => ~overruled
    /\ waiting \in {"after", "resolve"} =>
          requested <= found /\ found <= wait_available_sequence

BarrierInv == BarrierTypeOK /\ PublishedInv /\ WaitInv /\ AnswersAreTrue
=============================================================================
