---------------------------- MODULE DslLifecycle ----------------------------
(***************************************************************************)
(* The classic DSL: a Disruptor whose owner starts, drains, halts and      *)
(* restarts its BatchEventProcessors, each on a thread of its own.         *)
(*                                                                         *)
(* start, shutdown and halt take &mut self, publish_event takes &self: so  *)
(* one owner makes these calls one after the other, and publishing happens *)
(* only between them.  The threads run concurrently with all of it.  How a *)
(* claim is gated, and the order of record and poison, are the subject of  *)
(* the pipeline modules; here a publication and a poisoning are one step.  *)
(***************************************************************************)
EXTENDS Integers, Sequences

CONSTANTS
    Built,        \* the calls that added the processors, in their order
    Size,         \* buffer_size
    MaxSequence,  \* bound: the last sequence that is published
    MaxStarts     \* bound: the calls of start() that go ahead

ASSUME DslAssumption ==
    /\ Built \in Seq({"handle_events_with", "then"}) /\ Size \in Nat \ {0}
    /\ Len(Built) > 0 /\ Built[1] = "handle_events_with"
    /\ MaxSequence \in Nat /\ MaxStarts \in Nat

N == Len(Built)

Processors == 1 .. N

VARIABLES
    owner,             \* the place of the owner in its current call
    call,              \* the current, or the last, call of the owner
    result,            \* what that call has answered so far
    at,                \* the processor that a loop over them has reached
    drain_target,      \* the cursor read by drain_backlog
    started,           \* Disruptor::started
    starts,            \* how many starts went ahead (for MaxStarts)
    cursor, closed, poisoned, first_failure,  \* the sequencer
    thread,            \* processor -> the place of its thread
    running, startup_complete, alerted,       \* processor and barrier flags
    sequence,          \* processor -> its sequence
    available          \* processor -> the end of its current batch

ownerVars   == <<owner, call, result, at, drain_target, started, starts>>
flagVars    == <<closed, poisoned, first_failure>>
controlVars == <<running, startup_complete, alerted>>
vars == <<ownerVars, cursor, flagVars, thread, controlVars, sequence, available>>

Finished == {"ok", "error", "panicked"}

Init ==
    /\ owner = "idle" /\ call = "none" /\ result = "Ok" /\ at = 1
    /\ drain_target = -1 /\ started = FALSE /\ starts = 0
    /\ cursor = -1 /\ closed = FALSE /\ poisoned = FALSE /\ first_failure = "none"
    /\ thread = [p \in Processors |-> "none"]
    /\ running = [p \in Processors |-> FALSE]
    /\ startup_complete = [p \in Processors |-> FALSE]
    /\ alerted = [p \in Processors |-> FALSE]
    /\ sequence = [p \in Processors |-> -1]
    /\ available = [p \in Processors |-> -1]

record_failure(phase) ==
    first_failure' = IF first_failure = "none" THEN phase ELSE first_failure

poison_with_failure(phase) ==
    record_failure(phase) /\ poisoned' = TRUE /\ UNCHANGED closed

-----------------------------------------------------------------------------
(* The processor's thread: BatchEventProcessor::run.                       *)

GoTo(p, place) == thread' = [thread EXCEPT ![p] = place]

SetFlag(flag, p, value) == flag' = [flag EXCEPT ![p] = value]

\* compare_exchange(false, true); a processor that runs already is an error.
ClaimRun(p) ==
    /\ thread[p] = "spawned"
    /\ SetFlag(running, p, TRUE)
    /\ GoTo(p, IF running[p] THEN "error" ELSE "reset")
    /\ UNCHANGED <<startup_complete, alerted, flagVars, sequence, available>>

ResetStartup(p) ==
    /\ thread[p] = "reset"
    /\ SetFlag(startup_complete, p, FALSE)
    /\ GoTo(p, "clear")
    /\ UNCHANGED <<running, alerted, flagVars, sequence, available>>

ClearAlert(p) ==
    /\ thread[p] = "clear"
    /\ SetFlag(alerted, p, FALSE)
    /\ GoTo(p, "on_start")
    /\ UNCHANGED <<running, startup_complete, flagVars, sequence, available>>

\* A panic of the handler unwinds to the catch_unwind of run.
Unwind(p) == GoTo(p, "unwind") /\ UNCHANGED flagVars

OnStart(p) ==
    /\ thread[p] = "on_start"
    /\ \/ GoTo(p, "complete") /\ UNCHANGED flagVars
       \/ GoTo(p, "failed") /\ poison_with_failure("HandlerStart")
       \/ Unwind(p)
    /\ UNCHANGED <<controlVars, sequence, available>>

\* startup_complete is set whether on_start succeeded or not.
CompleteStartup(p) ==
    /\ thread[p] \in {"complete", "failed"}
    /\ SetFlag(startup_complete, p, TRUE)
    /\ GoTo(p, IF thread[p] = "failed" THEN "exit" ELSE "loop")
    /\ UNCHANGED <<running, alerted, flagVars, sequence, available>>

\* The re-check of running after on_start, and the one that heads every turn
\* of the batch loop: either way a halted processor goes on to on_shutdown.
PollRunning(p) ==
    /\ thread[p] = "loop"
    /\ GoTo(p, IF running[p] THEN "wait" ELSE "on_shutdown")
    /\ UNCHANGED <<controlVars, flagVars, sequence, available>>

\* A barrier without dependencies, whatever was added before.
handle_events_with == cursor

\* A barrier that depends on the processor added last.
then(p) == sequence[p - 1]

\* Mutant of Upstream: the later stage waits for the cursor as well.
UpstreamCursor(p) == cursor

Upstream(p) == IF Built[p] = "then" THEN then(p) ELSE handle_events_with

\* wait_for looks at the barrier's alert, never at running.
WaitFor(p) ==
    /\ thread[p] = "wait"
    /\ \/ /\ alerted[p]
          /\ GoTo(p, "on_shutdown") /\ UNCHANGED available
       \/ /\ ~alerted[p] /\ Upstream(p) > sequence[p]
          /\ SetFlag(available, p, Upstream(p)) /\ GoTo(p, "batch")
    /\ UNCHANGED <<controlVars, flagVars, sequence>>

\* on_batch_start and the events of one batch.  The exception handler stops
\* the processor at some event k, which freezes the sequence before it, or
\* lets it continue; a panic leaves the sequence alone.
RunBatch(p) ==
    /\ thread[p] = "batch"
    /\ \/ /\ SetFlag(sequence, p, available[p])
          /\ GoTo(p, "loop") /\ UNCHANGED flagVars
       \/ /\ poison_with_failure("BatchStart")
          /\ GoTo(p, "on_shutdown") /\ UNCHANGED sequence
       \/ /\ \E k \in sequence[p] + 1 .. available[p] : SetFlag(sequence, p, k - 1)
          /\ poison_with_failure("EventProcessing")
          /\ GoTo(p, "on_shutdown")
       \/ Unwind(p) /\ UNCHANGED sequence
    /\ SetFlag(available, p, -1)
    /\ UNCHANGED controlVars

OnShutdown(p) ==
    /\ thread[p] = "on_shutdown"
    /\ \/ GoTo(p, "exit") /\ UNCHANGED flagVars
       \/ GoTo(p, "exit") /\ record_failure("HandlerShutdown") /\ UNCHANGED <<closed, poisoned>>
       \/ Unwind(p)
    /\ UNCHANGED <<controlVars, sequence, available>>

PoisonOnPanic(p) ==
    /\ thread[p] = "unwind"
    /\ poison_with_failure("ConsumerPanic")
    /\ GoTo(p, "resume")
    /\ UNCHANGED <<controlVars, sequence, available>>

\* Both ways out of run clear the flag that its first step claimed.
LeaveRun(p) ==
    /\ thread[p] \in {"exit", "resume"}
    /\ SetFlag(running, p, FALSE)
    /\ GoTo(p, IF thread[p] = "resume" THEN "panicked" ELSE "ok")
    /\ UNCHANGED <<startup_complete, alerted, flagVars, sequence, available>>

ThreadStep(p) ==
    /\ \/ ClaimRun(p) \/ ResetStartup(p) \/ ClearAlert(p) \/ OnStart(p)
       \/ CompleteStartup(p) \/ PollRunning(p) \/ WaitFor(p) \/ RunBatch(p)
       \/ OnShutdown(p) \/ PoisonOnPanic(p) \/ LeaveRun(p)
    /\ UNCHANGED <<ownerVars, cursor>>

-----------------------------------------------------------------------------
(* The owner of the Disruptor.                                             *)

\* A call that went ahead; a refused one (started twice, stopped when not
\* started) changes nothing.
Begin(name, place) ==
    /\ owner = "idle"
    /\ call' = name /\ result' = "Ok" /\ at' = 1 /\ owner' = place

\* start: reopen the claim path.  shutdown_flag has no reader in the DSL.
\* Bound: a Disruptor in which an unwound start() left threads is not started
\* again (a processor would get a second handle).
Start ==
    /\ ~started /\ starts < MaxStarts
    /\ \A p \in Processors : thread[p] = "none"
    /\ Begin("start", "spawn")
    /\ starts' = starts + 1 /\ closed' = FALSE
    /\ UNCHANGED <<drain_target, started, poisoned, first_failure, cursor>>
    /\ UNCHANGED <<thread, controlVars, sequence, available>>

\* The expect of a spawn that fails unwinds out of start(): nothing is halted
\* or joined, and the threads spawned so far run on.
Spawn ==
    /\ owner = "spawn"
    /\ \/ GoTo(at, "spawned") /\ owner' = "startup" /\ UNCHANGED result
       \/ owner' = "idle" /\ result' = "Panicked" /\ UNCHANGED thread
    /\ UNCHANGED <<call, at, drain_target, started, starts, cursor>>
    /\ UNCHANGED <<flagVars, controlVars, sequence, available>>

\* The loop over is_startup_complete and is_finished.
AwaitStartup ==
    /\ owner = "startup"
    /\ startup_complete[at] \/ thread[at] \in Finished
    /\ owner' = "verdict"
    /\ UNCHANGED <<call, result, at, drain_target, started, starts, cursor>>
    /\ UNCHANGED <<flagVars, thread, controlVars, sequence, available>>

\* Mutant of StartVerdict: a failed start returns without halt_join.
StartVerdictUnjoined ==
    /\ owner = "verdict"
    /\ LET failed == poisoned \/ thread[at] \in Finished
           last   == at = N
       IN  /\ result' = IF poisoned THEN "Poisoned"
                        ELSE IF failed THEN "ShutdownError" ELSE "Ok"
           /\ owner' = IF failed \/ last THEN "idle" ELSE "spawn"
           /\ at' = IF failed \/ last THEN 1 ELSE at + 1
           /\ started' = (last /\ ~failed)
    /\ UNCHANGED <<call, drain_target, starts, cursor>>
    /\ UNCHANGED <<flagVars, thread, controlVars, sequence, available>>

\* Poison and a finished thread end the start; both are permanent, so they
\* are read together.
StartVerdict ==
    /\ owner = "verdict"
    /\ LET failed == poisoned \/ thread[at] \in Finished
           last   == at = N
       IN  /\ result' = IF poisoned THEN "Poisoned"
                        ELSE IF failed THEN "ShutdownError" ELSE "Ok"
           /\ owner' = IF failed THEN "halt" ELSE IF last THEN "idle" ELSE "spawn"
           /\ at' = IF failed \/ last THEN 1 ELSE at + 1
           /\ started' = (last /\ ~failed)
    /\ UNCHANGED <<call, drain_target, starts, cursor>>
    /\ UNCHANGED <<flagVars, thread, controlVars, sequence, available>>

\* shutdown and shutdown_timeout close the claims and drain, halt does not.
Shutdown ==
    /\ started /\ Begin("shutdown", "snapshot") /\ closed' = TRUE
    /\ UNCHANGED <<drain_target, started, starts, poisoned, first_failure, cursor>>
    /\ UNCHANGED <<thread, controlVars, sequence, available>>

Halt ==
    /\ started /\ Begin("halt", "halt") /\ closed' = TRUE
    /\ UNCHANGED <<drain_target, started, starts, poisoned, first_failure, cursor>>
    /\ UNCHANGED <<thread, controlVars, sequence, available>>

DrainSnapshot ==
    /\ owner = "snapshot"
    /\ drain_target' = cursor /\ owner' = "drain"
    /\ UNCHANGED <<call, result, at, started, starts, cursor>>
    /\ UNCHANGED <<flagVars, thread, controlVars, sequence, available>>

\* Mutant of DrainBacklog: some processor is done, not all of them.
DrainFirst ==
    /\ owner = "drain"
    /\ LET dead     == \E p \in Processors : thread[p] \in Finished
           consumed == \E p \in Processors : sequence[p] >= drain_target
       IN  /\ poisoned \/ dead \/ consumed
           /\ result' = IF poisoned THEN "Poisoned"
                        ELSE IF dead THEN "ShutdownError" ELSE "Ok"
    /\ owner' = "halt"
    /\ UNCHANGED <<call, at, drain_target, started, starts, cursor>>
    /\ UNCHANGED <<flagVars, thread, controlVars, sequence, available>>

\* The turn that ends drain_backlog; a turn that goes on changes nothing.
\* The three tests are one step: with the claims closed a backlog that is
\* consumed poisons nothing any more.
DrainBacklog ==
    /\ owner = "drain"
    /\ LET dead     == \E p \in Processors : thread[p] \in Finished
           consumed == \A p \in Processors : sequence[p] >= drain_target
       IN  /\ poisoned \/ dead \/ consumed
           /\ result' = IF poisoned THEN "Poisoned"
                        ELSE IF dead THEN "ShutdownError" ELSE "Ok"
    /\ owner' = "halt"
    /\ UNCHANGED <<call, at, drain_target, started, starts, cursor>>
    /\ UNCHANGED <<flagVars, thread, controlVars, sequence, available>>

\* The deadline of shutdown_timeout passes with a backlog left; a shutdown
\* without one never takes this step, so nothing may depend on it.
DrainTimesOut ==
    /\ owner = "drain" /\ \E p \in Processors : sequence[p] < drain_target
    /\ result' = "Timeout" /\ owner' = "halt"
    /\ UNCHANGED <<call, at, drain_target, started, starts, cursor>>
    /\ UNCHANGED <<flagVars, thread, controlVars, sequence, available>>

\* halt_join: each processor's halt() clears running and alerts its barrier.
HaltProcessor ==
    /\ owner = "halt"
    /\ SetFlag(running, at, FALSE) /\ owner' = "alert"
    /\ UNCHANGED <<call, result, at, drain_target, started, starts, cursor>>
    /\ UNCHANGED <<flagVars, thread, startup_complete, alerted, sequence, available>>

\* Mutant of AlertBarrier: halt() clears running and alerts nobody.
AlertNobody ==
    /\ owner = "alert"
    /\ owner' = IF at = N THEN "join" ELSE "halt"
    /\ at' = IF at = N THEN 1 ELSE at + 1
    /\ UNCHANGED <<call, result, drain_target, started, starts, cursor>>
    /\ UNCHANGED <<flagVars, thread, controlVars, sequence, available>>

AlertBarrier ==
    /\ owner = "alert"
    /\ SetFlag(alerted, at, TRUE)
    /\ owner' = IF at = N THEN "join" ELSE "halt"
    /\ at' = IF at = N THEN 1 ELSE at + 1
    /\ UNCHANGED <<call, result, drain_target, started, starts, cursor>>
    /\ UNCHANGED <<flagVars, thread, running, startup_complete, sequence, available>>

\* The handles are popped from the back; a thread that panicked or returned
\* an error is recorded, and spoils a result that was Ok.
Join ==
    /\ owner = "join"
    /\ \E p \in Processors :
          /\ thread[p] \in Finished
          /\ \A q \in Processors : thread[q] # "none" => q <= p
          /\ GoTo(p, "none")
          /\ IF thread[p] = "ok" THEN UNCHANGED <<first_failure, result>>
             ELSE /\ record_failure(IF thread[p] = "error" THEN "ProcessorThread"
                                    ELSE "ConsumerPanic")
                  /\ result' = IF result = "Ok" THEN "ShutdownError" ELSE result
    /\ UNCHANGED <<owner, call, at, drain_target, started, starts, cursor>>
    /\ UNCHANGED <<closed, poisoned, controlVars, sequence, available>>

JoinReturns ==
    /\ owner = "join" /\ \A p \in Processors : thread[p] = "none"
    /\ started' = FALSE /\ owner' = "idle"
    /\ UNCHANGED <<call, result, at, drain_target, starts, cursor>>
    /\ UNCHANGED <<flagVars, thread, controlVars, sequence, available>>

OwnerStep ==
    \/ Spawn \/ AwaitStartup \/ StartVerdict \/ DrainSnapshot \/ DrainBacklog
    \/ HaltProcessor \/ AlertBarrier \/ Join \/ JoinReturns

\* publish_event and try_publish_event between the owner's other calls: every
\* processor gates the claim.  A translator that panics poisons the pipeline.
PublishEvent ==
    /\ owner = "idle" /\ ~closed /\ ~poisoned
    /\ cursor < MaxSequence
    /\ \A p \in Processors : cursor + 1 - Size <= sequence[p]
    /\ \/ cursor' = cursor + 1 /\ UNCHANGED flagVars
       \/ poison_with_failure("ProducerPanic") /\ UNCHANGED cursor
    /\ UNCHANGED <<ownerVars, thread, controlVars, sequence, available>>

Next ==
    \/ \E p \in Processors : ThreadStep(p)
    \/ OwnerStep \/ DrainTimesOut
    \/ Start \/ Shutdown \/ Halt \/ PublishEvent

Spec == Init /\ [][Next]_vars

\* Threads are scheduled and callbacks return; nobody has to publish or to
\* call, but a call that began is carried on.
FairSpec ==
    Spec /\ WF_vars(OwnerStep) /\ \A p \in Processors : WF_vars(ThreadStep(p))

-----------------------------------------------------------------------------
\* A Disruptor that is not started and in no call has joined every thread that
\* it spawned, after a start() that answered an error as after a stop (halt_join
\* joins what was spawned so far).  One way out leaves threads: a start() that
\* unwound from a failing spawn, exactly those of the processors before it.
StoppedThreadsAreJoined ==
    ~started /\ owner = "idle" =>
        \A p \in Processors : thread[p] # "none" <=> result = "Panicked" /\ p < at

\* A shutdown() that went ahead and answers Ok left no published event
\* unhandled, at any stage of the chain ("wait for consumers to process the
\* published backlog").  When nothing is started it answers Ok at once.
ShutdownHandledAll ==
    owner = "idle" /\ call = "shutdown" /\ result = "Ok"
      => \A p \in Processors : sequence[p] = cursor

\* The slots that p's handler may write: those of its batch.
Window(p) == IF thread[p] = "batch" THEN {s % Size : s \in sequence[p] + 1 .. available[p]}
             ELSE {}

\* Handlers that run at once hold disjoint slots: "each processor has an
\* exclusive barrier-ordered window over the slots it mutates".
WindowsAreExclusive ==
    \A p, q \in Processors : p # q => Window(p) \cap Window(q) = {}

\* Until the second start, every start(), shutdown() and halt() returns: no
\* failure and no early end of a thread leaves the owner waiting.
FirstCallsReturn == owner # "idle" /\ starts = 1 ~> owner = "idle"

\* Every start(), shutdown() and halt() returns: a halted processor leaves its
\* wait ("running=false (Release) + barrier alert wakes waiters").
CallsReturn == owner # "idle" ~> owner = "idle"

-----------------------------------------------------------------------------
(* The inductive invariant: why the properties above hold.                 *)

Places ==
    {"none", "spawned", "reset", "clear", "on_start", "complete", "failed", "loop",
     "wait", "batch", "on_shutdown", "exit", "unwind", "resume"} \cup Finished

TypeOK ==
    /\ owner \in {"idle", "spawn", "startup", "verdict", "snapshot", "drain", "halt",
                  "alert", "join"}
    /\ call \in {"none", "start", "shutdown", "halt"}
    /\ result \in {"Ok", "Poisoned", "ShutdownError", "Timeout", "Panicked"}
    /\ at \in Processors /\ drain_target \in Int /\ started \in BOOLEAN
    /\ cursor \in Int /\ closed \in BOOLEAN
    /\ thread \in [Processors -> Places]
    /\ sequence \in [Processors -> Int] /\ available \in [Processors -> Int]

\* q waits for p, directly or through the processors between them.
Follows(p, q) == p < q /\ \A r \in p + 1 .. q : Built[r] = "then"

\* How far a processor has got: what it handles is published and still in the
\* ring, and whoever it waits for is done with it.
Progress(p) ==
    /\ -1 <= sequence[p] /\ cursor - Size <= sequence[p] /\ sequence[p] <= cursor
    /\ thread[p] = "batch" => sequence[p] < available[p] /\ available[p] <= cursor
    /\ \A q \in Processors : Follows(q, p) =>
          /\ sequence[p] <= sequence[q]
          /\ thread[p] = "batch" => available[p] <= sequence[q]

\* A shutdown closes before it reads its target, so the target stays the
\* cursor; an answer Ok came from processors that had all reached it.
ShutdownInv ==
    /\ owner \in {"spawn", "startup", "verdict"} => call = "start"
    /\ owner \in {"snapshot", "drain"} => call = "shutdown"
    /\ call = "shutdown" =>
          /\ closed
          /\ owner # "snapshot" => drain_target = cursor
          /\ owner \notin {"snapshot", "drain"} /\ result = "Ok" =>
                \A p \in Processors : sequence[p] >= drain_target

\* A start() goes through the processors in order; only its unwinding, which
\* ends the call, answers nothing.
SpawnedInv ==
    /\ owner = "spawn" => \A p \in Processors : thread[p] # "none" <=> p < at
    /\ owner \in {"startup", "verdict"} =>
          \A p \in Processors : thread[p] # "none" <=> p <= at
    /\ owner # "idle" => result # "Panicked"

DslInv ==
    /\ TypeOK /\ StoppedThreadsAreJoined /\ SpawnedInv /\ ShutdownInv
    /\ \A p \in Processors : Progress(p)
=============================================================================
