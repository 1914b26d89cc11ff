--------------------------- MODULE ProcessorProbe ---------------------------
(***************************************************************************)
(* One BatchEventProcessor that several threads drive by hand: one calls   *)
(* run() again and again, others probe with try_run_once(), and anyone may *)
(* halt() it.  All of them meet at the running flag, which halt() clears   *)
(* under the feet of whoever claimed it, at the barrier's alert and at the *)
(* handler's mutex.                                                        *)
(***************************************************************************)
EXTENDS StandaloneRing

CONSTANT Probers  \* the threads that call try_run_once()

ASSUME ProbersAssumption == "run" \notin Probers /\ None \notin Probers \cup {"run"}

VARIABLES
    running, barrier_alert,     \* the processor's flag, its barrier's alert
    event_handler,              \* the holder of the handler's mutex, or None
    processor_sequence,         \* the gating sequence
    halting,                    \* halt() is between its two stores
    at,                         \* caller -> its place in run or try_run_once
    batch_next, batch_end,      \* caller -> its next event, the end of its batch
    handled                     \* history: how often an event was handled,
                                \* 2 standing for more than once

Callers == Probers \cup {"run"}

probeVars == <<running, barrier_alert, event_handler, processor_sequence, halting,
               at, batch_next, batch_end, handled>>

ProbeInit ==
    /\ running = FALSE /\ barrier_alert = FALSE /\ event_handler = None
    /\ processor_sequence = -1 /\ halting = FALSE
    /\ at = [c \in Callers |-> "out"]
    /\ batch_next = [c \in Callers |-> -1] /\ batch_end = [c \in Callers |-> -1]
    /\ handled = [s \in 0 .. MaxSequence |-> 0]

Move(c, place) == at' = [at EXCEPT ![c] = place]

handlerFree == event_handler = None

\* compare_exchange(false, true), by run() and by a probe; a caller that
\* fails returns AlreadyRunning or Ok(false) and changes nothing.
Claim(c) ==
    /\ at[c] = "out" /\ ~running
    /\ running' = TRUE /\ Move(c, IF c = "run" THEN "clear" ELSE "lock")
    /\ UNCHANGED <<barrier_alert, event_handler, processor_sequence, batch_next,
                   batch_end, handled, failureVars>>

-----------------------------------------------------------------------------
(* run().                                                                  *)

ClearAlert ==
    /\ at["run"] = "clear"
    /\ barrier_alert' = FALSE /\ Move("run", "start")
    /\ UNCHANGED <<running, event_handler, processor_sequence, batch_next, batch_end,
                   handled, failureVars>>

\* A contended mutex means that another thread drives the handler: skip it.
invoke_on_start ==
    /\ at["run"] = "start"
    /\ \/ Move("run", "recheck") /\ UNCHANGED failureVars
       \/ handlerFree /\ poison_with_failure("HandlerStart") /\ Move("run", "leave")
       \/ handlerFree /\ poison_with_failure("ConsumerPanic") /\ Move("run", "leave")
    /\ UNCHANGED <<running, barrier_alert, event_handler, processor_sequence,
                   batch_next, batch_end, handled>>

process_events ==
    /\ \/ /\ at["run"] = "recheck"
          /\ Move("run", IF running THEN "lock" ELSE "stop")
          /\ UNCHANGED <<event_handler, batch_next>>
       \/ /\ at["run"] = "lock" /\ handlerFree
          /\ event_handler' = "run" /\ Move("run", "loop")
          /\ batch_next' = [batch_next EXCEPT !["run"] = processor_sequence + 1]
       \/ /\ at["run"] = "loop"
          /\ IF running THEN Move("run", "wait") /\ UNCHANGED event_handler
             ELSE Move("run", "stop") /\ event_handler' = None
          /\ UNCHANGED batch_next
    /\ UNCHANGED <<running, barrier_alert, processor_sequence, batch_end, handled,
                   failureVars>>

\* Mutant of WaitForBatch: the wait looks for events alone.
WaitForBatchBlind ==
    /\ at["run"] = "wait" /\ cursor >= batch_next["run"]
    /\ batch_end' = [batch_end EXCEPT !["run"] = cursor] /\ Move("run", "batch")
    /\ UNCHANGED <<running, barrier_alert, event_handler, processor_sequence,
                   batch_next, handled, failureVars>>

\* The barrier answers an alert before it answers an event.
WaitForBatch ==
    /\ at["run"] = "wait"
    /\ \/ /\ barrier_alert /\ Move("run", "stop") /\ event_handler' = None
          /\ UNCHANGED batch_end
       \/ /\ ~barrier_alert /\ cursor >= batch_next["run"]
          /\ batch_end' = [batch_end EXCEPT !["run"] = cursor] /\ Move("run", "batch")
          /\ UNCHANGED event_handler
    /\ UNCHANGED <<running, barrier_alert, processor_sequence, batch_next, handled,
                   failureVars>>

\* on_shutdown is skipped when the mutex is contended; its error is recorded.
invoke_on_shutdown ==
    /\ at["run"] = "stop" /\ Move("run", "leave")
    /\ \/ UNCHANGED failureVars
       \/ handlerFree /\ record_failure("HandlerShutdown") /\ UNCHANGED poisoned
       \/ handlerFree /\ poison_with_failure("ConsumerPanic")
    /\ UNCHANGED <<running, barrier_alert, event_handler, processor_sequence,
                   batch_next, batch_end, handled>>

-----------------------------------------------------------------------------
(* try_run_once().                                                         *)

\* Mutant of try_lock: the claim of the flag is trusted.
try_lockUnchecked(p) ==
    /\ at[p] = "lock"
    /\ event_handler' = p /\ Move(p, "read")
    /\ batch_next' = [batch_next EXCEPT ![p] = processor_sequence + 1]
    /\ UNCHANGED <<running, barrier_alert, processor_sequence, batch_end, handled,
                   failureVars>>

try_lock(p) ==
    /\ at[p] = "lock"
    /\ IF handlerFree
       THEN /\ event_handler' = p /\ Move(p, "read")
            /\ batch_next' = [batch_next EXCEPT ![p] = processor_sequence + 1]
       ELSE Move(p, "leave") /\ UNCHANGED <<event_handler, batch_next>>
    /\ UNCHANGED <<running, barrier_alert, processor_sequence, batch_end, handled,
                   failureVars>>

Probe(p) ==
    /\ at[p] = "read"
    /\ IF barrier_alert THEN Move(p, "unlock") /\ UNCHANGED batch_end
       ELSE Move(p, "recheck") /\ batch_end' = [batch_end EXCEPT ![p] = cursor]
    /\ UNCHANGED <<running, barrier_alert, event_handler, processor_sequence,
                   batch_next, handled, failureVars>>

\* The barrier's second look at its alert, the look at running, nothing to do.
Recheck(p) ==
    /\ at[p] = "recheck"
    /\ Move(p, IF barrier_alert \/ ~running \/ batch_end[p] < batch_next[p]
               THEN "unlock" ELSE "batch")
    /\ UNCHANGED <<running, barrier_alert, event_handler, processor_sequence,
                   batch_next, batch_end, handled, failureVars>>

\* on_batch_start runs before the catch_unwind of a probe: its panic unwinds
\* through the guards, records nothing and poisons nobody.
BatchStartUnwinds(p) ==
    /\ at[p] = "batch" /\ batch_next[p] = processor_sequence + 1
    /\ Move(p, "unlock")
    /\ UNCHANGED <<running, barrier_alert, event_handler, processor_sequence,
                   batch_next, batch_end, handled, failureVars>>

\* The guards are dropped in reverse order: the mutex, then the flag.
Unlock(p) ==
    /\ at[p] = "unlock"
    /\ event_handler' = None /\ Move(p, "leave")
    /\ UNCHANGED <<running, barrier_alert, processor_sequence, batch_next, batch_end,
                   handled, failureVars>>

-----------------------------------------------------------------------------
(* One event of a batch, the same in both.                                 *)

Handled(s) == handled' = [handled EXCEPT ![s] = IF @ < 2 THEN @ + 1 ELSE @]

\* A failed batch: run() goes on to on_shutdown with the mutex released, a
\* probe clears running before its guards do.
FailBatch(c, phase) ==
    /\ poison_with_failure(phase)
    /\ IF c = "run" THEN /\ event_handler' = None
                         /\ Move(c, IF phase = "ConsumerPanic" THEN "leave" ELSE "stop")
                         /\ UNCHANGED running
       ELSE Move(c, "unlock") /\ running' = FALSE /\ UNCHANGED event_handler
    /\ UNCHANGED <<batch_next, batch_end, handled>>

\* on_batch_start fails before the first event; an event fails and the
\* exception handler says Stop, which freezes the sequence before it; or user
\* code panics where it is caught, which leaves the sequence where the last
\* batch put it.
Event(c) ==
    /\ at[c] = "batch"
    /\ \/ /\ Handled(batch_next[c])
          /\ batch_next' = [batch_next EXCEPT ![c] = @ + 1]
          /\ IF batch_next[c] = batch_end[c]
             THEN /\ processor_sequence' = batch_end[c]
                  /\ Move(c, IF c = "run" THEN "loop" ELSE "unlock")
             ELSE UNCHANGED <<processor_sequence, at>>
          /\ UNCHANGED <<running, event_handler, batch_end, failureVars>>
       \/ /\ batch_next[c] = processor_sequence + 1
          /\ FailBatch(c, "BatchStart") /\ UNCHANGED processor_sequence
       \/ /\ FailBatch(c, "EventProcessing")
          /\ processor_sequence' = batch_next[c] - 1
       \/ FailBatch(c, "ConsumerPanic") /\ UNCHANGED processor_sequence
    /\ UNCHANGED barrier_alert

\* Either caller stores running = false on its way out.
Leave(c) ==
    /\ at[c] = "leave"
    /\ running' = FALSE /\ Move(c, "out")
    /\ batch_next' = [batch_next EXCEPT ![c] = -1]
    /\ batch_end' = [batch_end EXCEPT ![c] = -1]
    /\ UNCHANGED <<barrier_alert, event_handler, processor_sequence, handled, failureVars>>

run ==
    \/ Claim("run") \/ ClearAlert \/ invoke_on_start \/ process_events \/ WaitForBatch
    \/ Event("run") \/ invoke_on_shutdown \/ Leave("run")

try_run_once(p) ==
    \/ Claim(p) \/ try_lock(p) \/ Probe(p) \/ Recheck(p) \/ BatchStartUnwinds(p)
    \/ Event(p) \/ Unlock(p) \/ Leave(p)

\* halt() clears the flag, then alerts the barrier.
HaltProcessor ==
    /\ \/ ~halting /\ halting' = TRUE /\ running' = FALSE /\ UNCHANGED barrier_alert
       \/ halting /\ halting' = FALSE /\ barrier_alert' = TRUE /\ UNCHANGED running
    /\ UNCHANGED <<event_handler, processor_sequence, at, batch_next, batch_end, handled,
                   failureVars>>

\* The public callback on_shutdown(), which clears the flag as well.
on_shutdown ==
    /\ running' = FALSE
    /\ \/ UNCHANGED first_failure
       \/ handlerFree /\ record_failure("HandlerShutdown")
    /\ UNCHANGED <<barrier_alert, event_handler, processor_sequence, at, batch_next,
                   batch_end, handled, halting, poisoned>>

CallerStep(c) ==
    /\ \/ c = "run" /\ run
       \/ c \in Probers /\ try_run_once(c)
    /\ UNCHANGED <<halting, ringVars>>

ProbeNext ==
    \/ \E c \in Callers : CallerStep(c)
    \/ (HaltProcessor \/ on_shutdown) /\ UNCHANGED ringVars
    \/ (try_publish(processor_sequence) \/ publish) /\ UNCHANGED probeVars

\* Threads are scheduled and callbacks return; nobody has to call anything.
ProbeSpec ==
    /\ RingInit /\ ProbeInit
    /\ [][ProbeNext]_<<ringVars, failureVars, probeVars>>
    /\ WF_probeVars(at["run"] # "out" /\ CallerStep("run"))

-----------------------------------------------------------------------------
\* However run(), probes and halts interleave, as long as nothing failed the
\* processor's sequence covers exactly the events that were handled, each of
\* them once ("a probe is mutually exclusive with the main loop and with other
\* probes"), although halt() frees the flag that this exclusion starts from.
HandledOnce ==
    first_failure = None =>
        \A s \in 0 .. MaxSequence :
            /\ handled[s] <= 1
            /\ s <= processor_sequence => handled[s] = 1

\* A loop that was halted ends: a probe may set running again behind its back,
\* but the alert stays until the loop has left its wait.
HaltEndsLoop ==
    at["run"] \in {"loop", "wait", "batch"} /\ barrier_alert ~> at["run"] = "out"

-----------------------------------------------------------------------------
(* The inductive invariant: why HandledOnce holds.                         *)

ProbeTypeOK ==
    /\ RingTypeOK
    /\ event_handler \in Callers \cup {None} /\ processor_sequence \in Int
    /\ at \in [Callers -> {"out", "clear", "start", "recheck", "lock", "loop", "wait",
                           "batch", "stop", "leave", "read", "unlock"}]
    /\ batch_next \in [Callers -> Int] /\ batch_end \in [Callers -> Int]
    /\ handled \in [0 .. MaxSequence -> 0 .. 2]

\* The places at which a caller has the handler's mutex.
Holds(c) ==
    at[c] \in IF c = "run" THEN {"loop", "wait", "batch"}
              ELSE {"read", "recheck", "batch", "unlock"}

\* The mutex, not the flag, keeps callers apart: only its holder knows where
\* the processor stands, and a batch is above the sequence and published.
CallerInv(c) ==
    /\ Holds(c) <=> event_handler = c
    /\ Holds(c) /\ at[c] \notin {"batch", "unlock"} => batch_next[c] = processor_sequence + 1
    /\ Holds(c) /\ at[c] = "recheck" => batch_end[c] <= cursor
    /\ at[c] = "batch" => /\ processor_sequence < batch_next[c]
                          /\ batch_next[c] <= batch_end[c] /\ batch_end[c] <= cursor

\* The last event that was handled: inside a batch the sequence lags behind.
Reached ==
    IF event_handler # None /\ at[event_handler] = "batch"
    THEN batch_next[event_handler] - 1 ELSE processor_sequence

ProbeInv ==
    /\ ProbeTypeOK
    /\ -1 <= processor_sequence /\ cursor <= MaxSequence
    /\ producer = "publish" => cursor < MaxSequence
    /\ \A c \in Callers : CallerInv(c)
    /\ first_failure = None =>
          \A s \in 0 .. MaxSequence : handled[s] = IF s <= Reached THEN 1 ELSE 0
=============================================================================
