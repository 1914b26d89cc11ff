------------------------------ MODULE Pipeline ------------------------------
(***************************************************************************)
(* The part of a built pipeline that does not depend on the producer mode: *)
(* the ring, the shared sequences and flags, the consumer threads that     *)
(* run the sequential loops of consumer_engine.rs behind their sequence    *)
(* barriers, and the DisruptorCore that drains, stops and joins them.      *)
(*                                                                         *)
(* SinglePipeline and MultiPipeline extend this module with the claiming   *)
(* and publishing side.  An event is abstracted to the sequence number     *)
(* whose producer wrote it, so a consumer that reads another event than    *)
(* its own is visible in the state.                                        *)
(***************************************************************************)
EXTENDS Integers

CONSTANTS
    Consumers,  \* the consumer threads of all stages
    Stage,      \* Stage[c]: the stage index of c
    Readonly,   \* the fan-out consumers (start_readonly_consumer)
    Size,       \* buffer_size
    None        \* the empty first_failure

ASSUME SizeAssumption == Size \in Nat \ {0}

\* The dependent sequences of c's barrier: the previous stage, or none.
Dependents(c) == {d \in Consumers : Stage[d] + 1 = Stage[c]}

\* Mutant of Terminal: the first stage gates instead of the last.
TerminalIsFirst == {c \in Consumers : \A d \in Consumers : Stage[c] <= Stage[d]}

\* Only the last stage gates the producers.
Terminal == {c \in Consumers : \A d \in Consumers : Stage[d] <= Stage[c]}

\* create_disruptor_core: there is a last stage, stage indices are contiguous,
\* and a Sequential stage wider than one is read-only (stage_run_modes).
ASSUME StageAssumption ==
    /\ Stage \in [Consumers -> Nat]
    /\ Terminal # {}
    /\ \A c \in Consumers : Stage[c] > 0 => Dependents(c) # {}
    /\ Readonly \subseteq Consumers
    /\ \A c, d \in Consumers :
          c # d /\ Stage[c] = Stage[d] => c \in Readonly /\ d \in Readonly

FailurePhase ==
    {"ThreadAffinity", "HandlerStart", "BatchStart", "EventProcessing",
     "HandlerShutdown", "ConsumerPanic", "ProducerPanic"}

ASSUME NoneAssumption == None \notin FailurePhase

VARIABLES
    cursor,              \* the sequencer's cursor
    ring,                \* slot index -> sequence whose producer wrote it
    gating_sequences,    \* the consumers the sequencer gates on
    poisoned, closed,    \* the sequencer's terminal flags
    first_failure,       \* the phase of the recorded failure, or None
    shutdown_flag,       \* the core's stop flag, polled by the consumers
    pc,                  \* consumer -> its place in the thread body
    consumer_sequence,   \* consumer -> the sequence it publishes
    next_sequence,       \* consumer -> the next event it will handle
    available_sequence,  \* consumer -> the barrier's answer (or running min)
    unread,              \* consumer -> dependencies its barrier has yet to read
    dying,               \* consumer -> the phase of the failure it is reporting
    core,                \* the place of the thread that owns the handle
    drain_target,        \* the cursor that drain() snapshots
    drained              \* the result of drain()

flagVars     == <<poisoned, closed, first_failure>>
consumerVars == <<pc, consumer_sequence, next_sequence, available_sequence,
                  unread, dying>>
coreVars     == <<shutdown_flag, core, drain_target, drained, gating_sequences>>

INITIAL_CURSOR_VALUE == -1

slot_index(s) == s % Size

Min2(a, b) == IF a < b THEN a ELSE b

PipelineInit ==
    /\ cursor = INITIAL_CURSOR_VALUE
    /\ ring = [i \in 0 .. Size - 1 |-> INITIAL_CURSOR_VALUE]
    /\ gating_sequences = Terminal
    /\ poisoned = FALSE /\ closed = FALSE /\ first_failure = None
    /\ shutdown_flag = FALSE
    /\ pc = [c \in Consumers |-> "start"]
    /\ consumer_sequence = [c \in Consumers |-> INITIAL_CURSOR_VALUE]
    /\ next_sequence = [c \in Consumers |-> INITIAL_CURSOR_VALUE + 1]
    /\ available_sequence = [c \in Consumers |-> INITIAL_CURSOR_VALUE]
    /\ unread = [c \in Consumers |-> {}]
    /\ dying = [c \in Consumers |-> None]
    /\ core = "live" /\ drain_target = INITIAL_CURSOR_VALUE /\ drained = "none"

-----------------------------------------------------------------------------
(* The consumer thread.  Every action is one access to shared state, or one *)
(* call of the user's handler.                                              *)

GoTo(c, place) == pc' = [pc EXCEPT ![c] = place]

\* Mutant of Fail: poison without recording the failure first.
FailUnrecorded(c, phase) == GoTo(c, "poison") /\ dying' = [dying EXCEPT ![c] = phase]

Fail(c, phase) == GoTo(c, "record") /\ dying' = [dying EXCEPT ![c] = phase]

\* A panic of user code unwinds to the thread body's catch_unwind.
Panic(c) == Fail(c, "ConsumerPanic")

\* What follows the event loop: on_shutdown, which fan-out consumers lack.
AfterLoop(c) == IF c \in Readonly THEN "done" ELSE "stopping"

\* The thread pins itself and calls on_start; either may fail.
StartThread(c) ==
    /\ pc[c] = "start"
    /\ \/ GoTo(c, "loop") /\ UNCHANGED dying
       \/ Fail(c, "ThreadAffinity")
       \/ c \notin Readonly /\ (Fail(c, "HandlerStart") \/ Panic(c))
    /\ UNCHANGED <<consumer_sequence, next_sequence, available_sequence, unread>>
    /\ UNCHANGED <<cursor, ring, flagVars, coreVars>>

\* should_continue, and the same test at the head of every wait: a set flag
\* ends the loop, otherwise the barrier starts to read its dependencies.
PollShutdown(c) ==
    /\ pc[c] = "loop"
    /\ GoTo(c, IF shutdown_flag THEN AfterLoop(c) ELSE "await")
    /\ unread' = [unread EXCEPT ![c] = IF shutdown_flag THEN {} ELSE Dependents(c)]
    /\ UNCHANGED <<consumer_sequence, next_sequence, available_sequence, dying>>
    /\ UNCHANGED <<cursor, ring, flagVars, coreVars>>

\* Mutant of Awaited: the wait asks for one event more than it needs.
AwaitedOneMore(c, available, found) ==
    /\ available_sequence' = [available_sequence EXCEPT ![c] = available]
    /\ GoTo(c, IF available > next_sequence[c] THEN found ELSE "loop")

\* The wait ends once the available sequence reaches the awaited one.
Awaited(c, available, found) ==
    /\ available_sequence' = [available_sequence EXCEPT ![c] = available]
    /\ GoTo(c, IF available >= next_sequence[c] THEN found ELSE "loop")

ReadCursor(c, found) ==
    /\ pc[c] = "await" /\ Dependents(c) = {}
    /\ Awaited(c, cursor, found)
    /\ UNCHANGED <<consumer_sequence, next_sequence, unread, dying>>
    /\ UNCHANGED <<cursor, ring, flagVars, coreVars>>

\* get_minimum_sequence over the dependencies: one load per step.
ReadDependent(c, d, found) ==
    /\ pc[c] = "await" /\ d \in unread[c]
    /\ LET minimum == IF unread[c] = Dependents(c)
                      THEN consumer_sequence[d]
                      ELSE Min2(available_sequence[c], consumer_sequence[d])
       IN  IF unread[c] = {d}
           THEN Awaited(c, minimum, found)
           ELSE /\ available_sequence' = [available_sequence EXCEPT ![c] = minimum]
                /\ UNCHANGED pc
    /\ unread' = [unread EXCEPT ![c] = @ \ {d}]
    /\ UNCHANGED <<consumer_sequence, next_sequence, dying>>
    /\ UNCHANGED <<cursor, ring, flagVars, coreVars>>

\* Mutant of BatchStart: the sequence is committed before the events.
BatchStartCommits(c) ==
    /\ pc[c] = "batch"
    /\ consumer_sequence' = [consumer_sequence EXCEPT ![c] = available_sequence[c]]
    /\ GoTo(c, "event")
    /\ UNCHANGED <<next_sequence, available_sequence, unread, dying>>
    /\ UNCHANGED <<cursor, ring, flagVars, coreVars>>

\* on_batch_start; the fan-out loop has none and goes straight to its events.
BatchStart(c) ==
    /\ pc[c] = "batch"
    /\ \/ GoTo(c, "event") /\ UNCHANGED dying
       \/ c \notin Readonly /\ (Fail(c, "BatchStart") \/ Panic(c))
    /\ UNCHANGED <<consumer_sequence, next_sequence, available_sequence, unread>>
    /\ UNCHANGED <<cursor, ring, flagVars, coreVars>>

\* The handler holds the slot of next_sequence while pc = "event"; this step
\* ends a call that succeeded.
HandleEvent(c) ==
    /\ pc[c] = "event"
    /\ next_sequence' = [next_sequence EXCEPT ![c] = @ + 1]
    /\ GoTo(c, IF next_sequence[c] = available_sequence[c] THEN "commit" ELSE "event")
    /\ UNCHANGED <<consumer_sequence, available_sequence, unread, dying>>
    /\ UNCHANGED <<cursor, ring, flagVars, coreVars>>

\* The handler returns an error: the sequence freezes at the event before it.
HandlerFails(c) ==
    /\ pc[c] = "event"
    /\ consumer_sequence' = [consumer_sequence EXCEPT ![c] = next_sequence[c] - 1]
    /\ Fail(c, "EventProcessing")
    /\ UNCHANGED <<next_sequence, available_sequence, unread>>
    /\ UNCHANGED <<cursor, ring, flagVars, coreVars>>

\* The handler panics: the sequence stays at the end of the previous batch.
HandlerPanics(c) ==
    /\ pc[c] = "event"
    /\ Panic(c)
    /\ UNCHANGED <<consumer_sequence, next_sequence, available_sequence, unread>>
    /\ UNCHANGED <<cursor, ring, flagVars, coreVars>>

CommitBatch(c) ==
    /\ pc[c] = "commit"
    /\ consumer_sequence' = [consumer_sequence EXCEPT ![c] = available_sequence[c]]
    /\ GoTo(c, "loop")
    /\ UNCHANGED <<next_sequence, available_sequence, unread, dying>>
    /\ UNCHANGED <<cursor, ring, flagVars, coreVars>>

\* on_shutdown; its error is recorded, and poisons nothing.
OnShutdown(c) ==
    /\ pc[c] = "stopping"
    /\ \/ GoTo(c, "done") /\ UNCHANGED dying
       \/ Fail(c, "HandlerShutdown")
       \/ Panic(c)
    /\ UNCHANGED <<consumer_sequence, next_sequence, available_sequence, unread>>
    /\ UNCHANGED <<cursor, ring, flagVars, coreVars>>

\* A reported failure is gone with its thread, but a panic is resumed and
\* reaches whoever joins the thread.
Reported(c) == dying' = [dying EXCEPT ![c] = IF @ = "ConsumerPanic" THEN @ ELSE None]

\* record_failure: the first failure wins.
FirstFailure(phase) == IF first_failure = None THEN phase ELSE first_failure

RecordFailure(c) ==
    /\ pc[c] = "record"
    /\ first_failure' = FirstFailure(dying[c])
    /\ IF dying[c] = "HandlerShutdown"
       THEN GoTo(c, "done") /\ Reported(c)
       ELSE GoTo(c, "poison") /\ UNCHANGED dying
    /\ UNCHANGED <<poisoned, closed>>
    /\ UNCHANGED <<consumer_sequence, next_sequence, available_sequence, unread>>
    /\ UNCHANGED <<cursor, ring, coreVars>>

\* poison_producers; a loop that returned still runs on_shutdown.
PoisonProducers(c) ==
    /\ pc[c] = "poison"
    /\ poisoned' = TRUE
    /\ GoTo(c, IF dying[c] \in {"BatchStart", "EventProcessing"}
               THEN AfterLoop(c) ELSE "done")
    /\ Reported(c)
    /\ UNCHANGED <<closed, first_failure>>
    /\ UNCHANGED <<consumer_sequence, next_sequence, available_sequence, unread>>
    /\ UNCHANGED <<cursor, ring, coreVars>>

\* Every step but the read that ends a wait, whose continuation the producer
\* mode decides.
ConsumerStep(c) ==
    \/ StartThread(c) \/ PollShutdown(c) \/ BatchStart(c) \/ HandleEvent(c)
    \/ HandlerFails(c) \/ HandlerPanics(c) \/ CommitBatch(c) \/ OnShutdown(c)
    \/ RecordFailure(c) \/ PoisonProducers(c)

-----------------------------------------------------------------------------
(* DisruptorCore, driven by the thread that owns the DisruptorHandle.  The *)
(* handle's is_shutdown flag makes each of the three stops run once.       *)

\* shutdown and shutdown_timeout, also called by Drop: close, then drain.
BeginShutdown ==
    /\ core = "live"
    /\ closed' = TRUE
    /\ core' = "snapshot"
    /\ UNCHANGED <<poisoned, first_failure, shutdown_flag, drain_target, drained,
                   gating_sequences, cursor, ring, consumerVars>>

\* halt: close, and stop without draining.
BeginHalt ==
    /\ core = "live"
    /\ closed' = TRUE
    /\ core' = "stop"
    /\ UNCHANGED <<poisoned, first_failure, shutdown_flag, drain_target, drained,
                   gating_sequences, cursor, ring, consumerVars>>

\* into_producer: stop the consumers and leave the claim path open.
IntoProducer ==
    /\ core = "live"
    /\ core' = "stop"
    /\ UNCHANGED <<shutdown_flag, drain_target, drained, gating_sequences>>
    /\ UNCHANGED <<cursor, ring, flagVars, consumerVars>>

DrainSnapshot ==
    /\ core = "snapshot"
    /\ drain_target' = cursor
    /\ core' = "drain"
    /\ UNCHANGED <<shutdown_flag, drained, gating_sequences>>
    /\ UNCHANGED <<cursor, ring, flagVars, consumerVars>>

\* drain() returns, and shutdown_with_timeout goes on to halt().
DrainReturns(result) ==
    /\ drained' = result
    /\ core' = "stop"
    /\ UNCHANGED <<shutdown_flag, drain_target, gating_sequences>>
    /\ UNCHANGED <<cursor, ring, flagVars, consumerVars>>

DrainGoesOn(place) ==
    /\ core' = place
    /\ UNCHANGED <<shutdown_flag, drain_target, drained, gating_sequences>>
    /\ UNCHANGED <<cursor, ring, flagVars, consumerVars>>

DrainChecksPoison ==
    /\ core = "drain"
    /\ IF poisoned THEN DrainReturns("Poisoned") ELSE DrainGoesOn("finished")

DrainChecksThreads ==
    /\ core = "finished"
    /\ IF \E c \in Consumers : pc[c] = "done"
       THEN DrainReturns("ShutdownError") ELSE DrainGoesOn("backlog")

\* Mutant of Consumed: off by one.
ConsumedAlmost(target) == \A g \in gating_sequences : consumer_sequence[g] + 1 >= target

Consumed(target) == \A g \in gating_sequences : consumer_sequence[g] >= target

\* The gating sequences only grow, so testing them together decides as the
\* loads one by one do.  With a backlog left the deadline may have passed.
DrainChecksBacklog ==
    /\ core = "backlog"
    /\ IF Consumed(drain_target) THEN DrainReturns("Ok")
       ELSE DrainReturns("Timeout") \/ DrainGoesOn("drain")

\* Mutant of StopConsumers: joins without raising the flag.
StopConsumersUnflagged ==
    /\ core = "stop"
    /\ core' = "join"
    /\ UNCHANGED <<shutdown_flag, drain_target, drained, gating_sequences>>
    /\ UNCHANGED <<cursor, ring, flagVars, consumerVars>>

\* stop_consumers_keep_claims: raise the flag, ...
StopConsumers ==
    /\ core = "stop"
    /\ shutdown_flag' = TRUE
    /\ core' = "join"
    /\ UNCHANGED <<drain_target, drained, gating_sequences>>
    /\ UNCHANGED <<cursor, ring, flagVars, consumerVars>>

\* ... join every thread (a panicked one is recorded again), ...
JoinConsumers ==
    /\ core = "join" /\ \A c \in Consumers : pc[c] = "done"
    /\ first_failure' = IF \E c \in Consumers : dying[c] = "ConsumerPanic"
                        THEN FirstFailure("ConsumerPanic") ELSE first_failure
    /\ core' = "ungate"
    /\ UNCHANGED <<poisoned, closed, shutdown_flag, drain_target, drained,
                   gating_sequences, cursor, ring, consumerVars>>

\* ... and remove the gating sequences one at a time.
RemoveGatingSequence ==
    /\ core = "ungate"
    /\ \E g \in gating_sequences :
          /\ gating_sequences' = gating_sequences \ {g}
          /\ core' = IF gating_sequences = {g} THEN "stopped" ELSE "ungate"
    /\ UNCHANGED <<shutdown_flag, drain_target, drained>>
    /\ UNCHANGED <<cursor, ring, flagVars, consumerVars>>

\* The owner's decision to stop, and the steps that a stop consists of.
BeginStop == BeginShutdown \/ BeginHalt \/ IntoProducer

CoreStep ==
    \/ DrainSnapshot \/ DrainChecksPoison \/ DrainChecksThreads
    \/ DrainChecksBacklog \/ StopConsumers \/ JoinConsumers
    \/ RemoveGatingSequence

-----------------------------------------------------------------------------
Places == {"start", "loop", "await", "resolve", "batch", "event", "commit",
           "stopping", "record", "poison", "done"}

PipelineTypeOK ==
    /\ cursor \in Int
    /\ ring \in [0 .. Size - 1 -> Int]
    /\ gating_sequences \subseteq Consumers
    /\ poisoned \in BOOLEAN /\ closed \in BOOLEAN /\ shutdown_flag \in BOOLEAN
    /\ first_failure \in FailurePhase \cup {None}
    /\ pc \in [Consumers -> Places]
    /\ consumer_sequence \in [Consumers -> Int]
    /\ next_sequence \in [Consumers -> Int]
    /\ available_sequence \in [Consumers -> Int]
    /\ unread \in [Consumers -> SUBSET Consumers]
    /\ dying \in [Consumers -> FailurePhase \cup {None}]
    /\ core \in {"live", "snapshot", "drain", "finished", "backlog", "stop",
                 "join", "ungate", "stopped"}
    /\ drain_target \in Int
    /\ drained \in {"none", "Ok", "Poisoned", "ShutdownError", "Timeout"}

\* The event a handler holds is the one its sequence number names, for as
\* long as the handler runs: nothing stale, nothing half written, nothing of
\* the next lap (the SAFETY comments of the consumer loops).
HandlersSeeTheirEvent ==
    \A c \in Consumers :
        pc[c] = "event" => ring[slot_index(next_sequence[c])] = next_sequence[c]

\* Handlers of different stages never hold the same slot, although only the
\* last stage gates the producer ("exclusive ownership by topology").
StagesHoldDistinctSlots ==
    \A c, d \in Consumers :
        pc[c] = "event" /\ pc[d] = "event" /\ Stage[c] # Stage[d]
          => slot_index(next_sequence[c]) # slot_index(next_sequence[d])

\* A failure that poisons is on record before anyone can see the poison flag
\* (poison_with_failure records, then poisons).
PoisonHasACause == poisoned => first_failure # None

-----------------------------------------------------------------------------
(* The consumers' part of the inductive invariants: what c knows of its own *)
(* place and of the stages before it, whatever the producer mode.           *)

\* Every stage before c's has committed s.
Committed(c, s) == \A d \in Consumers : Stage[d] < Stage[c] => s <= consumer_sequence[d]

\* A consumer commits only what it handled, handles only what the earlier
\* stages have committed, and the barrier's running minimum bounds the
\* dependencies read so far.
Progress(c) ==
    /\ -1 <= consumer_sequence[c] /\ consumer_sequence[c] < next_sequence[c]
    /\ Committed(c, next_sequence[c] - 1)
    /\ pc[c] \in {"start", "loop", "await", "resolve", "batch"}
          => next_sequence[c] = consumer_sequence[c] + 1
    /\ pc[c] \in {"resolve", "batch", "event"} => next_sequence[c] <= available_sequence[c]
    /\ pc[c] \in {"resolve", "batch", "event", "commit"} => Committed(c, available_sequence[c])
    /\ pc[c] = "commit" => next_sequence[c] = available_sequence[c] + 1
    /\ pc[c] = "await" =>
          /\ unread[c] \subseteq Dependents(c)
          /\ unread[c] = {} => Dependents(c) = {}
          /\ \A d \in Dependents(c) \ unread[c] :
                available_sequence[c] <= consumer_sequence[d]
=============================================================================
