------------------------------ MODULE WorkPool ------------------------------
(***************************************************************************)
(* A parallel stage of mutable handlers (RunMode::WorkPool): the workers   *)
(* claim events one at a time with a CAS on a shared work cursor, before   *)
(* the event is published, and each advertises in its own sequence how far *)
(* it is no longer in the way.  The stage's progress, as the producer and  *)
(* a later stage see it, is the minimum of the workers' sequences.         *)
(*                                                                         *)
(* The producer's claim and the drain read that minimum in one step: the   *)
(* sequences only grow, so reading them one by one can only answer less.   *)
(* Failure records and into_producer are the subject of SinglePipeline.    *)
(***************************************************************************)
EXTENDS Integers

CONSTANTS
    Workers,     \* the consumer threads of the stage
    Size,        \* buffer_size
    MaxSequence  \* bound: the last sequence that is published

VARIABLES
    work_sequence,      \* the shared work cursor
    consumer_sequence,  \* worker -> the sequence it advertises
    pc,                 \* worker -> its place in the loop
    current,            \* worker -> the work cursor it loaded
    claimed,            \* worker -> the sequence it owns
    cached_available,   \* worker -> the barrier's last answer
    cursor, ring,       \* the sequencer's cursor; slot -> sequence written
    producer,           \* the place of the producer
    poisoned, closed, shutdown_flag,
    core,               \* the place of the owner
    drained,            \* TRUE once a drain has succeeded
    handled             \* history: sequence -> how often it was handled

workerVars   == <<consumer_sequence, pc, current, claimed, cached_available>>
producerVars == <<cursor, ring, producer>>
coreVars     == <<closed, shutdown_flag, core, drained>>
vars == <<work_sequence, workerVars, producerVars, poisoned, coreVars, handled>>

INITIAL_CURSOR_VALUE == -1

slot_index(s) == s % Size

Init ==
    /\ work_sequence = INITIAL_CURSOR_VALUE
    /\ consumer_sequence = [w \in Workers |-> INITIAL_CURSOR_VALUE]
    /\ pc = [w \in Workers |-> "start"]
    /\ current = [w \in Workers |-> INITIAL_CURSOR_VALUE]
    /\ claimed = [w \in Workers |-> INITIAL_CURSOR_VALUE]
    /\ cached_available = [w \in Workers |-> INITIAL_CURSOR_VALUE]
    /\ cursor = INITIAL_CURSOR_VALUE /\ producer = "idle"
    /\ ring = [i \in 0 .. Size - 1 |-> INITIAL_CURSOR_VALUE]
    /\ poisoned = FALSE /\ closed = FALSE /\ shutdown_flag = FALSE
    /\ core = "live" /\ drained = FALSE
    /\ handled = [s \in 0 .. MaxSequence |-> 0]

-----------------------------------------------------------------------------
(* run_work_processor_loop: one access to shared state per step.           *)

GoTo(w, place) == pc' = [pc EXCEPT ![w] = place]

\* The thread pins itself and calls on_start; if either fails it poisons the
\* producers and never enters the loop.
StartThread(w) ==
    /\ pc[w] = "start"
    /\ \/ GoTo(w, "loop") /\ UNCHANGED poisoned
       \/ GoTo(w, "done") /\ poisoned' = TRUE
    /\ UNCHANGED <<work_sequence, consumer_sequence, current, claimed, cached_available>>
    /\ UNCHANGED <<handled, producerVars, coreVars>>

\* should_continue, before a claim and before every wait for a claimed event;
\* a worker that stops here drops the claim it holds.
PollShutdown(w) ==
    /\ pc[w] \in {"loop", "await"}
    /\ GoTo(w, IF shutdown_flag THEN "stopping"
               ELSE IF pc[w] = "loop" THEN "load" ELSE "wait")
    /\ claimed' = [claimed EXCEPT ![w] = IF shutdown_flag THEN INITIAL_CURSOR_VALUE ELSE @]
    /\ UNCHANGED <<work_sequence, consumer_sequence, current, cached_available, handled>>
    /\ UNCHANGED <<producerVars, poisoned, coreVars>>

LoadWork(w) ==
    /\ pc[w] = "load"
    /\ current' = [current EXCEPT ![w] = work_sequence]
    /\ GoTo(w, "advertise")
    /\ UNCHANGED <<work_sequence, consumer_sequence, claimed, cached_available, handled>>
    /\ UNCHANGED <<producerVars, poisoned, coreVars>>

\* Mutant of Advertise: it advertises the sequence that it is about to claim.
AdvertiseClaim(w) ==
    /\ pc[w] = "advertise"
    /\ consumer_sequence' = [consumer_sequence EXCEPT ![w] = current[w] + 1]
    /\ GoTo(w, "cas")
    /\ UNCHANGED <<work_sequence, current, claimed, cached_available, handled>>
    /\ UNCHANGED <<producerVars, poisoned, coreVars>>

\* Mutant of Advertise: an idle worker advertises nothing.
AdvertiseNothing(w) ==
    /\ pc[w] = "advertise" /\ GoTo(w, "cas")
    /\ UNCHANGED <<work_sequence, consumer_sequence, current, claimed, cached_available>>
    /\ UNCHANGED <<handled, producerVars, poisoned, coreVars>>

\* advertise_work_sequence_if_changed: everything up to the loaded work cursor
\* is somebody else's.
Advertise(w) ==
    /\ pc[w] = "advertise"
    /\ consumer_sequence' = [consumer_sequence EXCEPT ![w] = current[w]]
    /\ GoTo(w, "cas")
    /\ UNCHANGED <<work_sequence, current, claimed, cached_available, handled>>
    /\ UNCHANGED <<producerVars, poisoned, coreVars>>

\* Mutant of ClaimWork: a store without the comparison.
ClaimBlindly(w) ==
    /\ pc[w] = "cas"
    /\ work_sequence' = current[w] + 1
    /\ claimed' = [claimed EXCEPT ![w] = current[w] + 1]
    /\ GoTo(w, IF current[w] + 1 <= cached_available[w] THEN "batch" ELSE "await")
    /\ current' = [current EXCEPT ![w] = INITIAL_CURSOR_VALUE]
    /\ UNCHANGED <<consumer_sequence, cached_available, handled>>
    /\ UNCHANGED <<producerVars, poisoned, coreVars>>

\* compare_exchange on the work cursor.  A claim below the cached answer of
\* the barrier needs no wait.
ClaimWork(w) ==
    /\ pc[w] = "cas"
    /\ IF work_sequence = current[w]
       THEN /\ work_sequence' = work_sequence + 1
            /\ claimed' = [claimed EXCEPT ![w] = current[w] + 1]
            /\ GoTo(w, IF current[w] + 1 <= cached_available[w] THEN "batch" ELSE "await")
       ELSE GoTo(w, "loop") /\ UNCHANGED <<work_sequence, claimed>>
    /\ current' = [current EXCEPT ![w] = INITIAL_CURSOR_VALUE]
    /\ UNCHANGED <<consumer_sequence, cached_available, handled>>
    /\ UNCHANGED <<producerVars, poisoned, coreVars>>

\* The barrier's wait strategy, which polls the flag between two looks.
WaitFor(w) ==
    /\ pc[w] = "wait"
    /\ IF cursor >= claimed[w]
       THEN /\ cached_available' = [cached_available EXCEPT ![w] = cursor]
            /\ GoTo(w, "batch")
       ELSE GoTo(w, "await") /\ UNCHANGED cached_available
    /\ UNCHANGED <<work_sequence, consumer_sequence, current, claimed, handled>>
    /\ UNCHANGED <<producerVars, poisoned, coreVars>>

\* on_batch_start or on_event fails: poison, keep the sequence before the
\* claim, and leave the loop.  A panic does the same and skips on_shutdown.
HandlerFails(w) ==
    /\ pc[w] \in {"batch", "event"}
    /\ poisoned' = TRUE
    /\ \/ GoTo(w, "stopping")
       \/ GoTo(w, "done")
    /\ claimed' = [claimed EXCEPT ![w] = INITIAL_CURSOR_VALUE]
    /\ UNCHANGED <<work_sequence, consumer_sequence, current, cached_available, handled>>
    /\ UNCHANGED <<producerVars, coreVars>>

BatchStart(w) ==
    /\ pc[w] = "batch" /\ GoTo(w, "event")
    /\ UNCHANGED <<work_sequence, consumer_sequence, current, claimed, cached_available>>
    /\ UNCHANGED <<handled, producerVars, poisoned, coreVars>>

HandleEvent(w) ==
    /\ pc[w] = "event" /\ GoTo(w, "commit")
    /\ handled' = [handled EXCEPT ![claimed[w]] = @ + 1]
    /\ UNCHANGED <<work_sequence, consumer_sequence, current, claimed, cached_available>>
    /\ UNCHANGED <<producerVars, poisoned, coreVars>>

Commit(w) ==
    /\ pc[w] = "commit" /\ GoTo(w, "loop")
    /\ consumer_sequence' = [consumer_sequence EXCEPT ![w] = claimed[w]]
    /\ claimed' = [claimed EXCEPT ![w] = INITIAL_CURSOR_VALUE]
    /\ UNCHANGED <<work_sequence, current, cached_available, handled>>
    /\ UNCHANGED <<producerVars, poisoned, coreVars>>

\* on_shutdown; an error is only recorded, a panic poisons.
OnShutdown(w) ==
    /\ pc[w] = "stopping" /\ GoTo(w, "done")
    /\ poisoned' \in {poisoned, TRUE}
    /\ UNCHANGED <<work_sequence, consumer_sequence, current, claimed, cached_available>>
    /\ UNCHANGED <<handled, producerVars, coreVars>>

WorkerStep(w) ==
    \/ StartThread(w) \/ PollShutdown(w) \/ LoadWork(w) \/ Advertise(w) \/ ClaimWork(w)
    \/ WaitFor(w) \/ HandlerFails(w) \/ BatchStart(w) \/ HandleEvent(w)
    \/ Commit(w) \/ OnShutdown(w)

-----------------------------------------------------------------------------
(* The single producer, gated on the workers.                              *)

\* Mutant of Completed: the fastest worker speaks for the stage.
CompletedBySome(s) == \E w \in Workers : s <= consumer_sequence[w]

\* What the stage has finished, as its workers' sequences say.
Completed(s) == \A w \in Workers : s <= consumer_sequence[w]

ClaimSlot ==
    /\ producer = "idle" /\ ~closed /\ ~poisoned
    /\ cursor < MaxSequence /\ Completed(cursor + 1 - Size)
    /\ producer' = "write"
    /\ UNCHANGED <<cursor, ring, work_sequence, workerVars, poisoned, coreVars, handled>>

WriteSlot ==
    /\ producer = "write"
    /\ ring' = [ring EXCEPT ![slot_index(cursor + 1)] = cursor + 1]
    /\ producer' = "publish"
    /\ UNCHANGED <<cursor, work_sequence, workerVars, poisoned, coreVars, handled>>

Publish ==
    /\ producer = "publish"
    /\ cursor' = cursor + 1 /\ producer' = "idle"
    /\ UNCHANGED <<ring, work_sequence, workerVars, poisoned, coreVars, handled>>

\* The update closure panics: the pipeline is poisoned, the claim is lost.
UpdatePanics ==
    /\ producer = "write"
    /\ poisoned' = TRUE /\ producer' = "idle"
    /\ UNCHANGED <<cursor, ring, work_sequence, workerVars, coreVars, handled>>

-----------------------------------------------------------------------------
(* The owner, between two calls of the producer.                           *)

\* shutdown closes and drains, halt closes and stops.
BeginStop ==
    /\ core = "live" /\ producer = "idle"
    /\ closed' = TRUE /\ core' \in {"drain", "stop"}
    /\ UNCHANGED <<shutdown_flag, drained, work_sequence, workerVars, producerVars>>
    /\ UNCHANGED <<poisoned, handled>>

\* drain ends when the backlog is consumed, or early on a poisoned pipeline, a
\* dead worker or the deadline.
Drain ==
    /\ core = "drain"
    /\ drained' \in {FALSE, ~poisoned /\ Completed(cursor)}
    /\ core' = "stop"
    /\ UNCHANGED <<closed, shutdown_flag, work_sequence, workerVars, producerVars>>
    /\ UNCHANGED <<poisoned, handled>>

StopWorkers ==
    /\ core = "stop"
    /\ shutdown_flag' = TRUE /\ core' = "join"
    /\ UNCHANGED <<closed, drained, work_sequence, workerVars, producerVars>>
    /\ UNCHANGED <<poisoned, handled>>

JoinWorkers ==
    /\ core = "join" /\ \A w \in Workers : pc[w] = "done"
    /\ core' = "stopped"
    /\ UNCHANGED <<closed, shutdown_flag, drained, work_sequence, workerVars>>
    /\ UNCHANGED <<producerVars, poisoned, handled>>

CoreStep == StopWorkers \/ JoinWorkers

Next ==
    \/ \E w \in Workers : WorkerStep(w)
    \/ ClaimSlot \/ WriteSlot \/ Publish \/ UpdatePanics
    \/ BeginStop \/ Drain \/ CoreStep

Spec == Init /\ [][Next]_vars

\* Threads that have started run on; nobody has to publish or to stop.  A
\* drain without a deadline may wait as long as it takes.
FairSpec ==
    /\ Spec
    /\ \A w \in Workers : WF_vars(WorkerStep(w))
    /\ WF_vars(WriteSlot \/ Publish \/ UpdatePanics) /\ WF_vars(CoreStep)

-----------------------------------------------------------------------------
\* "CAS claim grants exclusive ownership": no event is handled twice, no two
\* handlers hold one slot, and a handler holds the event it claimed.
ClaimsAreExclusive ==
    /\ \A s \in 0 .. MaxSequence : handled[s] <= 1
    /\ \A w \in Workers : pc[w] = "event" => ring[slot_index(claimed[w])] = claimed[w]
    /\ \A v, w \in Workers :
          v # w /\ pc[v] = "event" /\ pc[w] = "event"
            => slot_index(claimed[v]) # slot_index(claimed[w])

\* What the minimum of the workers' sequences covers has been handled, although
\* a worker advertises events that others hold: a later stage and the producer
\* may rely on it.
CompletedIsHandled ==
    \A s \in 0 .. cursor : Completed(s) => handled[s] = 1

\* A drain that succeeds leaves no published event unhandled, although idle
\* workers hold claims past the cursor.
DrainedIsHandled == drained => \A s \in 0 .. cursor : handled[s] = 1

\* The backlog drains: idle workers advertise what they did not handle, so the
\* minimum catches up with the cursor.
BacklogIsCompleted ==
    \A s \in 0 .. MaxSequence :
        cursor >= s ~> Completed(s) \/ poisoned \/ shutdown_flag

-----------------------------------------------------------------------------
(* The inductive invariant: why the properties above hold.                 *)

Places == {"start", "loop", "load", "advertise", "cas", "await", "wait", "batch",
           "event", "commit", "stopping", "done"}

TypeOK ==
    /\ work_sequence \in Int /\ cursor \in Int
    /\ consumer_sequence \in [Workers -> Int] /\ pc \in [Workers -> Places]
    /\ current \in [Workers -> Int] /\ claimed \in [Workers -> Int]
    /\ cached_available \in [Workers -> Int]
    /\ ring \in [0 .. Size - 1 -> Int] /\ producer \in {"idle", "write", "publish"}
    /\ poisoned \in BOOLEAN /\ closed \in BOOLEAN /\ shutdown_flag \in BOOLEAN
    /\ core \in {"live", "drain", "stop", "join", "stopped"} /\ drained \in BOOLEAN
    /\ handled \in [0 .. MaxSequence -> Nat]

\* w owns the event claimed[w], and has not committed it.
Holds(w) == pc[w] \in {"await", "wait", "batch", "event", "commit"}

\* A worker advertises less than what it holds and no more than the work
\* cursor; it starts on an event only once that is published.
WorkerInv(w) ==
    /\ -1 <= consumer_sequence[w] /\ consumer_sequence[w] <= work_sequence
    /\ cached_available[w] <= cursor
    /\ pc[w] \in {"advertise", "cas"} =>
          consumer_sequence[w] <= current[w] /\ current[w] <= work_sequence
    /\ pc[w] = "cas" => consumer_sequence[w] = current[w]
    /\ Holds(w) => consumer_sequence[w] < claimed[w] /\ claimed[w] <= work_sequence
    /\ pc[w] \in {"batch", "event", "commit"} => claimed[w] <= cursor

DistinctClaims == \A v, w \in Workers : v # w /\ Holds(v) /\ Holds(w) => claimed[v] # claimed[w]

\* Whoever still owes s: it holds s, or it has left the loop without it.
Owes(w, s) ==
    /\ consumer_sequence[w] < s
    /\ pc[w] \in {"stopping", "done"} \/ (Holds(w) /\ claimed[w] = s)

\* Every event below the work cursor is handled once or owed by a worker that
\* does not advertise it; the ones above are untouched.
HandledInv ==
    /\ \A s \in 0 .. MaxSequence :
          /\ handled[s] <= 1
          /\ s > work_sequence => handled[s] = 0
          /\ s <= work_sequence => handled[s] = 1 \/ \E w \in Workers : Owes(w, s)
    /\ \A w \in Workers : Holds(w) /\ claimed[w] <= MaxSequence =>
          handled[claimed[w]] = IF pc[w] = "commit" THEN 1 ELSE 0

\* The producer stays within one lap of every worker, and the last lap of the
\* ring holds what was published.
PoolRingInv ==
    /\ -1 <= work_sequence /\ -1 <= cursor /\ cursor <= MaxSequence
    /\ producer # "idle" => cursor < MaxSequence
    /\ \A w \in Workers : cursor - Size <= consumer_sequence[w]
    /\ producer # "idle" => \A w \in Workers : cursor + 1 - Size <= consumer_sequence[w]
    /\ \A s \in 0 .. cursor :
          s > (IF producer = "publish" THEN cursor + 1 ELSE cursor) - Size
            => ring[slot_index(s)] = s
    /\ producer = "publish" => ring[slot_index(cursor + 1)] = cursor + 1

\* A stop begins between two calls of the producer, and ends them.
StopInv ==
    /\ core # "live" => closed /\ producer = "idle"
    /\ drained => core # "live" /\ \A s \in 0 .. cursor : handled[s] = 1

PoolInv ==
    /\ TypeOK /\ \A w \in Workers : WorkerInv(w)
    /\ DistinctClaims /\ HandledInv /\ PoolRingInv /\ StopInv
=============================================================================
