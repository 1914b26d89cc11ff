--------------------------- MODULE SinglePipeline ---------------------------
(***************************************************************************)
(* A pipeline with one producer: SingleProducerSequencer claimed through   *)
(* its UniqueProducerCapability by the SimpleProducer that the handle      *)
(* owns, in front of the consumers of Pipeline.                            *)
(*                                                                         *)
(* The producer and the handle belong to one thread, so a stop begins only *)
(* between two calls of the producer and a call only between two stops.    *)
(***************************************************************************)
EXTENDS Pipeline

CONSTANTS
    MaxBatch,    \* bound: the largest batch the application asks for
    MaxSequence  \* bound: the application publishes no sequence above it

ASSUME BatchAssumption == MaxBatch \in 1 .. Size
ASSUME BoundAssumption == MaxSequence \in Nat

VARIABLES
    producer,      \* the place of the producer in its call
    call,          \* "publish" (blocking), "try_publish" or, between calls, "none"
    n,             \* how many sequences the call claims
    next_value,    \* the sequencer's highest claimed sequence
    cached_value,  \* its cached gating minimum
    min_sequence,  \* the running minimum of a scan of the gating sequences
    unscanned,     \* the gating sequences that scan has yet to read
    write_at,      \* the next slot the update closure writes
    outcome,       \* what the last call returned
    terminal_call  \* history: a terminal flag was set when the call began

claimVars    == <<next_value, cached_value>>
scanVars     == <<min_sequence, unscanned>>
callVars     == <<call, n, outcome, terminal_call>>
producerVars == <<producer, claimVars, scanVars, callVars, write_at>>
sharedVars   == <<flagVars, consumerVars, coreVars>>
vars         == <<cursor, ring, sharedVars, producerVars>>

Init ==
    /\ PipelineInit
    /\ producer = "idle" /\ call = "none" /\ n = 1
    /\ next_value = INITIAL_CURSOR_VALUE /\ cached_value = INITIAL_CURSOR_VALUE
    /\ min_sequence = INITIAL_CURSOR_VALUE /\ unscanned = {}
    /\ write_at = 0 /\ outcome = "none" /\ terminal_call = FALSE

-----------------------------------------------------------------------------
(* The claim.                                                              *)

\* The application calls one of the four publishing methods.  A size outside
\* 1 .. Size is rejected before it touches any state and is not a call here.
Call ==
    /\ producer = "idle" /\ core \in {"live", "stopped"}
    /\ \E kind \in {"publish", "try_publish"}, k \in 1 .. MaxBatch :
          /\ next_value + k <= MaxSequence
          /\ call' = kind /\ n' = k
    /\ producer' = "check"
    /\ outcome' = "none" /\ terminal_call' = (closed \/ poisoned)
    /\ UNCHANGED <<claimVars, scanVars, write_at, cursor, ring, sharedVars>>

Return(result) == producer' = "idle" /\ call' = "none" /\ outcome' = result

claim_state_error == IF closed THEN "Shutdown" ELSE "Poisoned"

\* Mutant of CheckState: the wait for capacity does not look at the flags.
CheckStateOnce ==
    /\ producer \in {"check", "wait"}
    /\ IF producer = "wait" \/ (~closed /\ ~poisoned)
       THEN /\ producer' = IF producer = "check" THEN "claim" ELSE "rescan"
            /\ UNCHANGED <<call, outcome>>
       ELSE IF call = "publish" THEN Return(claim_state_error)
       ELSE producer' = "refused" /\ UNCHANGED <<call, outcome>>
    /\ UNCHANGED <<claimVars, scanVars, n, terminal_call, write_at>>
    /\ UNCHANGED <<cursor, ring, sharedVars>>

\* claim_state_error at the head of a claim and in every round of the wait
\* for capacity.  A try claim that is refused goes on to name its error.
CheckState ==
    /\ producer \in {"check", "wait"}
    /\ IF ~closed /\ ~poisoned
       THEN /\ producer' = IF producer = "check" THEN "claim" ELSE "rescan"
            /\ UNCHANGED <<call, outcome>>
       ELSE IF call = "publish" THEN Return(claim_state_error)
       ELSE producer' = "refused" /\ UNCHANGED <<call, outcome>>
    /\ UNCHANGED <<claimVars, scanVars, n, terminal_call, write_at>>
    /\ UNCHANGED <<cursor, ring, sharedVars>>

wrap_point == next_value + n - Size

Claim == next_value' = next_value + n /\ producer' = "write" /\ write_at' = next_value + 1

\* next_n_inner and has_available_capacity_internal: the cached minimum
\* grants the claim, or the producer re-publishes its cursor and scans.
FastPath ==
    /\ producer = "claim"
    /\ wrap_point <= cached_value /\ cached_value <= next_value
    /\ Claim
    /\ UNCHANGED <<cached_value, scanVars, callVars, cursor, ring, sharedVars>>

SlowPath ==
    /\ producer = "claim"
    /\ wrap_point > cached_value \/ cached_value > next_value
    /\ cursor' = next_value
    /\ producer' = "rescan"
    /\ UNCHANGED <<claimVars, scanVars, callVars, write_at, ring, sharedVars>>

\* Mutant of BeginScan: the scan starts as if nobody gated the producer.
BeginScanUngated ==
    /\ producer \in {"rescan", "refused"}
    /\ producer' = IF producer = "rescan" THEN "scan" ELSE "tally"
    /\ min_sequence' = next_value /\ unscanned' = {}
    /\ UNCHANGED <<claimVars, callVars, write_at, cursor, ring, sharedVars>>

\* gating_minimum, clamped to next_value: load the gating set, then read its
\* sequences one at a time.  "tally" is remaining_capacity after a refusal.
BeginScan ==
    /\ producer \in {"rescan", "refused"}
    /\ producer' = IF producer = "rescan" THEN "scan" ELSE "tally"
    /\ min_sequence' = next_value /\ unscanned' = gating_sequences
    /\ UNCHANGED <<claimVars, callVars, write_at, cursor, ring, sharedVars>>

ScanGating ==
    /\ producer \in {"scan", "tally"}
    /\ \E g \in unscanned :
          /\ min_sequence' = Min2(min_sequence, consumer_sequence[g])
          /\ unscanned' = unscanned \ {g}
    /\ UNCHANGED <<producer, claimVars, callVars, write_at, cursor, ring, sharedVars>>

\* The scan found room: cache the minimum and claim.
ScanGrants ==
    /\ producer = "scan" /\ unscanned = {} /\ wrap_point <= min_sequence
    /\ cached_value' = min_sequence
    /\ Claim
    /\ UNCHANGED <<scanVars, callVars, cursor, ring, sharedVars>>

\* It found none: a blocking claim spins, a try claim caches what it read.
ScanRefuses ==
    /\ producer = "scan" /\ unscanned = {} /\ wrap_point > min_sequence
    /\ IF call = "publish"
       THEN producer' = "wait" /\ UNCHANGED cached_value
       ELSE producer' = "refused" /\ cached_value' = min_sequence
    /\ UNCHANGED <<next_value, scanVars, callVars, write_at, cursor, ring, sharedVars>>

remaining_capacity == Size - (next_value - min_sequence)

\* classify_try_rejection: a terminal flag wins over what the capacity says.
ClassifyRefusal ==
    /\ producer = "tally" /\ unscanned = {}
    /\ Return(IF poisoned THEN "Poisoned"
              ELSE IF closed THEN "Shutdown"
              ELSE IF remaining_capacity >= n THEN "Contended" ELSE "Full")
    /\ UNCHANGED <<claimVars, scanVars, n, terminal_call, write_at>>
    /\ UNCHANGED <<cursor, ring, sharedVars>>

-----------------------------------------------------------------------------
(* The update closure and the publication.                                 *)

WriteSlot ==
    /\ producer = "write" /\ write_at <= next_value
    /\ ring' = [ring EXCEPT ![slot_index(write_at)] = write_at]
    /\ write_at' = write_at + 1
    /\ UNCHANGED <<producer, claimVars, scanVars, callVars, cursor, sharedVars>>

\* publish and publish_range both set the cursor to the end of the claim.
Publish ==
    /\ producer = "write" /\ write_at > next_value
    /\ cursor' = next_value
    /\ Return("Ok")
    /\ UNCHANGED <<claimVars, scanVars, n, terminal_call, write_at, ring, sharedVars>>

\* The closure panics anywhere in the batch: PoisonOnPanic records, ...
UpdatePanics ==
    /\ producer = "write"
    /\ first_failure' = FirstFailure("ProducerPanic")
    /\ producer' = "poison"
    /\ UNCHANGED <<claimVars, scanVars, callVars, write_at, cursor, ring>>
    /\ UNCHANGED <<poisoned, closed, consumerVars, coreVars>>

\* Mutant of PoisonOnPanic: the guard records but does not poison.
PanicUnpoisoned ==
    /\ producer = "poison"
    /\ Return("panic")
    /\ UNCHANGED <<claimVars, scanVars, n, terminal_call, write_at, cursor, ring>>
    /\ UNCHANGED <<flagVars, consumerVars, coreVars>>

\* ... poisons, and the unwinding leaves the claim unpublished.
PoisonOnPanic ==
    /\ producer = "poison"
    /\ poisoned' = TRUE
    /\ Return("panic")
    /\ UNCHANGED <<claimVars, scanVars, n, terminal_call, write_at, cursor, ring>>
    /\ UNCHANGED <<first_failure, closed, consumerVars, coreVars>>

ProducerStep ==
    \/ CheckState \/ FastPath \/ SlowPath \/ BeginScan \/ ScanGating
    \/ ScanGrants \/ ScanRefuses \/ ClassifyRefusal
    \/ WriteSlot \/ Publish \/ UpdatePanics \/ PoisonOnPanic

-----------------------------------------------------------------------------
\* The single sequencer publishes in order: what the wait found is the batch.
AwaitStep(c) ==
    \/ ReadCursor(c, "batch")
    \/ \E d \in Consumers : ReadDependent(c, d, "batch")

ConsumerNext(c) == (ConsumerStep(c) \/ AwaitStep(c)) /\ UNCHANGED producerVars

\* The handle's thread: a stop step only while no producer call is running.
CoreNext == producer = "idle" /\ (BeginStop \/ CoreStep) /\ UNCHANGED producerVars

Next == Call \/ ProducerStep \/ CoreNext \/ \E c \in Consumers : ConsumerNext(c)

Spec == Init /\ [][Next]_vars

\* The threads are scheduled: a producer inside a call, the owner inside a
\* stop and every consumer thread keep running.  Nobody has to start a call.
Fairness ==
    /\ WF_vars(ProducerStep)
    /\ WF_vars(producer = "idle" /\ CoreStep /\ UNCHANGED producerVars)
    /\ \A c \in Consumers : WF_vars(ConsumerNext(c))

FairSpec == Spec /\ Fairness

-----------------------------------------------------------------------------
(* Properties.                                                             *)

\* The type of the sequencer's and the producer's state.
TypeOK ==
    /\ PipelineTypeOK
    /\ producer \in {"idle", "check", "wait", "claim", "rescan", "refused",
                     "scan", "tally", "write", "poison"}
    /\ call \in {"none", "publish", "try_publish"}
    /\ n \in 1 .. MaxBatch
    /\ next_value \in Int /\ cached_value \in Int /\ min_sequence \in Int
    /\ unscanned \subseteq Consumers
    /\ write_at \in Int
    /\ outcome \in {"none", "Ok", "Contended", "Full", "Poisoned", "Shutdown", "panic"}
    /\ terminal_call \in BOOLEAN

\* While the update closure owns its claim no handler holds one of those slots
\* ("exclusive access to this sequence from the sequencer").
ClaimedSlotsAreExclusive ==
    \A c \in Consumers : producer = "write" /\ pc[c] = "event" =>
        \A s \in next_value - n + 1 .. next_value :
            slot_index(s) # slot_index(next_sequence[c])

\* A call that began on a poisoned or closed pipeline reports the terminal
\* state, never success or transient backpressure (classify_try_rejection).
TerminalIsNotTransient ==
    terminal_call => outcome \notin {"Ok", "Contended", "Full"}

\* A drain that reports success left no published event unhandled at any
\* stage: the cursor cannot have moved past the snapshot.
DrainIsComplete ==
    drained = "Ok" => \A c \in Consumers : consumer_sequence[c] >= cursor

\* The slow path republishes next_value: it never exposes a claim that was
\* not published, and the cursor never moves back.
CursorExposesOnlyPublished ==
    [][cursor' # cursor => /\ cursor' > cursor
                           /\ \A s \in cursor + 1 .. cursor' :
                                 s > cursor' - Size => ring[slot_index(s)] = s]_vars

\* Every blocked claim is decided: consumers free a slot, or the failure that
\* stopped them makes the claim fail instead of spinning forever.
ClaimsAreDecided == producer = "check" ~> producer \in {"write", "idle"}

\* What is published is handled by every stage, unless the pipeline is
\* stopped or poisoned.
PublishedIsHandled ==
    \A s \in 0 .. MaxSequence :
        cursor >= s ~> \/ \A c \in Consumers : consumer_sequence[c] >= s
                       \/ poisoned \/ shutdown_flag

\* Every stop terminates, whatever failed before: the drain aborts and the
\* joined threads all exit.
StopsTerminate == core # "live" ~> core = "stopped"

\* The pipeline is a bounded log: the cursor is its end, an event counts as
\* handled when its handler returns, and an exited thread has retired.
Log == INSTANCE EventLog WITH
    published <- cursor,
    handled   <- [c \in Consumers |-> next_sequence[c] - 1],
    retired   <- {c \in Consumers : pc[c] = "done"}

\* Producer and consumers together implement the promise of EventLog.
ImplementsLog == Log!Spec

-----------------------------------------------------------------------------
(* The inductive invariant: why the properties above hold.                 *)

\* A consumer handles nothing, and is told of nothing, beyond the cursor.
ConsumerInv(c) ==
    /\ Progress(c)
    /\ next_sequence[c] - 1 <= cursor
    /\ pc[c] \in {"batch", "event", "commit"} => available_sequence[c] <= cursor

\* The gating set is the last stage until every thread has exited.
GatingInv ==
    \/ core \notin {"ungate", "stopped"} /\ gating_sequences = Terminal
    \/ core \in {"ungate", "stopped"} /\ \A c \in Consumers : pc[c] = "done"

\* The cached minimum, however stale, is a lower bound on every gating
\* sequence, and the claims stay within Size of it.
ClaimInv ==
    /\ cached_value <= next_value /\ next_value - Size <= cached_value
    /\ \A g \in gating_sequences : cached_value <= consumer_sequence[g]
    /\ producer \in {"scan", "tally"} =>
          /\ cached_value <= min_sequence /\ min_sequence <= next_value
          /\ unscanned \subseteq gating_sequences
          /\ \A g \in gating_sequences \ unscanned :
                min_sequence <= consumer_sequence[g]

\* A claim is unpublished only while it is written or after a panic, which
\* poisons the pipeline before the producer can claim again.
CursorInv ==
    /\ -1 <= cursor /\ cursor <= next_value
    /\ producer \in {"claim", "rescan", "scan", "wait"} => cursor = next_value
    /\ producer = "write" => /\ cursor = next_value - n
                            /\ cursor < write_at /\ write_at <= next_value + 1
    /\ cursor = next_value \/ poisoned \/ producer \in {"write", "poison"}

\* The last lap of the ring holds what was published, then what is written.
RingInv ==
    /\ \A s \in 0 .. cursor : s > next_value - Size => ring[slot_index(s)] = s
    /\ producer = "write" =>
          \A s \in cursor + 1 .. write_at - 1 : ring[slot_index(s)] = s

\* Together they are inductive, and carry the safety properties above.
IInv ==
    /\ TypeOK
    /\ \A c \in Consumers : ConsumerInv(c)
    /\ GatingInv /\ ClaimInv /\ CursorInv /\ RingInv

\* Where a producer is that has been, or will be, refused.
Refusing == {"idle", "check", "refused", "tally"}

\* Whoever is about to raise the poison flag has recorded why.
FailureInv ==
    /\ poisoned \/ producer = "poison" => first_failure # None
    /\ \A c \in Consumers : /\ pc[c] = "poison" => first_failure # None
                            /\ pc[c] = "record" => dying[c] # None

\* The terminal flags last: a call that began under one is refused.
CallInv ==
    terminal_call => /\ closed \/ poisoned
                     /\ producer \in Refusing
                     /\ outcome \notin {"Ok", "Contended", "Full"}

\* A closed pipeline grants no claim, so the drain's snapshot stays the cursor.
DrainInv ==
    /\ core \in {"snapshot", "drain", "finished", "backlog"} \/ drained # "none" => closed
    /\ closed => producer \in Refusing
    /\ core \in {"drain", "finished", "backlog"} => drain_target = cursor
    /\ drained = "Ok" => \A c \in Consumers : consumer_sequence[c] >= cursor
=============================================================================
