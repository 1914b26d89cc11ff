--------------------------- MODULE StandaloneRing ---------------------------
(***************************************************************************)
(* A ring with a single producer and no Builder or DSL around it: what the *)
(* event poller, the elegant consumer and a hand-driven processor are      *)
(* attached to.  How a claim is gated step by step is the subject of       *)
(* SinglePipeline; here the check of the gate and the write are one step.  *)
(***************************************************************************)
EXTENDS Integers

CONSTANTS
    Size,         \* buffer_size
    MaxSequence,  \* bound: the last sequence that is claimed, or handled
    None          \* no batch, no recorded failure

\* The phases that the parts around this ring record: they pin no thread, and
\* their producer's closure returns.
FailurePhase ==
    {"HandlerStart", "BatchStart", "EventProcessing", "HandlerShutdown", "ConsumerPanic"}

ASSUME StandaloneAssumption ==
    /\ Size \in Nat \ {0} /\ MaxSequence \in Nat
    /\ None \notin FailurePhase

VARIABLES
    cursor,                  \* the sequencer's cursor
    ring,                    \* slot -> the sequence whose event it holds
    producer,                \* the place of the producer
    poisoned, first_failure  \* the sequencer's failure state

ringVars    == <<cursor, ring, producer>>
failureVars == <<poisoned, first_failure>>

RingInit ==
    /\ cursor = -1 /\ producer = "idle"
    /\ ring = [i \in 0 .. Size - 1 |-> -1]
    /\ poisoned = FALSE /\ first_failure = None

\* Mutant of try_publish: a slot is claimed one commit too early.
try_publishEarly(gate) ==
    /\ producer = "idle" /\ ~poisoned /\ cursor < MaxSequence
    /\ cursor - Size <= gate
    /\ ring' = [ring EXCEPT ![(cursor + 1) % Size] = cursor + 1]
    /\ producer' = "publish"
    /\ UNCHANGED <<cursor, failureVars>>

\* Claim a slot that the gating sequence has passed, and write it.
try_publish(gate) ==
    /\ producer = "idle" /\ ~poisoned /\ cursor < MaxSequence
    /\ cursor + 1 - Size <= gate
    /\ ring' = [ring EXCEPT ![(cursor + 1) % Size] = cursor + 1]
    /\ producer' = "publish"
    /\ UNCHANGED <<cursor, failureVars>>

publish ==
    /\ producer = "publish"
    /\ cursor' = cursor + 1 /\ producer' = "idle"
    /\ UNCHANGED <<ring, failureVars>>

\* The first failure is kept.
record_failure(phase) ==
    first_failure' = IF first_failure = None THEN phase ELSE first_failure

poison_with_failure(phase) == record_failure(phase) /\ poisoned' = TRUE

-----------------------------------------------------------------------------
(* The invariant of the ring, for the gating sequence of whoever reads it. *)

RingTypeOK ==
    /\ cursor \in Int /\ producer \in {"idle", "publish"}
    /\ ring \in [0 .. Size - 1 -> Int]

\* The slots above the gate hold the events that were published into them.
GatedRingInv(gate) ==
    /\ -1 <= cursor /\ cursor <= MaxSequence /\ cursor - Size <= gate
    /\ producer = "publish" => /\ cursor < MaxSequence /\ cursor + 1 - Size <= gate
                               /\ ring[(cursor + 1) % Size] = cursor + 1
    /\ \A s \in 0 .. cursor : s > gate => ring[s % Size] = s
=============================================================================
