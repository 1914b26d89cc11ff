----------------------------- MODULE DslPublish -----------------------------
(***************************************************************************)
(* Threads that share Disruptors and call publish_event, and translators   *)
(* that publish again while they run: into the same Disruptor or into      *)
(* another.  In single-producer mode claim_guard serialises the claims     *)
(* with a lock per Disruptor, and refuses a nested call by one flag per    *)
(* thread, whatever Disruptor that thread holds.                           *)
(***************************************************************************)
EXTENDS Integers, Sequences

CONSTANTS
    Disruptors, Threads,
    Slots,       \* buffer_size
    LastClaim,   \* bound: the last sequence that is claimed of a Disruptor
    MaxDepth,    \* bound: nested publish calls of a thread
    Nobody       \* the holder of a free lock

ASSUME PublishAssumption ==
    /\ Slots \in Nat \ {0} /\ LastClaim \in Nat /\ MaxDepth \in Nat \ {0}
    /\ Nobody \notin Threads

VARIABLES
    mode,        \* Disruptor -> "Single" or "Multi"
    claim_lock,  \* Disruptor -> the holder of single_publish_lock
    claim_held,  \* thread -> DSL_SINGLE_CLAIM_HELD
    calls,       \* thread -> its stack of publish calls
    claimed,     \* Disruptor -> the last claimed sequence
    published,   \* Disruptor -> the published sequences
    consumed,    \* Disruptor -> the sequence its last processor has committed
    dead         \* Disruptor -> poisoned

publishVars == <<mode, claim_lock, claim_held, calls, claimed, published, consumed, dead>>

PublishInit ==
    /\ mode \in [Disruptors -> {"Single", "Multi"}]
    /\ claim_lock = [d \in Disruptors |-> Nobody]
    /\ claim_held = [t \in Threads |-> FALSE]
    /\ calls = [t \in Threads |-> <<>>]
    /\ claimed = [d \in Disruptors |-> -1] /\ published = [d \in Disruptors |-> {}]
    /\ consumed = [d \in Disruptors |-> -1] /\ dead = [d \in Disruptors |-> FALSE]

Depth(t) == Len(calls[t])

Top(t) == calls[t][Depth(t)]

In(t, place) == Depth(t) > 0 /\ Top(t).pc = place

To(t, place) == calls' = [calls EXCEPT ![t][Depth(t)].pc = place]

\* Return from the innermost call: its guard, if it has one, frees the lock
\* and clears the flag.
Return(t) ==
    /\ calls' = [calls EXCEPT ![t] = SubSeq(@, 1, Depth(t) - 1)]
    /\ claim_lock' = [claim_lock EXCEPT ![Top(t).d] = IF @ = t /\ Top(t).guard
                                                      THEN Nobody ELSE @]
    /\ claim_held' = [claim_held EXCEPT ![t] = @ /\ ~Top(t).guard]

publish_event(t, d) ==
    /\ Depth(t) = 0 \/ In(t, "translate")
    /\ Depth(t) < MaxDepth
    /\ \E blocking \in BOOLEAN :
          calls' = [calls EXCEPT ![t] =
              Append(@, [d |-> d, pc |-> "guard", blocking |-> blocking,
                         guard |-> FALSE, sequence |-> -1])]
    /\ UNCHANGED <<mode, claim_lock, claim_held, claimed, published, consumed, dead>>

\* Mutant of claim_guard: a nested call goes on to the lock.
claim_guardNested(t) ==
    /\ In(t, "guard")
    /\ IF mode[Top(t).d] = "Single"
       THEN To(t, "lock") /\ UNCHANGED <<claim_lock, claim_held>>
       ELSE To(t, "claim") /\ UNCHANGED <<claim_lock, claim_held>>
    /\ UNCHANGED <<mode, claimed, published, consumed, dead>>

\* ReentrantPublish for a thread that holds any claim lock; no guard for Multi.
claim_guard(t) ==
    /\ In(t, "guard")
    /\ IF mode[Top(t).d] = "Single"
       THEN IF claim_held[t] THEN Return(t)
            ELSE To(t, "lock") /\ UNCHANGED <<claim_lock, claim_held>>
       ELSE To(t, "claim") /\ UNCHANGED <<claim_lock, claim_held>>
    /\ UNCHANGED <<mode, claimed, published, consumed, dead>>

Lock(t) ==
    /\ In(t, "lock") /\ claim_lock[Top(t).d] = Nobody
    /\ claim_lock' = [claim_lock EXCEPT ![Top(t).d] = t]
    /\ claim_held' = [claim_held EXCEPT ![t] = TRUE]
    /\ calls' = [calls EXCEPT ![t][Depth(t)].pc = "claim", ![t][Depth(t)].guard = TRUE]
    /\ UNCHANGED <<mode, claimed, published, consumed, dead>>

Free(d) == claimed[d] + 1 - Slots <= consumed[d]

\* next() waits for a slot, try_next() gives up; both fail when poisoned.  A
\* single-producer claim reads next_value and stores it later, so it is two
\* steps; a multi-producer claim is a compare-and-set.
ClaimSequence(t) ==
    LET d == Top(t).d IN
    /\ In(t, "claim") /\ claimed[d] < LastClaim
    /\ \/ /\ dead[d] \/ (~Free(d) /\ ~Top(t).blocking)
          /\ Return(t) /\ UNCHANGED claimed
       \/ /\ ~dead[d] /\ Free(d)
          /\ calls' = [calls EXCEPT
                 ![t][Depth(t)].sequence = claimed[d] + 1,
                 ![t][Depth(t)].pc = IF mode[d] = "Single" THEN "store" ELSE "translate"]
          /\ claimed' = IF mode[d] = "Single" THEN claimed
                        ELSE [claimed EXCEPT ![d] = @ + 1]
          /\ UNCHANGED <<claim_lock, claim_held>>
    /\ UNCHANGED <<mode, published, consumed, dead>>

StoreNextValue(t) ==
    /\ In(t, "store")
    /\ claimed' = [claimed EXCEPT ![Top(t).d] = Top(t).sequence]
    /\ To(t, "translate")
    /\ UNCHANGED <<mode, claim_lock, claim_held, published, consumed, dead>>

\* The translator returns and the sequence is published; or it panics, and
\* the panic poisons every call it unwinds through.
Translated(t) ==
    LET d == Top(t).d IN
    /\ In(t, "translate")
    /\ \/ /\ published' = [published EXCEPT ![d] = @ \cup {Top(t).sequence}]
          /\ Return(t) /\ UNCHANGED dead
       \/ To(t, "unwind") /\ UNCHANGED <<claim_lock, claim_held, published, dead>>
    /\ UNCHANGED <<mode, claimed, consumed>>

UnwindCall(t) ==
    /\ In(t, "unwind")
    /\ dead' = [dead EXCEPT ![Top(t).d] = TRUE]
    /\ calls' = [calls EXCEPT ![t] =
           LET rest == SubSeq(@, 1, Depth(t) - 1) IN
           IF rest = <<>> THEN rest
           ELSE [rest EXCEPT ![Len(rest)].pc = "unwind"]]
    /\ claim_lock' = [claim_lock EXCEPT ![Top(t).d] = IF @ = t /\ Top(t).guard
                                                      THEN Nobody ELSE @]
    /\ claim_held' = [claim_held EXCEPT ![t] = @ /\ ~Top(t).guard]
    /\ UNCHANGED <<mode, claimed, published, consumed>>

\* A processor's handler fails, which poisons the Disruptor; the processors
\* behind it still finish what it has committed.
ProcessorFails(d) ==
    /\ consumed[d] + 1 \in published[d] /\ ~dead[d]
    /\ dead' = [dead EXCEPT ![d] = TRUE]
    /\ UNCHANGED <<mode, claim_lock, claim_held, calls, claimed, published, consumed>>

\* The last processor's commit over the contiguous prefix, an event at a time.
Consume(d) ==
    /\ consumed[d] + 1 \in published[d]
    /\ consumed' = [consumed EXCEPT ![d] = @ + 1]
    /\ UNCHANGED <<mode, claim_lock, claim_held, calls, claimed, published, dead>>

CarryOn(t) ==
    \/ claim_guard(t) \/ Lock(t) \/ ClaimSequence(t) \/ StoreNextValue(t)
    \/ Translated(t) \/ UnwindCall(t)

PublishNext ==
    \/ \E t \in Threads, d \in Disruptors : publish_event(t, d)
    \/ \E t \in Threads : CarryOn(t)
    \/ \E d \in Disruptors : Consume(d) \/ ProcessorFails(d)

PublishSpec == PublishInit /\ [][PublishNext]_publishVars

-----------------------------------------------------------------------------
\* Whoever waits for a claim lock waits for a thread that waits for none, so
\* translators that publish into each other's Disruptors cannot deadlock:
\* "re-entrant publish from a translator fails closed (no deadlock)".
LockHoldersDoNotWait ==
    \A t \in Threads :
        In(t, "lock") /\ claim_lock[Top(t).d] # Nobody
            => ~In(claim_lock[Top(t).d], "lock")

-----------------------------------------------------------------------------
(* The inductive invariant: why LockHoldersDoNotWait holds.                *)

PublishCall ==
    [d : Disruptors, pc : {"guard", "lock", "claim", "store", "translate", "unwind"},
     blocking : BOOLEAN, guard : BOOLEAN, sequence : Int]

PublishTypeOK ==
    /\ claim_lock \in [Disruptors -> Threads \cup {Nobody}]
    /\ claim_held \in [Threads -> BOOLEAN]
    /\ calls \in [Threads -> Seq(PublishCall)]
    /\ claimed \in [Disruptors -> Int]

\* A thread holds at most one lock, for one call of its stack, with its flag
\* up; every other call of the stack is inside its translator.
GuardInv(t) ==
    /\ \A i \in 1 .. Depth(t) - 1 : calls[t][i].pc = "translate"
    /\ \A i \in 1 .. Depth(t) : calls[t][i].guard = TRUE =>
          claim_held[t] = TRUE /\ claim_lock[calls[t][i].d] = t
    /\ \A i, j \in 1 .. Depth(t) :
          calls[t][i].guard = TRUE /\ calls[t][j].guard = TRUE => i = j
    /\ \A d \in Disruptors : claim_lock[d] = t =>
          \E i \in 1 .. Depth(t) : calls[t][i].guard = TRUE /\ calls[t][i].d = d
    /\ In(t, "lock") => claim_held[t] = FALSE

PublishInv == PublishTypeOK /\ \A t \in Threads : GuardInv(t)
=============================================================================
