--------------------------- MODULE MultiPipeline ---------------------------
(***************************************************************************)
(* A pipeline with several producers: MultiProducerSequencer, claimed by a *)
(* CAS on the cursor, in front of the consumers of Pipeline.  The cursor   *)
(* is the highest CLAIMED sequence; what is published is marked slot by    *)
(* slot in the availability flags, and a barrier that has waited scans     *)
(* them for the contiguous prefix.                                         *)
(*                                                                         *)
(* Producers run concurrently with the handle's thread.                    *)
(***************************************************************************)
EXTENDS Pipeline, FiniteSetsExt

CONSTANTS
    Producers,   \* the SimpleProducer handles, one per thread
    Bitmap,      \* TRUE: XOR bitmap (buffers of 64 slots and more); FALSE: one flag per slot
    Word,        \* the slots one bitmap word covers (64 in the code)
    Methods,     \* producer -> the publishing methods its thread calls
    MaxBatch,    \* bound: the largest batch the application asks for
    MaxSequence  \* bound: no call starts that would go past it at once

ASSUME MultiAssumption ==
    /\ MaxBatch \in 1 .. Size /\ MaxSequence \in Nat
    /\ Bitmap \in BOOLEAN /\ Word \in Nat \ {0}
    /\ Bitmap => Size % Word = 0
    /\ Methods \in [Producers -> SUBSET {"publish", "try_publish"}]

VARIABLES
    producer,       \* producer -> its place in its call
    call,           \* producer -> "publish", "try_publish" or "none"
    n,              \* producer -> how many sequences the call claims
    current,        \* producer -> the cursor value its attempt started from
    min_sequence,   \* producer -> running minimum of a scan of the gating set
    unscanned,      \* producer -> gating sequences that scan has yet to read
    at,             \* producer -> next sequence it writes, then publishes
    terminal_call,  \* history: producer -> a terminal flag was set when its call began
    misreported,    \* history: such a call returned as if the pipeline were healthy
    cached_gating_sequence,
    available,      \* slot index -> availability flag (available_buffer or bitmap bit)
    scan_at,        \* consumer -> the next sequence its contiguity scan tests
    published       \* history: the sequences whose producer has published them

callVars     == <<call, n, terminal_call, misreported>>
scanVars     == <<current, min_sequence, unscanned>>
producerVars == <<producer, callVars, scanVars, at, cached_gating_sequence,
                  available, published>>
sharedVars   == <<flagVars, consumerVars, coreVars, scan_at>>
vars         == <<cursor, ring, sharedVars, producerVars>>

Init ==
    /\ PipelineInit
    /\ producer = [p \in Producers |-> "idle"]
    /\ call = [p \in Producers |-> "none"]
    /\ n = [p \in Producers |-> 1]
    /\ current = [p \in Producers |-> INITIAL_CURSOR_VALUE]
    /\ min_sequence = [p \in Producers |-> INITIAL_CURSOR_VALUE]
    /\ unscanned = [p \in Producers |-> {}]
    /\ at = [p \in Producers |-> 0]
    /\ terminal_call = [p \in Producers |-> FALSE] /\ misreported = FALSE
    /\ cached_gating_sequence = INITIAL_CURSOR_VALUE
    /\ available = [i \in 0 .. Size - 1 |-> IF Bitmap THEN 1 ELSE -1]
    /\ scan_at = [c \in Consumers |-> 0]
    /\ published = {}

-----------------------------------------------------------------------------
(* Availability.                                                           *)

\* Mutant of round_flag: the same flag in every lap.
round_flagConstant(s) == 0

\* The parity of the lap: calculate_availability_flag, calculate_round_flag.
round_flag(s) == (s \div Size) % 2

\* Mutant of is_available: what is claimed counts as published.
is_availableClaimed(s) == TRUE

is_available(s) == available[slot_index(s)] = round_flag(s)

\* The sequences of lo .. hi, lo first, that one atomic access covers: the
\* rest of a bitmap word, or a single flag.
Chunk(lo, hi) ==
    IF Bitmap THEN lo .. Min2(hi, lo + Word - 1 - (slot_index(lo) % Word)) ELSE {lo}

\* fetch_xor flips the bits, the legacy buffer stores the flag.
set_available(S) ==
    [i \in 0 .. Size - 1 |->
        IF \E s \in S : slot_index(s) = i
        THEN IF Bitmap THEN 1 - available[i]
             ELSE round_flag(CHOOSE s \in S : slot_index(s) = i)
        ELSE available[i]]

\* get_highest_published_sequence: one load of the scan.  The first gap ends
\* it below the gap, otherwise it ends with the last chunk.
ResolvePublished(c) ==
    /\ pc[c] = "resolve"
    /\ LET chunk == Chunk(scan_at[c], available_sequence[c])
           gaps  == {s \in chunk : ~is_available(s)}
       IN  IF gaps # {}
           THEN /\ available_sequence' = [available_sequence EXCEPT ![c] = Min(gaps) - 1]
                /\ GoTo(c, IF Min(gaps) > next_sequence[c] THEN "batch" ELSE "loop")
                /\ scan_at' = [scan_at EXCEPT ![c] = 0]
           ELSE IF Max(chunk) = available_sequence[c]
           THEN /\ GoTo(c, "batch")
                /\ scan_at' = [scan_at EXCEPT ![c] = 0]
                /\ UNCHANGED available_sequence
           ELSE /\ scan_at' = [scan_at EXCEPT ![c] = Max(chunk) + 1]
                /\ UNCHANGED <<available_sequence, pc>>
    /\ UNCHANGED <<consumer_sequence, next_sequence, unread, dying>>
    /\ UNCHANGED <<cursor, ring, flagVars, coreVars>>

\* The wait found something claimed; the scan starts at the awaited sequence.
AwaitStep(c) ==
    /\ \/ ReadCursor(c, "resolve")
       \/ \E d \in Consumers : ReadDependent(c, d, "resolve")
    /\ scan_at' = [scan_at EXCEPT ![c] = IF pc'[c] = "resolve" THEN next_sequence[c] ELSE 0]

ConsumerNext(c) ==
    /\ \/ ConsumerStep(c) /\ UNCHANGED scan_at
       \/ AwaitStep(c)
       \/ ResolvePublished(c)
    /\ UNCHANGED producerVars

-----------------------------------------------------------------------------
(* The claim.  Every action is one access to shared state.                 *)

PGoTo(p, place) == producer' = [producer EXCEPT ![p] = place]

Call(p) ==
    /\ producer[p] = "idle"
    /\ \E kind \in Methods[p], k \in 1 .. MaxBatch :
          /\ cursor + k <= MaxSequence
          /\ call' = [call EXCEPT ![p] = kind] /\ n' = [n EXCEPT ![p] = k]
    /\ PGoTo(p, "closed")
    /\ terminal_call' = [terminal_call EXCEPT ![p] = closed \/ poisoned]
    /\ UNCHANGED <<misreported, scanVars, at, cached_gating_sequence, available, published>>
    /\ UNCHANGED <<cursor, ring, sharedVars>>

\* The call ends, and its locals with it.
Return(p, result) ==
    /\ PGoTo(p, "idle")
    /\ call' = [call EXCEPT ![p] = "none"] /\ n' = [n EXCEPT ![p] = 1]
    /\ current' = [current EXCEPT ![p] = INITIAL_CURSOR_VALUE]
    /\ min_sequence' = [min_sequence EXCEPT ![p] = INITIAL_CURSOR_VALUE]
    /\ unscanned' = [unscanned EXCEPT ![p] = {}]
    /\ at' = [at EXCEPT ![p] = 0]
    /\ terminal_call' = [terminal_call EXCEPT ![p] = FALSE]
    /\ misreported' = (misreported \/ (terminal_call[p] /\ result \in {"Ok", "Contended", "Full"}))

Stay(p, place) == PGoTo(p, place) /\ UNCHANGED <<callVars, scanVars, at>>

\* A blocking claim returns its error; a refused try claim goes on to name it.
Refuse(p, error) ==
    IF call[p] = "publish" THEN Return(p, error) ELSE Stay(p, "refused")

\* A blocking attempt that fails starts over, a try claim is refused.
Retry(p) == PGoTo(p, IF call[p] = "publish" THEN "closed" ELSE "refused") /\ UNCHANGED callVars

CheckClosed(p) ==
    /\ producer[p] = "closed"
    /\ IF closed THEN Refuse(p, "Shutdown") ELSE Stay(p, "poisoned")
    /\ UNCHANGED <<cached_gating_sequence, available, published>>
    /\ UNCHANGED <<cursor, ring, sharedVars>>

CheckPoisoned(p) ==
    /\ producer[p] = "poisoned"
    /\ IF poisoned THEN Refuse(p, "Poisoned") ELSE Stay(p, "current")
    /\ UNCHANGED <<cached_gating_sequence, available, published>>
    /\ UNCHANGED <<cursor, ring, sharedVars>>

\* The cursor an attempt starts from; "refused" reads it for remaining_capacity.
\* A try claim loads the gating set before it looks at the cached minimum.
ReadClaimed(p) ==
    /\ producer[p] \in {"current", "refused"}
    /\ current' = [current EXCEPT ![p] = cursor]
    /\ PGoTo(p, IF producer[p] = "refused" THEN "recount"
                ELSE IF call[p] = "publish" THEN "cached" ELSE "gating")
    /\ UNCHANGED <<callVars, min_sequence, unscanned, at, cached_gating_sequence>>
    /\ UNCHANGED <<available, published, cursor, ring, sharedVars>>

\* Mutant of wrap_point: off by one.
wrap_pointOffByOne(p) == current[p] + n[p] - Size - 1

wrap_point(p) == current[p] + n[p] - Size

NeedsScan(p) == wrap_point(p) > cached_gating_sequence \/ cached_gating_sequence > current[p]

\* The cached minimum grants the attempt, or the gating sequences are read.
CheckCached(p) ==
    /\ producer[p] = "cached"
    /\ IF NeedsScan(p)
       THEN /\ PGoTo(p, IF call[p] = "publish" THEN "gating" ELSE "scan")
            /\ UNCHANGED <<min_sequence, unscanned>>
       ELSE /\ PGoTo(p, "cas")
            /\ min_sequence' = [min_sequence EXCEPT ![p] = INITIAL_CURSOR_VALUE]
            /\ unscanned' = [unscanned EXCEPT ![p] = {}]
    /\ UNCHANGED <<callVars, current, at, cached_gating_sequence, available, published>>
    /\ UNCHANGED <<cursor, ring, sharedVars>>

\* get_minimum_sequence_with_default: load the gating set; the minimum is
\* clamped to current.  "tally" is remaining_capacity after a refusal.
LoadGating(p) ==
    /\ producer[p] \in {"gating", "recount"}
    /\ PGoTo(p, IF producer[p] = "recount" THEN "tally"
                ELSE IF call[p] = "publish" THEN "scan" ELSE "cached")
    /\ min_sequence' = [min_sequence EXCEPT ![p] = current[p]]
    /\ unscanned' = [unscanned EXCEPT ![p] = gating_sequences]
    /\ UNCHANGED <<callVars, current, at, cached_gating_sequence, available, published>>
    /\ UNCHANGED <<cursor, ring, sharedVars>>

ScanGating(p) ==
    /\ producer[p] \in {"scan", "tally"}
    /\ \E g \in unscanned[p] :
          /\ min_sequence' = [min_sequence EXCEPT ![p] = Min2(@, consumer_sequence[g])]
          /\ unscanned' = [unscanned EXCEPT ![p] = @ \ {g}]
    /\ UNCHANGED <<producer, callVars, current, at, cached_gating_sequence>>
    /\ UNCHANGED <<available, published, cursor, ring, sharedVars>>

\* The scan found room: store the minimum in the shared cache and go on.
\* It found none: only a try claim stores what it read.
EndScan(p) ==
    /\ producer[p] = "scan" /\ unscanned[p] = {}
    /\ LET room == wrap_point(p) <= min_sequence[p]
       IN  /\ IF room THEN PGoTo(p, "cas") /\ UNCHANGED callVars ELSE Retry(p)
           /\ cached_gating_sequence' = IF room \/ call[p] = "try_publish"
                                        THEN min_sequence[p] ELSE cached_gating_sequence
    /\ min_sequence' = [min_sequence EXCEPT ![p] = INITIAL_CURSOR_VALUE]
    /\ UNCHANGED <<current, unscanned, at, available, published, cursor, ring, sharedVars>>

\* Mutant of CompareAndSet: a store without the comparison.
ClaimBlindly(p) ==
    /\ producer[p] = "cas"
    /\ cursor' = current[p] + n[p]
    /\ at' = [at EXCEPT ![p] = current[p] + 1]
    /\ PGoTo(p, "write")
    /\ UNCHANGED <<callVars, scanVars, cached_gating_sequence, available, published, ring, sharedVars>>

\* compare_and_set: claims current + 1 .. current + n, or another producer
\* was faster.
CompareAndSet(p) ==
    /\ producer[p] = "cas"
    /\ IF cursor = current[p]
       THEN /\ cursor' = current[p] + n[p]
            /\ at' = [at EXCEPT ![p] = current[p] + 1]
            /\ PGoTo(p, "write") /\ UNCHANGED callVars
       ELSE Retry(p) /\ UNCHANGED <<cursor, at>>
    /\ UNCHANGED <<scanVars, cached_gating_sequence, available, published, ring, sharedVars>>

remaining_capacity(p) == Size - (current[p] - min_sequence[p])

\* Mutant of ClassifyRefusal: the capacity is looked at first.
ClassifyRefusalTransient(p) ==
    /\ producer[p] = "tally" /\ unscanned[p] = {}
    /\ Return(p, IF remaining_capacity(p) >= n[p] THEN "Contended"
                 ELSE IF poisoned THEN "Poisoned"
                 ELSE IF closed THEN "Shutdown" ELSE "Full")
    /\ UNCHANGED <<cached_gating_sequence, available, published>>
    /\ UNCHANGED <<cursor, ring, sharedVars>>

\* classify_try_rejection: a terminal flag wins over what the capacity says.
ClassifyRefusal(p) ==
    /\ producer[p] = "tally" /\ unscanned[p] = {}
    /\ Return(p, IF poisoned THEN "Poisoned"
                 ELSE IF closed THEN "Shutdown"
                 ELSE IF remaining_capacity(p) >= n[p] THEN "Contended" ELSE "Full")
    /\ UNCHANGED <<cached_gating_sequence, available, published>>
    /\ UNCHANGED <<cursor, ring, sharedVars>>

-----------------------------------------------------------------------------
(* The update closure and the publication.                                 *)

end_sequence(p) == current[p] + n[p]

\* The closure writes its slots in order, then publication starts over them.
WriteSlot(p) ==
    /\ producer[p] = "write"
    /\ ring' = [ring EXCEPT ![slot_index(at[p])] = at[p]]
    /\ IF at[p] = end_sequence(p)
       THEN PGoTo(p, "publish") /\ at' = [at EXCEPT ![p] = current[p] + 1]
       ELSE UNCHANGED producer /\ at' = [at EXCEPT ![p] = @ + 1]
    /\ UNCHANGED <<callVars, scanVars, cached_gating_sequence, available, published>>
    /\ UNCHANGED <<cursor, sharedVars>>

\* publish and publish_range: one atomic access per chunk, so a batch may be
\* partly visible.
Publish(p) ==
    /\ producer[p] = "publish"
    /\ LET chunk == Chunk(at[p], end_sequence(p))
       IN  /\ available' = set_available(chunk)
           /\ published' = published \cup chunk
           /\ IF Max(chunk) = end_sequence(p) THEN Return(p, "Ok")
              ELSE /\ at' = [at EXCEPT ![p] = Max(chunk) + 1]
                   /\ UNCHANGED <<producer, callVars, scanVars>>
    /\ UNCHANGED <<cached_gating_sequence, cursor, ring, sharedVars>>

\* The closure panics anywhere in the batch: PoisonOnPanic records, ...
UpdatePanics(p) ==
    /\ producer[p] = "write"
    /\ first_failure' = FirstFailure("ProducerPanic")
    /\ PGoTo(p, "poison")
    /\ UNCHANGED <<callVars, scanVars, at, cached_gating_sequence, available, published>>
    /\ UNCHANGED <<cursor, ring, poisoned, closed, consumerVars, coreVars, scan_at>>

\* ... poisons, and the claim stays a hole in the published prefix.
PoisonOnPanic(p) ==
    /\ producer[p] = "poison"
    /\ poisoned' = TRUE
    /\ Return(p, "panic")
    /\ UNCHANGED <<cached_gating_sequence, available, published>>
    /\ UNCHANGED <<cursor, ring, first_failure, closed, consumerVars, coreVars, scan_at>>

ProducerStep(p) ==
    \/ CheckClosed(p) \/ CheckPoisoned(p) \/ ReadClaimed(p) \/ CheckCached(p)
    \/ LoadGating(p) \/ ScanGating(p) \/ EndScan(p) \/ CompareAndSet(p)
    \/ ClassifyRefusal(p) \/ WriteSlot(p) \/ Publish(p) \/ UpdatePanics(p)
    \/ PoisonOnPanic(p)

-----------------------------------------------------------------------------
\* The handle's thread stops the pipeline while the producers run.
CoreNext == (BeginStop \/ CoreStep) /\ UNCHANGED <<producerVars, scan_at>>

Next ==
    \/ CoreNext
    \/ \E p \in Producers : Call(p) \/ ProducerStep(p)
    \/ \E c \in Consumers : ConsumerNext(c)

Spec == Init /\ [][Next]_vars

\* Every thread keeps running once it is inside a call, a stop or its loop.
Fairness ==
    /\ \A p \in Producers : WF_vars(ProducerStep(p))
    /\ WF_vars(CoreStep /\ UNCHANGED <<producerVars, scan_at>>)
    /\ \A c \in Consumers : WF_vars(ConsumerNext(c))

FairSpec == Spec /\ Fairness

-----------------------------------------------------------------------------
(* Properties.                                                             *)

\* The slots that p has claimed: all of them while its closure runs, then the
\* ones it has yet to publish.
Owned(p) ==
    CASE producer[p] \in {"write", "poison"} -> {slot_index(s) : s \in current[p] + 1 .. end_sequence(p)}
      [] producer[p] = "publish"            -> {slot_index(s) : s \in at[p] .. end_sequence(p)}
      [] OTHER                              -> {}

\* A claim gives its producer exclusive slots: no other producer owns them and
\* no handler holds them ("exclusive access to this sequence from the
\* sequencer"), although claims are published out of order.
ExclusiveClaims ==
    /\ \A p, q \in Producers : p # q => Owned(p) \cap Owned(q) = {}
    /\ \A p \in Producers, c \in Consumers :
          pc[c] = "event" /\ producer[p] = "write" => slot_index(next_sequence[c]) \notin Owned(p)

\* As long as a consumer gates the producers their claims are exclusive.
GatedClaimsAreExclusive == core \notin {"ungate", "stopped"} => ExclusiveClaims

\* One parity bit per slot is enough: for every claimed sequence that a
\* consumer may still ask about, the flag says whether it is published, never
\* mistaking the previous lap for this one.
FlagsTellPublished ==
    core \notin {"ungate", "stopped"} =>
        \A c \in Consumers : \A s \in next_sequence[c] .. cursor :
            is_available(s) <=> s \in published

\* A call that began on a poisoned or closed pipeline reports the terminal
\* state, never success or transient backpressure (classify_try_rejection).
TerminalIsNotTransient == ~misreported

\* A drain that reports success left nothing unhandled, at any stage, up to
\* the cursor it read after closing the claims.
DrainReachesItsTarget ==
    drained = "Ok" => \A c \in Consumers : consumer_sequence[c] >= drain_target

\* The events visible to consumers: the contiguous published prefix.
Prefix == CHOOSE s \in -1 .. cursor :
              0 .. s \subseteq published /\ s + 1 \notin published

\* The pipeline is a bounded log whose end is the published prefix.
Log == INSTANCE EventLog WITH
    published <- Prefix,
    handled   <- [c \in Consumers |-> next_sequence[c] - 1],
    retired   <- {c \in Consumers : pc[c] = "done"}

\* Producers, barriers and consumers together implement EventLog.
ImplementsLog == Log!Spec

\* Every stop terminates, although claims may be outstanding.
StopsTerminate == core # "live" ~> core = "stopped"

-----------------------------------------------------------------------------
(* The inductive invariant: why the properties above hold.                 *)

ProducerPlaces ==
    {"idle", "closed", "poisoned", "current", "cached", "gating", "scan", "cas",
     "refused", "recount", "tally", "write", "publish", "poison"}

TypeOK ==
    /\ PipelineTypeOK
    /\ producer \in [Producers -> ProducerPlaces]
    /\ call \in [Producers -> {"none", "publish", "try_publish"}]
    /\ n \in [Producers -> 1 .. MaxBatch]
    /\ current \in [Producers -> Int] /\ min_sequence \in [Producers -> Int]
    /\ unscanned \in [Producers -> SUBSET Consumers]
    /\ at \in [Producers -> Int]
    /\ terminal_call \in [Producers -> BOOLEAN] /\ misreported \in BOOLEAN
    /\ cached_gating_sequence \in Int
    /\ available \in [0 .. Size - 1 -> IF Bitmap THEN 0 .. 1 ELSE -1 .. 1]
    /\ scan_at \in [Consumers -> Int]
    /\ published \subseteq Nat

\* A consumer handles, and is told of, nothing beyond a published prefix; its
\* barrier's scan has found published whatever it has passed.
ConsumerInv(c) ==
    /\ Progress(c)
    /\ 0 .. next_sequence[c] - 1 \subseteq published
    /\ pc[c] \in {"batch", "event", "commit"} => 0 .. available_sequence[c] \subseteq published
    /\ pc[c] = "resolve" =>
          /\ next_sequence[c] <= scan_at[c] /\ scan_at[c] <= available_sequence[c]
          /\ available_sequence[c] <= cursor
          /\ 0 .. scan_at[c] - 1 \subseteq published

\* The gating set is the last stage until every thread has exited.
Gated == core \notin {"ungate", "stopped"}

GatingInv ==
    IF Gated THEN gating_sequences = Terminal ELSE \A c \in Consumers : pc[c] = "done"

\* The sequences that p has claimed and not published.
Claimed(p) ==
    CASE producer[p] \in {"write", "poison"} -> current[p] + 1 .. end_sequence(p)
      [] producer[p] = "publish"            -> at[p] .. end_sequence(p)
      [] OTHER                              -> {}

\* A claim ends at or below the cursor, and nothing of it is published yet.
ClaimInv(p) ==
    /\ -1 <= current[p] /\ current[p] <= cursor
    /\ producer[p] \in {"write", "publish"} =>
          current[p] < at[p] /\ at[p] <= end_sequence(p)
    /\ Claimed(p) \subseteq (0 .. cursor) \ published

\* The compare-and-set hands out disjoint claims; published claims too are
\* below the cursor.
CursorInv ==
    /\ -1 <= cursor /\ published \subseteq 0 .. cursor
    /\ \A p \in Producers : ClaimInv(p)
    /\ \A p, q \in Producers : p # q => Claimed(p) \cap Claimed(q) = {}

\* The cached minimum, a scan's running minimum and the bound that a producer
\* takes to its compare-and-set, however stale, are lower bounds on every
\* gating sequence; so the cursor stays within one lap of them.
GateInv ==
    Gated => \A g \in Terminal :
        /\ cached_gating_sequence <= consumer_sequence[g]
        /\ cursor - Size <= consumer_sequence[g]
        /\ \A p \in Producers :
              /\ g \notin unscanned[p] => min_sequence[p] <= consumer_sequence[g]
              /\ producer[p] = "cas" => wrap_point(p) <= consumer_sequence[g]

\* The last lap of the ring holds what was published and what is written.
RingInv ==
    Gated =>
        /\ \A s \in published : s > cursor - Size => ring[slot_index(s)] = s
        /\ \A p \in Producers :
              /\ producer[p] = "write" =>
                    \A s \in current[p] + 1 .. at[p] - 1 : ring[slot_index(s)] = s
              /\ producer[p] = "publish" =>
                    \A s \in Claimed(p) : ring[slot_index(s)] = s

\* The flag that the lap of s leaves behind; below 0, the initial one.
LapFlag(s) == IF s < 0 /\ ~Bitmap THEN -1 ELSE round_flag(s)

\* The flag of a slot is the one of its last lap once that is published, and
\* of the lap before until then.
FlagInv ==
    Gated => \A s \in cursor - Size + 1 .. cursor :
        available[slot_index(s)] =
            IF s < 0 \/ s \in published THEN LapFlag(s) ELSE LapFlag(s - Size)

\* Together they are inductive, and carry the safety properties above.
IInv ==
    /\ TypeOK
    /\ \A c \in Consumers : ConsumerInv(c)
    /\ GatingInv /\ CursorInv /\ GateInv /\ RingInv /\ FlagInv

\* The terminal flags last: a call that began under one is on its way to a
\* refusal.
CallInv ==
    /\ ~misreported
    /\ \A p \in Producers : terminal_call[p] =>
          \/ closed /\ producer[p] \in {"idle", "closed", "refused", "recount", "tally"}
          \/ poisoned /\ producer[p] \in {"idle", "closed", "poisoned", "refused",
                                          "recount", "tally"}

\* A drain that has answered Ok has seen its target committed by every stage.
DrainInv ==
    /\ core \in {"live", "snapshot", "drain", "finished", "backlog"} => drained = "none"
    /\ drained = "Ok" => \A c \in Consumers : consumer_sequence[c] >= drain_target
=============================================================================
