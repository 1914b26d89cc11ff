-------------------------- MODULE StandaloneProofs --------------------------
(***************************************************************************)
(* The safety of the readers that run without a pipeline around them, for  *)
(* every ring size and any number of probing threads: the event poller,    *)
(* the hand-driven processor, and the barrier's waits under every polling  *)
(* strategy.  A section each, around one invariant.                        *)
(***************************************************************************)
EXTENDS EventPoller, ProcessorProbe, BarrierWait, WellFoundedInduction, TLAPS

-----------------------------------------------------------------------------
(* The ring.                                                               *)

\* Two sequences within one lap have different slots.
LEMMA SlotsOfALapDiffer ==
    ASSUME NEW a \in Int, NEW b \in Int, a < b, b - a < Size
    PROVE  a % Size # b % Size
<1> DEFINE k == (b \div Size) - (a \div Size)
<1>0. Size \in Nat \ {0}
  BY StandaloneAssumption
<1>1. /\ a \div Size \in Int /\ b \div Size \in Int
      /\ a % Size \in Int /\ b % Size \in Int
      /\ a = Size * (a \div Size) + (a % Size) /\ b = Size * (b \div Size) + (b % Size)
  BY <1>0
<1>2. SUFFICES ASSUME a % Size = b % Size PROVE FALSE
  OBVIOUS
<1>3. k \in Int /\ Size * k = b - a
  <2>1. Size * k = Size * (b \div Size) - Size * (a \div Size)
    BY <1>0, <1>1
  <2>2. Size * (b \div Size) \in Int /\ Size * (a \div Size) \in Int
    BY <1>0, <1>1
  <2> QED BY <1>1, <1>2, <2>1, <2>2
<1> HIDE DEF k
<1>4. CASE k <= 0
  <2>1. Size * k <= 0
    BY <1>0, <1>3, <1>4
  <2> QED BY <1>3, <2>1
<1>5. CASE k >= 1
  <2>1. Size * k >= Size
    BY <1>0, <1>3, <1>5
  <2> QED BY <1>0, <1>3, <2>1
<1> QED BY <1>3, <1>4, <1>5

\* The producer overwrites only what the gate has passed.
LEMMA PublishingKeepsRing ==
    ASSUME NEW gate \in Int, RingTypeOK, GatedRingInv(gate), try_publish(gate) \/ publish
    PROVE  RingTypeOK' /\ GatedRingInv(gate)' /\ cursor' >= cursor
<1>0. Size \in Nat \ {0} /\ MaxSequence \in Nat
  BY StandaloneAssumption
<1>1. cursor \in Int /\ ring \in [0 .. Size - 1 -> Int]
  BY DEF RingTypeOK
<1>2. CASE try_publish(gate)
  <2>1. /\ cursor < MaxSequence /\ cursor + 1 - Size <= gate
        /\ ring' = [ring EXCEPT ![(cursor + 1) % Size] = cursor + 1]
        /\ producer' = "publish" /\ cursor' = cursor
    BY <1>2 DEF try_publish
  <2>2. (cursor + 1) % Size \in 0 .. Size - 1
    BY <1>0, <1>1
  <2>3. ASSUME NEW s \in 0 .. cursor, s > gate PROVE ring'[s % Size] = s
    <3>1. s \in Int /\ s < cursor + 1 /\ cursor + 1 - s < Size /\ cursor + 1 \in Int
      BY <1>0, <1>1, <2>1, <2>3
    <3>2. s % Size # (cursor + 1) % Size /\ s % Size \in 0 .. Size - 1
      <4>1. s % Size # (cursor + 1) % Size
        <5>1. PICK c : c = cursor + 1
          OBVIOUS
        <5>2. s \in Int /\ c \in Int /\ s < c /\ c - s < Size
          BY <1>0, <1>1, <3>1, <5>1
        <5>3. s % Size # c % Size
          BY <5>2, SlotsOfALapDiffer, Zenon
        <5> QED BY <5>1, <5>3, Zenon
      <4>2. s % Size \in 0 .. Size - 1
        BY <1>0, <3>1
      <4> QED BY <4>1, <4>2
    <3>3. ring[s % Size] = s
      BY <2>3, Zenon DEF GatedRingInv
    <3> QED BY <1>1, <2>1, <3>2, <3>3
  <2>4. ring'[(cursor + 1) % Size] = cursor + 1
    BY <1>1, <2>1, <2>2
  <2>5. -1 <= cursor /\ cursor <= MaxSequence /\ cursor - Size <= gate
    BY DEF GatedRingInv
  <2>6. RingTypeOK'
    BY <1>1, <2>1, <2>2 DEF RingTypeOK
  <2> QED BY <1>1, <2>1, <2>3, <2>4, <2>5, <2>6 DEF GatedRingInv
<1>3. CASE publish
  <2>1. /\ producer = "publish" /\ cursor' = cursor + 1 /\ producer' = "idle" /\ ring' = ring
    BY <1>3 DEF publish
  <2>2. /\ -1 <= cursor /\ cursor < MaxSequence /\ cursor + 1 - Size <= gate
        /\ ring[(cursor + 1) % Size] = cursor + 1
    BY <2>1, Zenon DEF GatedRingInv
  <2>3. ASSUME NEW s \in 0 .. cursor + 1, s > gate PROVE ring[s % Size] = s
    <3>1. CASE s = cursor + 1
      BY <2>2, <3>1
    <3>2. CASE s # cursor + 1
      <4>1. s \in 0 .. cursor
        BY <1>1, <3>2
      <4> QED BY <2>3, <4>1, Zenon DEF GatedRingInv
    <3> QED BY <3>1, <3>2
  <2>4. RingTypeOK'
    BY <1>1, <2>1 DEF RingTypeOK
  <2> QED BY <1>0, <1>1, <2>1, <2>2, <2>3, <2>4 DEF GatedRingInv
<1> QED BY <1>2, <1>3

-----------------------------------------------------------------------------
(* EventPoller.                                                            *)

\* A poll, and the calls that leave the batch alone, keep the invariant.
LEMMA PollingKeepsPollerInv ==
    ASSUME PollerInv, UNCHANGED <<ringVars, pollRest>>,
           BeginPoll \/ try_get_available_sequence \/ poll \/ Answered \/ halt
    PROVE  PollerInv'
<1>1. /\ PollerTypeOK /\ BatchInv /\ cursor \in Int /\ available \in Int /\ next_sequence \in Int
      /\ max_events \in {0, 1, Size} /\ Size \in Nat \ {0}
  BY StandaloneAssumption DEF PollerInv, PollerTypeOK, RingTypeOK
<1>2. GatedRingInv(sequence)' /\ RingTypeOK'
  BY Zenon DEF PollerInv, PollerTypeOK, GatedRingInv, RingTypeOK, ringVars, pollRest
<1>3. /\ batch' # None => batch' \in EventBatch
      /\ available' \in Int /\ max_events' \in {0, 1, Size}
      /\ polling' \in {"idle", "read", "recheck", "Idle", "Shutdown"}
      /\ polling' = "recheck" => available' <= cursor
      /\ batch' # None =>
            /\ batch'.from = next_sequence /\ batch'.from <= batch'.current
            /\ batch'.current <= batch'.to + 1 /\ batch'.to <= cursor
      /\ \/ batch' = batch
         \/ batch = None /\ (batch' # None => batch'.current = next_sequence)
      /\ polling' # "idle" => batch' = None
  <2>1. CASE BeginPoll \/ try_get_available_sequence \/ Answered \/ halt
    BY <1>1, <2>1 DEF PollerTypeOK, BatchInv, BeginPoll, try_get_available_sequence, Answered, halt
  <2>2. CASE poll
    BY <1>1, <2>2 DEF PollerTypeOK, BatchInv, EventBatch, poll, take
  <2> QED BY <2>1, <2>2
<1>4. PollerTypeOK' /\ BatchInv'
  BY <1>1, <1>2, <1>3 DEF PollerTypeOK, BatchInv, ringVars, pollRest
<1>5. CommittedIsTakenOnce'
  <2>1. UNCHANGED <<sequence, taken, acked>> /\ next_sequence = sequence + 1 /\ sequence \in Int
    BY <1>1 DEF pollRest, BatchInv, PollerTypeOK
  <2>2. CommittedIsTakenOnce
    BY DEF PollerInv
  <2>3. CASE batch' = batch
    BY <2>1, <2>2, <2>3, Zenon DEF CommittedIsTakenOnce
  <2>4. CASE batch = None /\ (batch' # None => batch'.current = next_sequence)
    BY <2>1, <2>2, <2>4 DEF CommittedIsTakenOnce, Sequences
  <2> QED BY <1>3, <2>3, <2>4
<1> QED BY <1>2, <1>4, <1>5, Zenon DEF PollerInv

\* Reading an event of the batch counts it as taken, once.
LEMMA ReadingKeepsPollerInv ==
    ASSUME PollerInv, UNCHANGED ringVars, next_mut
    PROVE  PollerInv'
<1>1. /\ PollerTypeOK /\ BatchInv /\ GatedRingInv(sequence) /\ CommittedIsTakenOnce
      /\ cursor \in Int /\ sequence \in Int
      /\ taken \in [Sequences -> Nat] /\ MaxSequence \in Nat
  BY StandaloneAssumption DEF PollerInv, PollerTypeOK, RingTypeOK
<1>2. GatedRingInv(sequence)' /\ RingTypeOK'
  BY Zenon DEF PollerInv, PollerTypeOK, GatedRingInv, RingTypeOK, ringVars, next_mut
<1>3. /\ batch \in EventBatch /\ batch # None
      /\ batch.current <= batch.to /\ batch.to <= cursor
      /\ batch.from = sequence + 1 /\ batch.from <= batch.current
      /\ batch' = [batch EXCEPT !.current = @ + 1]
      /\ taken' = [taken EXCEPT ![batch.current] = @ + 1]
      /\ UNCHANGED <<sequence, next_sequence, polling, available, max_events, acked, cursor>>
      /\ cursor <= MaxSequence /\ -1 <= sequence /\ acked \subseteq 0 .. sequence
  BY <1>1, Zenon DEF next_mut, PollerTypeOK, BatchInv, ringVars, GatedRingInv
<1>4. /\ batch' \in EventBatch
      /\ batch'.from = batch.from /\ batch'.to = batch.to /\ batch'.current = batch.current + 1
  BY <1>3 DEF EventBatch
<1>5. batch.current \in Sequences /\ batch.current > sequence
  BY <1>1, <1>3 DEF Sequences, EventBatch
<1>6. PollerTypeOK'
  BY <1>1, <1>2, <1>3, <1>4, <1>5 DEF PollerTypeOK
<1>7. BatchInv'
  BY <1>1, <1>3, <1>4 DEF BatchInv, EventBatch
<1>8. CommittedIsTakenOnce'
  <2>1. taken[batch.current] = 0
    <3>1. ~(batch.current <= sequence) /\ ~(batch.current < batch.current)
      BY <1>1, <1>3, <1>5 DEF EventBatch
    <3> QED BY <1>1, <1>5, <3>1, Zenon DEF CommittedIsTakenOnce
  <2>2. taken'[batch.current] = 1
    BY <1>1, <1>3, <1>5, <2>1
  <2>3. \A s \in Sequences : s # batch.current => taken'[s] = taken[s]
    BY <1>1, <1>3
  <2>4. ASSUME NEW s \in Sequences, s <= sequence
        PROVE  taken'[s] = IF s \in acked THEN 0 ELSE 1
    <3>1. s # batch.current
      BY <1>1, <1>3, <1>5, <2>4 DEF Sequences
    <3> QED BY <1>1, <2>3, <2>4, <3>1, Zenon DEF CommittedIsTakenOnce
  <2>5. ASSUME NEW s \in Sequences, ~(s <= sequence)
        PROVE  taken'[s] = IF batch' # None /\ s < batch'.current THEN 1 ELSE 0
    <3>1. taken[s] = IF s < batch.current THEN 1 ELSE 0
      BY <1>1, <1>3, <2>5, Zenon DEF CommittedIsTakenOnce
    <3>2. batch' # None /\ (s < batch'.current <=> s < batch.current \/ s = batch.current)
      BY <1>3, <1>4, PollerAssumption DEF Sequences, EventBatch
    <3>3. CASE s = batch.current
      BY <2>2, <3>2, <3>3
    <3>4. CASE s # batch.current
      BY <2>3, <3>1, <3>2, <3>4
    <3> QED BY <3>3, <3>4
  <2> QED BY <1>3, <2>4, <2>5, Zenon DEF CommittedIsTakenOnce
<1> QED BY <1>2, <1>6, <1>7, <1>8, Zenon DEF PollerInv

\* The end of a batch commits what was taken or acknowledged, and gives the
\* producer no more than that.
LEMMA CommittingKeepsPollerInv ==
    ASSUME PollerInv, UNCHANGED ringVars, drop \/ commit \/ ack_all
    PROVE  PollerInv'
<1>1. /\ PollerTypeOK /\ BatchInv /\ GatedRingInv(sequence) /\ CommittedIsTakenOnce
      /\ cursor \in Int /\ sequence \in Int /\ Size \in Nat \ {0}
      /\ MaxSequence \in Nat
  BY StandaloneAssumption DEF PollerInv, PollerTypeOK, RingTypeOK
<1>2. /\ batch \in EventBatch /\ batch # None
      /\ batch.from = sequence + 1 /\ batch.from <= batch.current
      /\ batch.current <= batch.to + 1 /\ batch.to <= cursor
      /\ next_sequence = sequence + 1 /\ -1 <= sequence /\ acked \subseteq 0 .. sequence
      /\ polling = "idle"
  BY <1>1, Zenon DEF drop, commit, ack_all, PollerTypeOK, BatchInv
<1>3. batch.from \in Int /\ batch.current \in Int /\ batch.to \in Int
  BY <1>2 DEF EventBatch
<1>4. PICK last \in {batch.current - 1, batch.to} :
         /\ commit_to(last)
         /\ \/ last = batch.current - 1 /\ acked' = acked
            \/ last = batch.to /\ acked' = acked \cup batch.current .. batch.to
  BY Zenon DEF drop, commit, ack_all
<1>5. /\ last \in Int /\ sequence <= last /\ last <= cursor /\ batch.current - 1 <= last
  <2>1. last = batch.current - 1 \/ last = batch.to
    BY <1>4, Zenon
  <2> QED BY <1>1, <1>2, <1>3, <2>1
<1>6. /\ sequence' = last /\ next_sequence' = last + 1 /\ batch' = None
      /\ UNCHANGED <<polling, available, max_events, taken, cursor, ring, producer>>
  BY <1>1, <1>2, <1>3, <1>4, <1>5 DEF commit_to, ringVars
<1>7. \A s : s \in acked' <=> s \in acked \/ (s \in batch.current .. last)
  BY <1>1, <1>3, <1>4, <1>5
<1>8. PollerTypeOK'
  BY <1>1, <1>5, <1>6 DEF PollerTypeOK, RingTypeOK
<1>9. BatchInv'
  <2>1. acked' \subseteq 0 .. last
    <3> SUFFICES ASSUME NEW s \in acked' PROVE s \in 0 .. last
      OBVIOUS
    <3>1. s \in 0 .. sequence \/ s \in batch.current .. last
      BY <1>2, <1>7, Zenon
    <3> QED BY <1>1, <1>2, <1>3, <1>5, <3>1
  <2> QED BY <1>1, <1>2, <1>5, <1>6, <2>1 DEF BatchInv
<1>10. GatedRingInv(sequence)'
  <2>1. /\ -1 <= cursor /\ cursor <= MaxSequence /\ cursor - Size <= last
        /\ producer = "publish" => /\ cursor < MaxSequence /\ cursor + 1 - Size <= last
                                   /\ ring[(cursor + 1) % Size] = cursor + 1
    BY <1>1, <1>5 DEF GatedRingInv
  <2>2. \A s \in 0 .. cursor : s > last => s > sequence
    BY <1>1, <1>5
  <2>3. \A s \in 0 .. cursor : s > last => ring[s % Size] = s
    BY <1>1, <2>2, Zenon DEF GatedRingInv
  <2> QED BY <1>6, <2>1, <2>3, Zenon DEF GatedRingInv
<1>11. CommittedIsTakenOnce'
  <2>1. ASSUME NEW s \in Sequences, s <= sequence
        PROVE  s <= last /\ taken[s] = IF s \in acked' THEN 0 ELSE 1
    <3>1. s <= last /\ s \notin batch.current .. last
      BY <1>1, <1>2, <1>3, <1>5, <2>1 DEF Sequences
    <3> QED BY <1>1, <1>7, <2>1, <3>1, Zenon DEF CommittedIsTakenOnce
  <2>2. ASSUME NEW s \in Sequences, ~(s <= sequence)
        PROVE  taken[s] = IF s <= last THEN IF s \in acked' THEN 0 ELSE 1 ELSE 0
    <3>1. taken[s] = IF s < batch.current THEN 1 ELSE 0
      BY <1>1, <1>2, <2>2, Zenon DEF CommittedIsTakenOnce
    <3>2. s \notin acked
      <4>1. s \notin 0 .. sequence
        BY <1>1, <2>2 DEF Sequences
      <4> QED BY <1>2, <4>1, Zenon
    <3>3. (s < batch.current => s <= last) /\ (s \in batch.current .. last <=> ~(s < batch.current) /\ s <= last)
      BY <1>3, <1>5 DEF Sequences
    <3> QED BY <1>7, <3>1, <3>2, <3>3
  <2> QED BY <1>6, <2>1, <2>2 DEF CommittedIsTakenOnce
<1> QED BY <1>8, <1>9, <1>10, <1>11, Zenon DEF PollerInv

\* The poller's invariant holds always.
THEOREM PollerInvariance == PollerSpec => []PollerInv
<1>1. open_single_producer_poller => PollerInv
  <2> SUFFICES ASSUME RingInit, PollerInit PROVE PollerInv
    BY DEF open_single_producer_poller
  <2>1. PollerTypeOK
    BY StandaloneAssumption DEF RingInit, PollerInit, PollerTypeOK, RingTypeOK
  <2>2. GatedRingInv(sequence) /\ BatchInv
    BY StandaloneAssumption DEF RingInit, PollerInit, GatedRingInv, BatchInv
  <2>3. CommittedIsTakenOnce
    BY DEF PollerInit, CommittedIsTakenOnce, Sequences
  <2> QED BY <2>1, <2>2, <2>3, Zenon DEF PollerInv
<1>2. PollerInv /\ [PollerNext]_<<ringVars, failureVars, pollerVars>> => PollerInv'
  <2> SUFFICES ASSUME PollerInv, [PollerNext]_<<ringVars, failureVars, pollerVars>>
               PROVE  PollerInv'
    OBVIOUS
  <2>1. CASE PollerStep
    <3>1. UNCHANGED ringVars
      BY <2>1, Zenon DEF PollerStep
    <3>2. CASE BeginPoll \/ try_get_available_sequence \/ poll \/ Answered \/ halt
      <4>1. UNCHANGED pollRest
        BY <3>2, Zenon DEF BeginPoll, try_get_available_sequence, poll, Answered, halt, pollRest
      <4> QED BY <3>1, <3>2, <4>1, PollingKeepsPollerInv, Zenon
    <3>3. CASE next_mut
      BY <3>1, <3>3, ReadingKeepsPollerInv, Zenon
    <3>4. CASE drop \/ commit \/ ack_all
      BY <3>1, <3>4, CommittingKeepsPollerInv, Zenon
    <3> QED BY <2>1, <3>2, <3>3, <3>4, Zenon DEF PollerStep
  <2>2. CASE (try_publish(sequence) \/ publish) /\ UNCHANGED pollerVars
    <3>1. RingTypeOK /\ GatedRingInv(sequence) /\ sequence \in Int
      BY Zenon DEF PollerInv, PollerTypeOK
    <3>2. /\ UNCHANGED <<sequence, next_sequence, polling, available, max_events, batch, taken, acked>>
          /\ sequence' = sequence
      BY <2>2, Zenon DEF pollerVars, pollRest
    <3>3. RingTypeOK' /\ GatedRingInv(sequence)' /\ cursor' >= cursor
      <4>1. PICK gate \in Int : gate = sequence /\ gate' = sequence'
        BY <3>1, <3>2
      <4> QED BY <2>2, <3>1, <3>2, PublishingKeepsRing, Zenon DEF GatedRingInv
    <3>4. PollerTypeOK' /\ BatchInv'
      <4>1. cursor \in Int /\ cursor' \in Int
        BY <3>1, <3>3 DEF RingTypeOK
      <4>2. PollerTypeOK'
        BY <3>2, <3>3, Zenon DEF PollerInv, PollerTypeOK
      <4>3. BatchInv /\ sequence \in Int /\ available \in Int
            /\ (batch # None => batch.to \in Int)
        BY DEF PollerInv, PollerTypeOK, EventBatch
      <4>4. /\ sequence <= cursor' /\ (polling = "recheck" => available <= cursor')
            /\ (batch # None => batch.to <= cursor')
        BY <3>3, <4>1, <4>3 DEF BatchInv
      <4>5. BatchInv'
        BY <3>2, <4>3, <4>4, Zenon DEF BatchInv
      <4> QED BY <4>2, <4>5
    <3>5. CommittedIsTakenOnce'
      BY <3>2, Zenon DEF PollerInv, CommittedIsTakenOnce
    <3> QED BY <3>3, <3>4, <3>5, Zenon DEF PollerInv
  <2>3. CASE UNCHANGED <<ringVars, failureVars, pollerVars>>
    BY <2>3, Zenon DEF PollerInv, PollerTypeOK, RingTypeOK, GatedRingInv, BatchInv,
                       CommittedIsTakenOnce, ringVars, pollerVars, pollRest
  <2> QED BY <2>1, <2>2, <2>3, Zenon DEF PollerNext
<1> QED BY <1>1, <1>2, PTL DEF PollerSpec

\* The events of a live batch are published and stay in their slots, for any
\* ring size and any use of the poller.
THEOREM BatchesAreHeld == PollerSpec => []BatchIsHeld
<1>1. PollerInv => BatchIsHeld
  <2> SUFFICES ASSUME PollerInv, batch # None
               PROVE  /\ batch.to <= cursor
                      /\ \A s \in batch.from .. batch.to : ring[s % Size] = s
    BY DEF BatchIsHeld
  <2>1. /\ batch \in EventBatch /\ batch.from = sequence + 1
        /\ batch.to <= cursor /\ sequence \in Int /\ -1 <= sequence /\ cursor \in Int
    BY Zenon DEF PollerInv, PollerTypeOK, RingTypeOK, BatchInv
  <2>2. \A s \in batch.from .. batch.to : s \in 0 .. cursor /\ s > sequence
    BY <2>1 DEF EventBatch
  <2> QED BY <2>1, <2>2, Zenon DEF PollerInv, GatedRingInv
<1> QED BY <1>1, PollerInvariance, PTL

\* Whatever mixture of polls, takes, partial reads, drops and acks came before,
\* a committed event was taken exactly once or skipped by ack_all.
THEOREM NothingIsTakenTwice == PollerSpec => []CommittedIsTakenOnce
<1>1. PollerInv => CommittedIsTakenOnce
  BY DEF PollerInv
<1> QED BY <1>1, PollerInvariance, PTL

-----------------------------------------------------------------------------
(* The processor: what a step of a caller may do, by where it has the      *)
(* handler's mutex.                                                        *)

\* Nothing is handled and the gating sequence stays.
sameCount == UNCHANGED <<processor_sequence, handled>>

\* Outside the mutex.
Away(c) ==
    /\ ~Holds(c) /\ ~Holds(c)' /\ UNCHANGED event_handler /\ sameCount
    /\ first_failure' = None => first_failure = None

\* The mutex is taken, and the next event read from the gating sequence.
Acquires(c) ==
    /\ event_handler = None /\ event_handler' = c
    /\ Holds(c)' /\ at'[c] \in {"loop", "read"}
    /\ batch_next'[c] = processor_sequence + 1
    /\ sameCount /\ UNCHANGED first_failure

\* Between the mutex and the first event of a batch.
Prepares(c) ==
    /\ Holds(c) /\ Holds(c)' /\ at[c] # "batch"
    /\ UNCHANGED <<event_handler, first_failure>> /\ sameCount
    /\ batch_next'[c] = batch_next[c]
    /\ \/ at[c] = "loop" /\ at'[c] = "wait"
       \/ at'[c] = "unlock"
       \/ at[c] = "read" /\ at'[c] = "recheck" /\ batch_end'[c] = cursor
       \/ /\ at[c] \in {"wait", "recheck"} /\ at'[c] = "batch"
          /\ batch_next[c] <= batch_end'[c] /\ batch_end'[c] <= cursor

\* One event of the batch; the last one moves the gating sequence.
HandlesOne(c) ==
    /\ at[c] = "batch" /\ Handled(batch_next[c]) /\ batch_next'[c] = batch_next[c] + 1
    /\ UNCHANGED <<event_handler, first_failure>> /\ batch_end'[c] = batch_end[c]
    /\ \/ /\ batch_next[c] = batch_end[c] /\ processor_sequence' = batch_end[c]
          /\ at'[c] = IF c = "run" THEN "loop" ELSE "unlock"
       \/ batch_next[c] # batch_end[c] /\ at'[c] = "batch" /\ UNCHANGED processor_sequence

\* The batch ends early: run() gives the mutex back, a probe is about to.
Fails(c) ==
    /\ at[c] = "batch" /\ first_failure' # None /\ UNCHANGED handled
    /\ processor_sequence' \in {processor_sequence, batch_next[c] - 1}
    /\ \/ c = "run" /\ event_handler' = None /\ at'[c] \in {"leave", "stop"}
       \/ c # "run" /\ UNCHANGED event_handler /\ at'[c] = "unlock"

\* A probe's batch ends before its first event, and nobody is told.
Abandons(c) ==
    /\ at[c] = "batch" /\ c # "run" /\ batch_next[c] = processor_sequence + 1
    /\ UNCHANGED <<event_handler, first_failure>> /\ sameCount /\ at'[c] = "unlock"

\* The mutex is given back outside a batch.
Releases(c) ==
    /\ Holds(c) /\ ~Holds(c)' /\ at[c] # "batch" /\ event_handler' = None
    /\ sameCount /\ UNCHANGED first_failure

\* A step of run() or try_run_once() moves its caller alone.
LEMMA CallersMoveAlone ==
    ASSUME ProbeTypeOK, NEW c \in Callers, CallerStep(c)
    PROVE  /\ at' \in [Callers -> {"out", "clear", "start", "recheck", "lock", "loop", "wait",
                                   "batch", "stop", "leave", "read", "unlock"}]
           /\ batch_next' \in [Callers -> Int] /\ batch_end' \in [Callers -> Int]
           /\ UNCHANGED ringVars
           /\ \A d \in Callers : d # c => /\ at'[d] = at[d] /\ batch_next'[d] = batch_next[d]
                                          /\ batch_end'[d] = batch_end[d]
<1>1. /\ at \in [Callers -> {"out", "clear", "start", "recheck", "lock", "loop", "wait",
                             "batch", "stop", "leave", "read", "unlock"}]
      /\ batch_next \in [Callers -> Int] /\ batch_end \in [Callers -> Int]
      /\ cursor \in Int /\ processor_sequence \in Int
  BY DEF ProbeTypeOK, RingTypeOK
<1>2. UNCHANGED ringVars
  BY Zenon DEF CallerStep
<1>3. /\ UNCHANGED at \/ \E place \in {"out", "clear", "start", "recheck", "lock", "loop", "wait",
                             "batch", "stop", "leave", "read", "unlock"} : Move(c, place)
      /\ UNCHANGED batch_next \/ \E s \in Int : batch_next' = [batch_next EXCEPT ![c] = s]
      /\ UNCHANGED batch_end \/ \E s \in Int : batch_end' = [batch_end EXCEPT ![c] = s]
  <2>1. CASE c = "run" /\ (Claim(c) \/ ClearAlert \/ invoke_on_start \/ process_events)
    BY <1>1, <2>1 DEF Claim, ClearAlert, invoke_on_start, process_events
  <2>2. CASE c = "run" /\ (WaitForBatch \/ invoke_on_shutdown)
    BY <1>1, <2>2 DEF WaitForBatch, invoke_on_shutdown
  <2>3. CASE Leave(c)
    <3>1. /\ Move(c, "out") /\ batch_next' = [batch_next EXCEPT ![c] = -1]
          /\ batch_end' = [batch_end EXCEPT ![c] = -1]
      BY <2>3, Zenon DEF Leave
    <3>2. -1 \in Int
      OBVIOUS
    <3> QED BY <3>1, <3>2, Zenon
  <2>4. CASE Event(c)
    BY <1>1, <2>4 DEF Event, FailBatch
  <2>5. CASE Claim(c) \/ try_lock(c) \/ Probe(c) \/ Recheck(c) \/ Unlock(c)
             \/ BatchStartUnwinds(c)
    BY <1>1, <2>5 DEF Claim, try_lock, Probe, Recheck, Unlock, BatchStartUnwinds
  <2> QED BY <2>1, <2>2, <2>3, <2>4, <2>5, Zenon DEF CallerStep, run, try_run_once
<1>4. /\ at' \in [Callers -> {"out", "clear", "start", "recheck", "lock", "loop", "wait",
                              "batch", "stop", "leave", "read", "unlock"}]
      /\ \A d \in Callers : d # c => at'[d] = at[d]
  BY <1>1, <1>3 DEF Move
<1>5. /\ batch_next' \in [Callers -> Int] /\ batch_end' \in [Callers -> Int]
      /\ \A d \in Callers : d # c => batch_next'[d] = batch_next[d] /\ batch_end'[d] = batch_end[d]
  BY <1>1, <1>3
<1> QED BY <1>2, <1>4, <1>5

\* Every step of run() and of try_run_once() is of one of these kinds.
LEMMA KindsOfSteps ==
    ASSUME ProbeInv, NEW c \in Callers, CallerStep(c)
    PROVE  \/ Away(c) \/ Acquires(c) \/ Prepares(c) \/ HandlesOne(c) \/ Fails(c)
           \/ Abandons(c) \/ Releases(c)
<1>1. /\ at \in [Callers -> {"out", "clear", "start", "recheck", "lock", "loop", "wait",
                             "batch", "stop", "leave", "read", "unlock"}]
      /\ batch_next \in [Callers -> Int] /\ batch_end \in [Callers -> Int]
      /\ cursor \in Int /\ processor_sequence \in Int /\ CallerInv(c)
  BY DEF ProbeInv, ProbeTypeOK, RingTypeOK
<1>2. /\ c = "run" \/ (c \in Probers /\ c # "run")
      /\ None \notin FailurePhase
  BY ProbersAssumption, StandaloneAssumption DEF Callers
<1>3. CASE Claim(c) \/ Leave(c)
  <2>1. Away(c)
    BY <1>1, <1>2, <1>3 DEF Claim, Leave, Move, Away, Holds, sameCount, failureVars
  <2> QED BY <2>1
<1>4. CASE c = "run" /\ (ClearAlert \/ invoke_on_start \/ invoke_on_shutdown)
  <2>1. first_failure' = None => first_failure = None
    BY <1>2, <1>4 DEF ClearAlert, invoke_on_start, invoke_on_shutdown, failureVars,
                      poison_with_failure, record_failure, FailurePhase
  <2>2. Away(c)
    BY <1>1, <1>4, <2>1 DEF ClearAlert, invoke_on_start, invoke_on_shutdown, Move, Away, Holds, sameCount
  <2> QED BY <2>2
<1>5. CASE c = "run" /\ process_events
  <2>1. CASE at[c] = "recheck"
    <3>1. Away(c)
      BY <1>1, <1>5, <2>1 DEF process_events, Move, Away, Holds, sameCount, failureVars
    <3> QED BY <3>1
  <2>2. CASE at[c] = "lock"
    <3>1. Acquires(c)
      BY <1>1, <1>5, <2>2 DEF process_events, Move, Acquires, Holds, sameCount, failureVars, handlerFree
    <3> QED BY <3>1
  <2>3. CASE at[c] = "loop" /\ running
    <3>1. Prepares(c)
      BY <1>1, <1>5, <2>3 DEF process_events, Move, Prepares, Holds, sameCount, failureVars
    <3> QED BY <3>1
  <2>4. CASE at[c] = "loop" /\ ~running
    <3>1. Releases(c)
      BY <1>1, <1>5, <2>4 DEF process_events, Move, Releases, Holds, sameCount, failureVars
    <3> QED BY <3>1
  <2> QED BY <1>5, <2>1, <2>2, <2>3, <2>4 DEF process_events
<1>6. CASE c = "run" /\ WaitForBatch
  <2>1. CASE barrier_alert
    <3>1. Releases(c)
      BY <1>1, <1>6, <2>1 DEF WaitForBatch, Move, Releases, Holds, sameCount, failureVars
    <3> QED BY <3>1
  <2>2. CASE ~barrier_alert
    <3>1. Prepares(c)
      BY <1>1, <1>6, <2>2 DEF WaitForBatch, Move, Prepares, Holds, sameCount, failureVars
    <3> QED BY <3>1
  <2> QED BY <2>1, <2>2
<1>7. CASE c # "run" /\ try_lock(c)
  <2>1. CASE handlerFree
    <3>1. Acquires(c)
      BY <1>1, <1>7, <2>1 DEF try_lock, Move, Acquires, Holds, sameCount, failureVars, handlerFree
    <3> QED BY <3>1
  <2>2. CASE ~handlerFree
    <3>1. Away(c)
      BY <1>1, <1>7, <2>2 DEF try_lock, Move, Away, Holds, sameCount, failureVars
    <3> QED BY <3>1
  <2> QED BY <2>1, <2>2
<1>8. CASE c # "run" /\ (Probe(c) \/ Recheck(c))
  <2>1. Prepares(c)
    BY <1>1, <1>8 DEF Probe, Recheck, Move, Prepares, Holds, sameCount, failureVars, CallerInv
  <2> QED BY <2>1
<1>9. CASE c # "run" /\ Unlock(c)
  <2>1. Releases(c)
    BY <1>1, <1>9 DEF Unlock, Move, Releases, Holds, sameCount, failureVars
  <2> QED BY <2>1
<1>10. CASE c # "run" /\ BatchStartUnwinds(c)
  <2>1. Abandons(c)
    BY <1>1, <1>10 DEF BatchStartUnwinds, Move, Abandons, sameCount, failureVars
  <2> QED BY <2>1
<1>11. CASE Event(c)
  <2>1. at[c] = "batch"
    BY <1>11 DEF Event
  <2>2. ASSUME NEW phase \in {"BatchStart", "EventProcessing", "ConsumerPanic"},
               FailBatch(c, phase),
               UNCHANGED processor_sequence \/ processor_sequence' = batch_next[c] - 1
        PROVE  Fails(c)
    <3>1. first_failure' # None
      BY <1>2, <2>2 DEF FailBatch, poison_with_failure, record_failure, FailurePhase
    <3> QED BY <1>1, <2>1, <2>2, <3>1 DEF FailBatch, Move, Fails
  <2>3. CASE Handled(batch_next[c]) /\ ~Fails(c)
    <3>1. HandlesOne(c)
      BY <1>1, <1>11, <2>2, <2>3 DEF Event, HandlesOne, Move, failureVars
    <3> QED BY <3>1
  <2> QED BY <1>11, <2>2, <2>3 DEF Event
<1>12. CASE c = "run"
  <2>1. run
    BY <1>12, ProbersAssumption, Zenon DEF CallerStep
  <2>2. Claim(c) \/ ClearAlert \/ invoke_on_start \/ process_events \/ WaitForBatch
        \/ Event(c) \/ invoke_on_shutdown \/ Leave(c)
    BY <1>12, <2>1, Zenon DEF run
  <2> QED BY <1>3, <1>4, <1>5, <1>6, <1>11, <1>12, <2>2, Zenon
<1>13. CASE c # "run"
  <2>1. Claim(c) \/ try_lock(c) \/ Probe(c) \/ Recheck(c) \/ BatchStartUnwinds(c)
        \/ Event(c) \/ Unlock(c) \/ Leave(c)
    BY <1>13, Zenon DEF CallerStep, try_run_once
  <2> QED BY <1>3, <1>7, <1>8, <1>9, <1>11, <1>13, <1>10, <2>1, Zenon
<1> QED BY <1>12, <1>13

\* A caller's step leaves the others' rows true: the gating sequence is moved
\* by the holder of the mutex alone.
LEMMA OthersKeepTheirRows ==
    ASSUME ProbeInv, NEW c \in Callers, CallerStep(c), NEW d \in Callers, d # c
    PROVE  CallerInv(d)'
<1>1. /\ at'[d] = at[d] /\ batch_next'[d] = batch_next[d] /\ batch_end'[d] = batch_end[d]
      /\ cursor' = cursor
  BY CallersMoveAlone, Zenon DEF ProbeInv, ringVars
<1>2. CallerInv(c) /\ CallerInv(d) /\ c # None /\ d # None
  BY ProbersAssumption, Zenon DEF ProbeInv, Callers
<1>3. \/ event_handler' = event_handler /\ processor_sequence' = processor_sequence
      \/ event_handler \in {None, c} /\ event_handler' \in {None, c}
  <2>1. Holds(c) => event_handler = c
    BY <1>2 DEF CallerInv
  <2>2. at[c] = "batch" => Holds(c)
    BY DEF Holds
  <2>3. Away(c) \/ Acquires(c) \/ Prepares(c) \/ HandlesOne(c) \/ Fails(c) \/ Abandons(c)
        \/ Releases(c)
    BY KindsOfSteps, Zenon
  <2> QED BY <2>1, <2>2, <2>3, Zenon DEF Away, Acquires, Prepares, HandlesOne, Fails, Abandons,
                                         Releases, sameCount
<1>4. CASE event_handler' = event_handler /\ processor_sequence' = processor_sequence
  BY <1>1, <1>2, <1>4 DEF CallerInv, Holds
<1>5. CASE event_handler \in {None, c} /\ event_handler' \in {None, c}
  <2>1. ~Holds(d)
    BY <1>2, <1>5, Zenon DEF CallerInv
  <2>2. ~Holds(d)' /\ at'[d] # "batch"
    BY <1>1, <2>1 DEF Holds
  <2> QED BY <1>2, <1>5, <2>2, Zenon DEF CallerInv
<1> QED BY <1>3, <1>4, <1>5

\* The caller itself keeps its row, and the sequence moves inside its batch.
LEMMA CallerKeepsItsRow ==
    ASSUME ProbeInv, NEW c \in Callers, CallerStep(c)
    PROVE  /\ CallerInv(c)' /\ event_handler' \in Callers \cup {None}
           /\ processor_sequence' \in Int /\ processor_sequence' >= processor_sequence
<1>1. /\ cursor' = cursor /\ cursor \in Int /\ processor_sequence \in Int
      /\ batch_next[c] \in Int /\ batch_end[c] \in Int
      /\ batch_next'[c] \in Int /\ batch_end'[c] \in Int
      /\ event_handler \in Callers \cup {None} /\ CallerInv(c)
  <2>1. /\ batch_next \in [Callers -> Int] /\ batch_end \in [Callers -> Int]
        /\ batch_next' \in [Callers -> Int] /\ batch_end' \in [Callers -> Int]
        /\ cursor' = cursor
    BY CallersMoveAlone, Zenon DEF ProbeInv, ProbeTypeOK, ringVars
  <2> QED BY <2>1 DEF ProbeInv, ProbeTypeOK, RingTypeOK
<1>2. c # None
  BY ProbersAssumption DEF Callers
<1>3. CASE Away(c)
  <2>1. at'[c] # "batch"
    BY <1>3 DEF Away, Holds
  <2> QED BY <1>1, <1>3, <2>1 DEF Away, CallerInv, sameCount
<1>4. CASE Acquires(c)
  BY <1>1, <1>2, <1>4 DEF Acquires, CallerInv, sameCount
<1>5. CASE Prepares(c)
  <2>1. at[c] \in {"loop", "wait", "read", "recheck"} => batch_next[c] = processor_sequence + 1
    BY <1>1, <1>5 DEF CallerInv, Prepares
  <2>2. event_handler = c /\ event_handler' = c /\ Holds(c)' /\ processor_sequence' = processor_sequence
    BY <1>1, <1>5, Zenon DEF Prepares, CallerInv, sameCount
  <2>3. at'[c] = "recheck" => batch_end'[c] = cursor
    BY <1>5, Zenon DEF Prepares
  <2>4. at'[c] = "batch" => /\ at[c] \in {"wait", "recheck"}
                            /\ batch_next[c] <= batch_end'[c] /\ batch_end'[c] <= cursor
    BY <1>5, Zenon DEF Prepares
  <2>5. /\ batch_next'[c] = batch_next[c]
        /\ at'[c] \notin {"batch", "unlock"} => batch_next[c] = processor_sequence + 1
    BY <1>5, <2>1 DEF Prepares
  <2> QED BY <1>1, <2>1, <2>2, <2>3, <2>4, <2>5 DEF CallerInv
<1>6. CASE HandlesOne(c)
  <2>1. Holds(c) /\ Holds(c)'
    BY <1>6 DEF HandlesOne, Holds
  <2>2. /\ event_handler = c /\ event_handler' = c /\ processor_sequence < batch_next[c]
        /\ batch_next[c] <= batch_end[c] /\ batch_end[c] <= cursor
    BY <1>1, <1>6, <2>1, Zenon DEF HandlesOne, CallerInv
  <2> QED BY <1>1, <1>6, <2>1, <2>2 DEF HandlesOne, CallerInv
<1>7. CASE Fails(c)
  <2>1. Holds(c) /\ (Holds(c)' <=> c # "run") /\ (Holds(c)' => at'[c] = "unlock") /\ at'[c] # "batch"
    BY <1>7 DEF Fails, Holds
  <2>2. event_handler = c /\ processor_sequence < batch_next[c]
    BY <1>1, <1>7, <2>1, Zenon DEF Fails, CallerInv
  <2>3. processor_sequence' \in Int /\ processor_sequence' >= processor_sequence
    BY <1>1, <1>7, <2>2 DEF Fails
  <2>4. (event_handler' = c <=> c # "run") /\ event_handler' \in Callers \cup {None}
    BY <1>1, <1>2, <1>7, <2>2 DEF Fails
  <2> QED BY <2>1, <2>3, <2>4 DEF CallerInv
<1>8. CASE Releases(c)
  <2>1. at'[c] # "batch"
    BY <1>8 DEF Releases, Holds
  <2> QED BY <1>1, <1>2, <1>8, <2>1 DEF Releases, CallerInv, sameCount
<1>9. CASE Abandons(c)
  <2>1. Holds(c) /\ Holds(c)'
    BY <1>9 DEF Abandons, Holds
  <2>2. event_handler = c
    BY <1>1, <2>1, Zenon DEF CallerInv
  <2> QED BY <1>1, <1>9, <2>1, <2>2 DEF Abandons, CallerInv, sameCount
<1> QED BY <1>3, <1>4, <1>5, <1>6, <1>7, <1>8, <1>9, KindsOfSteps, Zenon

\* Only the event that is handled is counted, and Reached moves with it.
LEMMA CallerKeepsTheCount ==
    ASSUME ProbeInv, NEW c \in Callers, CallerStep(c)
    PROVE  /\ handled' \in [0 .. MaxSequence -> 0 .. 2]
           /\ first_failure' = None =>
                 \A s \in 0 .. MaxSequence : handled'[s] = IF s <= Reached' THEN 1 ELSE 0
<1>1. /\ handled \in [0 .. MaxSequence -> 0 .. 2] /\ MaxSequence \in Nat
      /\ cursor \in Int /\ processor_sequence \in Int /\ -1 <= processor_sequence
      /\ cursor <= MaxSequence /\ CallerInv(c) /\ event_handler \in Callers \cup {None}
      /\ batch_next \in [Callers -> Int] /\ batch_end \in [Callers -> Int]
  BY StandaloneAssumption DEF ProbeInv, ProbeTypeOK, RingTypeOK
<1>2. /\ c # None
      /\ first_failure = None =>
            \A s \in 0 .. MaxSequence : handled[s] = IF s <= Reached THEN 1 ELSE 0
  BY ProbersAssumption DEF ProbeInv, Callers
<1>3. \A d \in Callers : d # c => at'[d] = at[d] /\ batch_next'[d] = batch_next[d]
  BY CallersMoveAlone, Zenon DEF ProbeInv
<1>4. CASE handled' = handled /\ (first_failure' = None => first_failure = None /\ Reached' = Reached)
  BY <1>1, <1>2, <1>4, Zenon
<1>5. CASE Away(c)
  <2>1. event_handler # c
    BY <1>1, <1>5 DEF Away, CallerInv
  <2>2. Reached' = Reached
    BY <1>1, <1>3, <1>5, <2>1 DEF Away, Reached, sameCount
  <2> QED BY <1>4, <1>5, <2>2, Zenon DEF Away, sameCount
<1>6. CASE Acquires(c)
  <2>1. Reached' = Reached
    BY <1>2, <1>6 DEF Acquires, Reached, sameCount
  <2> QED BY <1>4, <1>6, <2>1, Zenon DEF Acquires, sameCount
<1>7. CASE Prepares(c)
  <2>1. event_handler = c /\ event_handler' = c
    BY <1>1, <1>7 DEF Prepares, CallerInv
  <2>2. at'[c] = "batch" => batch_next'[c] - 1 = processor_sequence
    BY <1>1, <1>7, <2>1 DEF Prepares, CallerInv
  <2>3. Reached' = Reached
    BY <1>2, <1>7, <2>1, <2>2 DEF Prepares, Reached, sameCount
  <2> QED BY <1>4, <1>7, <2>3, Zenon DEF Prepares, sameCount
<1>8. CASE HandlesOne(c)
  <2>1. event_handler = c /\ event_handler' = c /\ first_failure' = first_failure
    BY <1>1, <1>8 DEF HandlesOne, CallerInv, Holds
  <2>2. PICK b \in Int : b = batch_next[c]
    BY <1>1
  <2>3. b \in 0 .. MaxSequence
    BY <1>1, <1>8, <2>2 DEF HandlesOne, CallerInv
  <2>4. Reached = b - 1 /\ Reached' = b
    BY <1>1, <1>2, <1>8, <2>1, <2>2 DEF HandlesOne, Reached, CallerInv
  <2>5. handled' = [handled EXCEPT ![b] = IF @ < 2 THEN @ + 1 ELSE @]
    BY <1>8, <2>2 DEF HandlesOne, Handled
  <2>6. handled' \in [0 .. MaxSequence -> 0 .. 2]
    BY <1>1, <2>3, <2>5
  <2>7. ASSUME first_failure' = None, NEW s \in 0 .. MaxSequence
        PROVE  handled'[s] = IF s <= Reached' THEN 1 ELSE 0
    BY <1>1, <1>2, <2>1, <2>3, <2>4, <2>5, <2>7
  <2> QED BY <2>6, <2>7
<1>9. CASE Fails(c)
  BY <1>1, <1>9, Zenon DEF Fails
<1>10. CASE Releases(c)
  <2>1. event_handler = c /\ event_handler' = None
    BY <1>1, <1>10 DEF Releases, CallerInv
  <2>2. Reached' = Reached
    BY <1>10, <2>1 DEF Releases, Reached, sameCount
  <2> QED BY <1>4, <1>10, <2>2, Zenon DEF Releases, sameCount
<1>11. CASE Abandons(c)
  <2>1. Holds(c) /\ event_handler = c
    BY <1>1, <1>11 DEF Abandons, Holds, CallerInv
  <2>2. Reached' = Reached
    BY <1>1, <1>2, <1>11, <2>1 DEF Abandons, Reached, sameCount
  <2> QED BY <1>4, <1>11, <2>2, Zenon DEF Abandons, sameCount
<1> QED BY <1>5, <1>6, <1>7, <1>8, <1>9, <1>10, <1>11, KindsOfSteps, Zenon

\* The invariant of the processor holds however run(), try_run_once(), halt()
\* and on_shutdown() interleave, for any number of probing threads.
THEOREM ProbeInvariance == ProbeSpec => []ProbeInv
<1>1. RingInit /\ ProbeInit => ProbeInv
  <2> SUFFICES ASSUME RingInit, ProbeInit PROVE ProbeInv
    OBVIOUS
  <2>1. ProbeTypeOK
    BY StandaloneAssumption DEF RingInit, ProbeInit, ProbeTypeOK, RingTypeOK
  <2>2. \A c \in Callers : CallerInv(c)
    BY ProbersAssumption DEF ProbeInit, CallerInv, Holds, Callers
  <2>3. Reached = -1
    BY DEF ProbeInit, Reached
  <2> QED BY <2>1, <2>2, <2>3, StandaloneAssumption DEF RingInit, ProbeInit, ProbeInv
<1>2. ProbeInv /\ [ProbeNext]_<<ringVars, failureVars, probeVars>> => ProbeInv'
  <2> SUFFICES ASSUME ProbeInv, [ProbeNext]_<<ringVars, failureVars, probeVars>>
               PROVE  ProbeInv'
    OBVIOUS
  <2>0. /\ cursor \in Int /\ processor_sequence \in Int /\ -1 <= processor_sequence
        /\ batch_end \in [Callers -> Int] /\ MaxSequence \in Nat
    BY StandaloneAssumption DEF ProbeInv, ProbeTypeOK, RingTypeOK
  <2>1. ASSUME NEW c \in Callers, CallerStep(c)
        PROVE  ProbeInv'
    <3>1. \A d \in Callers : CallerInv(d)'
      BY <2>1, OthersKeepTheirRows, CallerKeepsItsRow, Zenon
    <3>2. cursor' = cursor /\ producer' = producer /\ ring' = ring
      BY <2>1, Zenon DEF CallerStep, ringVars
    <3>3. ProbeTypeOK'
      <4>1. RingTypeOK'
        BY <3>2, Zenon DEF ProbeInv, ProbeTypeOK, RingTypeOK
      <4>2. ProbeTypeOK
        BY DEF ProbeInv
      <4> QED BY <2>1, <4>1, <4>2, CallersMoveAlone, CallerKeepsItsRow, CallerKeepsTheCount, Zenon
              DEF ProbeTypeOK
    <3>4. -1 <= processor_sequence'
      BY <2>0, <2>1, CallerKeepsItsRow
    <3> QED BY <2>1, <3>1, <3>2, <3>3, <3>4, CallerKeepsTheCount, Zenon DEF ProbeInv
  <2>2. CASE /\ UNCHANGED <<ringVars, event_handler, processor_sequence, at, batch_next, batch_end,
                            handled>>
             /\ first_failure' = None => first_failure = None
    <3>1. ProbeTypeOK' /\ \A c \in Callers : CallerInv(c)'
      BY <2>2, Zenon DEF ProbeInv, ProbeTypeOK, RingTypeOK, CallerInv, Holds, ringVars
    <3>2. Reached' = Reached
      BY <2>2, Zenon DEF Reached
    <3> QED BY <2>2, <3>1, <3>2, Zenon DEF ProbeInv, ringVars
  <2>3. CASE (HaltProcessor \/ on_shutdown) /\ UNCHANGED ringVars
    <3>1. first_failure' = None => first_failure = None
      BY <2>3, StandaloneAssumption
         DEF HaltProcessor, on_shutdown, record_failure, failureVars, FailurePhase
    <3> QED BY <2>2, <2>3, <3>1, Zenon DEF HaltProcessor, on_shutdown
  <2>4. CASE (try_publish(processor_sequence) \/ publish) /\ UNCHANGED probeVars
    <3>1. /\ UNCHANGED <<event_handler, processor_sequence, at, batch_next, batch_end, handled,
                         first_failure>>
      BY <2>4, Zenon DEF probeVars, try_publish, publish, failureVars
    <3>2. RingTypeOK' /\ cursor' >= cursor /\ cursor' <= MaxSequence
          /\ (producer' = "publish" => cursor' < MaxSequence)
      BY <2>0, <2>4, StandaloneAssumption
         DEF ProbeInv, ProbeTypeOK, RingTypeOK, try_publish, publish
    <3>3. \A c \in Callers : CallerInv(c)'
      <4> SUFFICES ASSUME NEW c \in Callers PROVE CallerInv(c)'
        OBVIOUS
      <4>1. CallerInv(c) /\ batch_end[c] \in Int /\ cursor' \in Int
        BY <2>0, <3>2 DEF ProbeInv, RingTypeOK
      <4>2. batch_end[c] <= cursor => batch_end[c] <= cursor'
        BY <2>0, <3>2, <4>1
      <4> QED BY <3>1, <4>1, <4>2, Zenon DEF CallerInv, Holds
    <3>4. Reached' = Reached
      BY <3>1, Zenon DEF Reached
    <3>5. ProbeTypeOK'
      BY <3>1, <3>2, Zenon DEF ProbeInv, ProbeTypeOK
    <3> QED BY <3>1, <3>2, <3>3, <3>4, <3>5, Zenon DEF ProbeInv
  <2> QED BY <2>1, <2>2, <2>3, <2>4, Zenon DEF ProbeNext, probeVars, failureVars
<1> QED BY <1>1, <1>2, PTL DEF ProbeSpec

\* However many threads call try_run_once() beside run(), and whenever halt()
\* frees the running flag under them: as long as nothing has failed, the
\* processor's sequence covers handled events only, each of them once.
THEOREM EventsAreHandledOnce == ProbeSpec => []HandledOnce
<1>1. ProbeInv => HandledOnce
  <2> SUFFICES ASSUME ProbeInv, first_failure = None, NEW s \in 0 .. MaxSequence
               PROVE  handled[s] <= 1 /\ (s <= processor_sequence => handled[s] = 1)
    BY DEF HandledOnce
  <2>1. handled[s] = IF s <= Reached THEN 1 ELSE 0
    BY DEF ProbeInv
  <2>2. Reached \in Int /\ processor_sequence \in Int /\ processor_sequence <= Reached
    BY DEF ProbeInv, ProbeTypeOK, Reached, CallerInv
  <2> QED BY <2>1, <2>2, StandaloneAssumption
<1> QED BY <1>1, ProbeInvariance, PTL

-----------------------------------------------------------------------------
(* The barrier's waits: the strategies' loops, and the end of a run.       *)

\* A set of natural numbers has a least element: the first gap of a scan.
LEMMA LeastNatural ==
    ASSUME NEW T \in SUBSET Nat, T # {}
    PROVE  \E x \in T : \A y \in T : x <= y
<1>1. PICK x \in T : \A y \in T : ~ (<<y, x>> \in OpToRel(<, Nat))
  BY NatLessThanWellFounded, WFMin, Zenon
<1>2. \A y \in T : ~(y < x)
  BY <1>1, Zenon DEF OpToRel
<1> QED BY <1>2

\* Every strategy's loop is one of four, and only the waits with a flag look at
\* the flag.
LEMMA LoopShapes ==
    ASSUME BarrierTypeOK
    PROVE  \/ Loop = <<"alert", "available">>
           \/ Loop = <<"alert", "available", "alert", "elapsed">>
           \/ /\ method = "shutdown"
              /\ \/ Loop = <<"shutdown", "alert", "available">>
                 \/ Loop = <<"shutdown", "alert", "alert", "available", "alert", "interval">>
<1>1. \/ wait_strategy = YieldingWaitStrategy
      \/ wait_strategy = Custom
  BY DEF BarrierTypeOK, Strategies, BusySpinWaitStrategy, SleepingWaitStrategy, BusySpin,
         BusySpinWithHint, Yielding, Sleeping, BoxDyn, SimpleWaitStrategyAdapter, YieldingWaitStrategy
<1>2. method = "alert" \/ method = "timeout" \/ method = "shutdown"
  BY DEF BarrierTypeOK
<1>3. CASE wait_strategy = YieldingWaitStrategy
  BY <1>2, <1>3 DEF YieldingWaitStrategy, Loop
<1>4. CASE wait_strategy = Custom
  BY <1>2, <1>4 DEF Custom, Loop, wait_for_with_timeout_and_alert, wait_for_with_shutdown_and_alert
<1> QED BY <1>1, <1>3, <1>4

\* What a check of a loop may be, and where the next one is.
LEMMA LoopChecks ==
    ASSUME BarrierTypeOK, waiting = "strategy"
    PROVE  /\ Loop[check] \in {"alert", "shutdown", "available", "elapsed", "interval"}
           /\ Loop[check] = "shutdown" => method = "shutdown"
           /\ Loop[check] = "interval" => FirstOfRound \in 1 .. Len(Loop)
           /\ 1 \in 1 .. Len(Loop) /\ check \in 1 .. Len(Loop)
           /\ check # Len(Loop) => check + 1 \in 1 .. Len(Loop)
<1>1. check \in 1 .. Len(Loop)
  BY DEF BarrierTypeOK
<1>2. CASE Loop = <<"alert", "available">>
  BY <1>1, <1>2
<1>3. CASE Loop = <<"alert", "available", "alert", "elapsed">>
  BY <1>1, <1>3
<1>4. CASE method = "shutdown" /\ Loop = <<"shutdown", "alert", "available">>
  BY <1>1, <1>4
<1>5. CASE /\ method = "shutdown"
           /\ Loop = <<"shutdown", "alert", "alert", "available", "alert", "interval">>
  BY <1>1, <1>5 DEF FirstOfRound
<1> QED BY <1>2, <1>3, <1>4, <1>5, LoopShapes

\* resolve_highest_published: the scan has an end, and answers with it.
LEMMA ScanAnswers ==
    ASSUME NEW s \in Nat, NEW limit \in Int, s <= limit, needs_contiguity_check
    PROVE  LET h == resolve_highest_published(s, limit) IN
           h \in s - 1 .. limit /\ s .. h \subseteq flagged
<1> DEFINE gaps == {x \in s .. limit : x \notin flagged}
           IsEnd(h) == /\ s .. h \subseteq flagged
                       /\ h = limit \/ h + 1 \notin flagged
<1>1. \E h \in s - 1 .. limit : IsEnd(h)
  <2>1. CASE gaps = {}
    <3>1. IsEnd(limit) /\ limit \in s - 1 .. limit
      BY <2>1
    <3> QED BY <3>1
  <2>2. CASE gaps # {}
    <3>1. gaps \in SUBSET Nat
      OBVIOUS
    <3>2. PICK x \in gaps : \A y \in gaps : x <= y
      BY <2>2, <3>1, LeastNatural, Zenon
    <3>3. x - 1 \in s - 1 .. limit /\ (x - 1) + 1 = x
      BY <3>2
    <3>4. ASSUME NEW y \in s .. x - 1
          PROVE  y \in flagged
      BY <3>2, <3>4
    <3>5. IsEnd(x - 1)
      BY <3>2, <3>3, <3>4
    <3> QED BY <3>3, <3>5
  <2> QED BY <2>1, <2>2
<1>2. resolve_highest_published(s, limit) = CHOOSE h \in s - 1 .. limit : IsEnd(h)
  BY DEF resolve_highest_published
<1> QED BY <1>1, <1>2, Zenon

\* A wait's step keeps the types.
LEMMA WaitKeepsTypes ==
    ASSUME BarrierInv, WaitStep
    PROVE  BarrierTypeOK'
<1>1. /\ BarrierTypeOK /\ UNCHANGED <<wait_strategy, needs_contiguity_check, dependent, tip,
                                      upstream, method, requested>>
      /\ Loop' = Loop
  BY Zenon DEF BarrierInv, WaitStep, builtVars, worldVars, callVars, Loop
<1>2. waiting' = "strategy" => check' \in 1 .. Len(Loop)
  <2>1. CASE check_alert
    <3>1. 1 \in 1 .. Len(Loop)
      BY <1>1, LoopShapes
    <3> QED BY <2>1, <3>1 DEF check_alert, Answer, Proceed
  <2>2. CASE PollOnce
    <3>1. waiting = "strategy"
      BY <2>2 DEF PollOnce
    <3>2. \/ waiting' # "strategy" \/ check' = 1 \/ (check # Len(Loop) /\ check' = check + 1)
          \/ Loop[check] = "interval" /\ check' = FirstOfRound
      BY <1>1, <2>2, <3>1, LoopChecks, Zenon
         DEF PollOnce, Answer, Round, Proceed, LeaveStrategy, StartInterval
    <3> QED BY <1>1, <3>1, <3>2, LoopChecks
  <2>3. CASE CheckShutdown \/ AfterWait \/ Resolve
    BY <2>3 DEF CheckShutdown, AfterWait, Resolve, Answer, Proceed
  <2> QED BY <2>1, <2>2, <2>3, Zenon DEF WaitStep
<1>3. /\ waiting' \in {"out", "flag", "entry", "strategy", "after", "late", "resolve"}
      /\ verdict' \in {"none", "Ok", "Timeout", "Alert"}
  <2>1. CASE PollOnce
    BY <1>1, <2>1, LoopChecks, Zenon
       DEF PollOnce, Answer, Round, Proceed, LeaveStrategy, StartInterval, BarrierTypeOK
  <2>2. CASE CheckShutdown \/ check_alert \/ AfterWait \/ Resolve
    BY <1>1, <2>2 DEF CheckShutdown, check_alert, AfterWait, Resolve, Answer, Proceed, BarrierTypeOK
  <2> QED BY <2>1, <2>2, Zenon DEF WaitStep
<1>4. found' \in Int
  <2>1. CASE PollOnce
    BY <1>1, <2>1, LoopChecks, Zenon
       DEF PollOnce, Answer, Round, Proceed, LeaveStrategy, StartInterval, BarrierTypeOK,
           wait_available_sequence
  <2>2. CASE CheckShutdown \/ check_alert \/ AfterWait
    BY <1>1, <2>2 DEF CheckShutdown, check_alert, AfterWait, Answer, Proceed, BarrierTypeOK
  <2>3. CASE Resolve
    <3>1. found \in Int /\ requested \in Nat /\ requested <= found
      BY <2>3 DEF Resolve, BarrierInv, BarrierTypeOK, WaitInv
    <3>2. CASE needs_contiguity_check
      BY <2>3, <3>1, <3>2, ScanAnswers DEF Resolve
    <3>3. CASE ~needs_contiguity_check
      BY <2>3, <3>1, <3>3 DEF Resolve, resolve_highest_published
    <3> QED BY <3>2, <3>3
  <2> QED BY <2>1, <2>2, <2>3, Zenon DEF WaitStep
<1> QED BY <1>1, <1>2, <1>3, <1>4 DEF BarrierTypeOK

\* A wait's step tells the truth: it answers an alert because a flag is up, and
\* anything else because the last check found none.
LEMMA WaitTellsTheTruth ==
    ASSUME BarrierInv, WaitStep
    PROVE  WaitInv' /\ AnswersAreTrue'
<1>1. /\ BarrierTypeOK /\ PublishedInv /\ WaitInv
      /\ UNCHANGED <<needs_contiguity_check, dependent, tip, flagged, upstream,
                     shutdown_flag, barrier_alerted, method, requested>>
  BY Zenon DEF BarrierInv, WaitStep, builtVars, worldVars, callVars
<1>2. /\ wait_available_sequence' = wait_available_sequence
      /\ Flagged(method)' <=> Flagged(method)
  BY <1>1 DEF wait_available_sequence, Flagged
<1>3. ASSUME Answer("Alert"), Flagged(method)
      PROVE  WaitInv' /\ AnswersAreTrue'
  BY <1>2, <1>3 DEF Answer, WaitInv, AnswersAreTrue
<1>4. ASSUME UNCHANGED <<found, verdict, overruled>>,
             \/ waiting = "flag" /\ ~shutdown_flag /\ waiting' = "entry"
             \/ waiting \in {"entry", "strategy"} /\ waiting' = "strategy"
      PROVE  WaitInv' /\ AnswersAreTrue'
  BY <1>1, <1>2, <1>4 DEF WaitInv, AnswersAreTrue, Flagged
<1>5. CASE CheckShutdown
  <2>1. CASE shutdown_flag
    BY <1>1, <1>3, <1>5, <2>1 DEF CheckShutdown, Flagged, WaitInv
  <2>2. CASE ~shutdown_flag
    BY <1>4, <1>5, <2>2 DEF CheckShutdown, Proceed
  <2> QED BY <2>1, <2>2
<1>6. CASE check_alert
  <2>1. CASE barrier_alerted
    BY <1>3, <1>6, <2>1 DEF check_alert, Flagged
  <2>2. CASE ~barrier_alerted
    BY <1>4, <1>6, <2>2 DEF check_alert, Proceed
  <2> QED BY <2>1, <2>2
<1>7. CASE PollOnce
  <2>1. waiting = "strategy"
    BY <1>7 DEF PollOnce
  <2>2. CASE Loop[check] \in {"alert", "shutdown"}
    <3>1. \/ Answer("Alert") /\ Flagged(method)
          \/ Round
      BY <1>1, <1>7, <2>1, <2>2, LoopChecks, Zenon DEF PollOnce, Flagged
    <3> QED BY <1>3, <1>4, <2>1, <3>1 DEF Round, Proceed
  <2>3. CASE Loop[check] = "available"
    <3>1. \/ /\ wait_available_sequence >= requested
             /\ LeaveStrategy("after", wait_available_sequence)
          \/ Round
      BY <1>7, <2>3 DEF PollOnce
    <3>2. CASE Round
      BY <1>4, <2>1, <3>2 DEF Round, Proceed
    <3>3. CASE /\ wait_available_sequence >= requested
               /\ LeaveStrategy("after", wait_available_sequence)
      <4>1. wait_available_sequence \in Int /\ requested \in Int
        BY <1>1 DEF BarrierTypeOK, wait_available_sequence
      <4>2. /\ waiting' = "after" /\ found' = wait_available_sequence
            /\ overruled' = overruled /\ (overruled => barrier_alerted)
        BY <1>1, <2>1, <3>3 DEF LeaveStrategy, WaitInv
      <4> QED BY <1>1, <1>2, <3>3, <4>1, <4>2 DEF WaitInv, AnswersAreTrue
    <3> QED BY <3>1, <3>2, <3>3
  <2>4. CASE Loop[check] \in {"elapsed", "interval"}
    <3>1. \/ LeaveStrategy("late", found)
          \/ UNCHANGED <<found, verdict, overruled>> /\ waiting' = "strategy"
      BY <1>7, <2>1, <2>4, Zenon DEF PollOnce, Round, Proceed, StartInterval
    <3>2. CASE LeaveStrategy("late", found)
      BY <1>1, <1>2, <2>1, <3>2 DEF LeaveStrategy, WaitInv, AnswersAreTrue
    <3> QED BY <1>4, <2>1, <3>1, <3>2
  <2> QED BY <1>1, <2>1, <2>2, <2>3, <2>4, LoopChecks
<1>8. CASE AfterWait
  <2>1. CASE barrier_alerted
    BY <1>3, <1>8, <2>1 DEF AfterWait, Flagged
  <2>2. CASE ~barrier_alerted
    <3>1. ~overruled /\ overruled' = overruled
      BY <1>1, <1>8, <2>2 DEF AfterWait, Answer, Proceed, WaitInv
    <3>2. \/ waiting' = "out" /\ verdict' = "Timeout"
          \/ waiting = "after" /\ waiting' = "resolve" /\ found' = found
      BY <1>8, <2>2 DEF AfterWait, Answer, Proceed
    <3> QED BY <1>1, <1>2, <3>1, <3>2 DEF WaitInv, AnswersAreTrue
  <2> QED BY <2>1, <2>2
<1>9. CASE Resolve
  <2>1. /\ waiting' = "out" /\ verdict' = "Ok" /\ overruled' = overruled /\ ~overruled
        /\ found' = resolve_highest_published(requested, found)
        /\ found \in Int /\ requested \in Nat /\ tip \in Int /\ upstream \in Int
        /\ requested <= found /\ found <= wait_available_sequence
    BY <1>1, <1>9 DEF Resolve, WaitInv, BarrierTypeOK
  <2>2. /\ found' \in Int /\ found' <= found /\ requested - 1 <= found'
        /\ requested .. found' \subseteq flagged
    <3>1. CASE needs_contiguity_check
      BY <2>1, <3>1, ScanAnswers
    <3>2. CASE ~needs_contiguity_check
      <4>1. found' = found
        BY <2>1, <3>2 DEF resolve_highest_published
      <4>2. requested .. found \subseteq 0 .. upstream \/ requested .. found \subseteq 0 .. tip
        BY <2>1 DEF wait_available_sequence
      <4>3. requested .. found \subseteq flagged
        BY <1>1, <3>2, <4>2, Zenon DEF PublishedInv
      <4> QED BY <2>1, <4>1, <4>3
    <3> QED BY <3>1, <3>2
  <2>3. dependent => found' <= upstream
    BY <2>1, <2>2 DEF wait_available_sequence
  <2> QED BY <1>1, <2>1, <2>2, <2>3 DEF WaitInv, AnswersAreTrue
<1> QED BY <1>5, <1>6, <1>7, <1>8, <1>9, Zenon DEF WaitStep

\* The world around the consumer only makes more of its answers true.
LEMMA WorldKeepsTheTruth ==
    ASSUME BarrierInv, SinglePublish \/ MultiClaim \/ PublishClaimed \/ UpstreamConsumes
    PROVE  BarrierInv'
<1>1. /\ BarrierTypeOK /\ PublishedInv /\ WaitInv /\ AnswersAreTrue
      /\ tip \in Int /\ upstream \in Int /\ found \in Int /\ requested \in Nat
  BY DEF BarrierInv, BarrierTypeOK
<1>2. UNCHANGED <<wait_strategy, needs_contiguity_check, dependent, waiting, method, requested,
                  found, check, verdict, overruled, shutdown_flag, barrier_alerted>>
  BY Zenon DEF SinglePublish, MultiClaim, PublishClaimed, UpstreamConsumes, builtVars, waitVars
<1>3. /\ tip' \in Int /\ upstream' \in Int /\ tip' >= tip /\ upstream' >= upstream
      /\ flagged \subseteq flagged'
  BY <1>1 DEF SinglePublish, MultiClaim, PublishClaimed, UpstreamConsumes
<1>4. Loop' = Loop /\ (Flagged(method)' <=> Flagged(method))
  BY <1>2 DEF Loop, Flagged
<1>5. BarrierTypeOK'
  BY <1>1, <1>2, <1>3, <1>4 DEF BarrierTypeOK
<1>6. PublishedInv'
  <2>1. CASE SinglePublish \/ MultiClaim
    <3>1. upstream' = upstream /\ tip' = tip + 1
      BY <2>1 DEF SinglePublish, MultiClaim
    <3>2. ~needs_contiguity_check => flagged' = flagged \cup {tip + 1}
      BY <2>1 DEF SinglePublish, MultiClaim
    <3>3. ~needs_contiguity_check => 0 .. tip + 1 \subseteq flagged'
      BY <1>1, <3>2 DEF PublishedInv
    <3> QED BY <1>1, <1>2, <1>3, <3>1, <3>3, Zenon DEF PublishedInv
  <2>2. CASE PublishClaimed
    <3>1. upstream' = upstream /\ tip' = tip
      BY <2>2 DEF PublishClaimed
    <3> QED BY <1>1, <1>2, <1>3, <3>1, Zenon DEF PublishedInv
  <2>3. CASE UpstreamConsumes
    <3>1. /\ upstream + 1 \in flagged /\ upstream' = upstream + 1 /\ tip' = tip
          /\ flagged' = flagged
      BY <2>3 DEF UpstreamConsumes
    <3>2. 0 .. upstream + 1 \subseteq flagged /\ -1 <= upstream + 1
      BY <1>1, <3>1 DEF PublishedInv
    <3> QED BY <1>1, <1>2, <3>1, <3>2, Zenon DEF PublishedInv
  <2> QED BY <2>1, <2>2, <2>3
<1>7. WaitInv'
  <2>1. /\ wait_available_sequence \in Int /\ wait_available_sequence' \in Int
        /\ wait_available_sequence <= wait_available_sequence'
    BY <1>1, <1>2, <1>3 DEF wait_available_sequence
  <2>2. found <= wait_available_sequence => found <= wait_available_sequence'
    BY <1>1, <2>1
  <2> QED BY <1>1, <1>2, <1>4, <2>2, Zenon DEF WaitInv
<1>8. AnswersAreTrue'
  <2>1. found <= upstream => found <= upstream'
    BY <1>1, <1>3
  <2>2. requested .. found \subseteq flagged => requested .. found \subseteq flagged'
    BY <1>3, Zenon
  <2> QED BY <1>1, <1>2, <1>4, <2>1, <2>2, Zenon DEF AnswersAreTrue
<1> QED BY <1>5, <1>6, <1>7, <1>8, Zenon DEF BarrierInv

\* The invariant of wait_for, wait_for_with_timeout and wait_for_with_shutdown.
THEOREM BarrierInvariance == BarrierSpec => []BarrierInv
<1>1. BarrierInit => BarrierInv
  BY DEF BarrierInit, BarrierInv, BarrierTypeOK, PublishedInv, WaitInv, AnswersAreTrue
<1>2. BarrierInv /\ [BarrierNext]_barrierVars => BarrierInv'
  <2> SUFFICES ASSUME BarrierInv, [BarrierNext]_barrierVars PROVE BarrierInv'
    OBVIOUS
  <2>0. BarrierTypeOK /\ PublishedInv /\ WaitInv /\ AnswersAreTrue
    BY DEF BarrierInv
  <2>1. CASE Calls
    <3>1. PICK s \in 0 .. LastPublished, kind \in {"alert", "timeout", "shutdown"} :
             Call(kind, s) /\ waiting' = IF kind = "shutdown" THEN "flag" ELSE "entry"
      BY <2>1 DEF Calls, wait_for, wait_for_with_timeout, wait_for_with_shutdown
    <3>2. /\ UNCHANGED <<wait_strategy, needs_contiguity_check, tip, flagged, upstream,
                         shutdown_flag, barrier_alerted>>
          /\ method' = kind /\ requested' = s /\ verdict' = "none" /\ found' = -1
          /\ overruled' = Flagged(kind)
      BY <3>1, Zenon DEF Call, builtVars, worldVars
    <3>3. BarrierTypeOK'
      BY <2>0, <3>1, <3>2, BarrierAssumption DEF BarrierTypeOK
    <3>4. PublishedInv'
      BY <2>0, <3>2, Zenon DEF PublishedInv
    <3>5. WaitInv' /\ AnswersAreTrue'
      BY <3>1, <3>2, Zenon DEF WaitInv, AnswersAreTrue, Flagged
    <3> QED BY <3>3, <3>4, <3>5 DEF BarrierInv
  <2>2. CASE WaitStep
    <3>1. PublishedInv'
      BY <2>0, <2>2, Zenon DEF WaitStep, builtVars, worldVars, PublishedInv
    <3> QED BY <2>2, <3>1, WaitKeepsTypes, WaitTellsTheTruth DEF BarrierInv
  <2>3. CASE alert \/ clear_alert \/ RaiseShutdown
    <3>1. /\ UNCHANGED <<wait_strategy, needs_contiguity_check, dependent, tip, flagged, upstream,
                         waiting, method, requested, found, check>>
          /\ verdict' = verdict \/ verdict' = "none"
      BY <2>3, Zenon DEF alert, clear_alert, RaiseShutdown, builtVars, waitVars
    <3>2. Loop' = Loop /\ wait_available_sequence' = wait_available_sequence
      BY <3>1 DEF Loop, wait_available_sequence
    <3>3. BarrierTypeOK' /\ PublishedInv'
      <4>1. BarrierTypeOK'
        BY <2>0, <3>1, <3>2 DEF BarrierTypeOK
      <4>2. PublishedInv'
        BY <2>0, <3>1, Zenon DEF PublishedInv
      <4> QED BY <4>1, <4>2
    <3>4. WaitInv'
      <4>1. CASE alert
        <5>1. barrier_alerted' /\ (waiting = "resolve" => (overruled' <=> overruled))
          BY <4>1, Zenon DEF alert
        <5>2. Flagged(method)'
          BY <5>1 DEF Flagged
        <5> QED BY <2>0, <3>1, <3>2, <5>1, <5>2, Zenon DEF WaitInv
      <4>2. CASE clear_alert
        <5>1. waiting = "out"
          BY <4>2 DEF clear_alert
        <5> QED BY <3>1, <5>1 DEF WaitInv
      <4>3. CASE RaiseShutdown
        <5>1. /\ barrier_alerted' = barrier_alerted /\ overruled' = overruled
              /\ Flagged(method) => Flagged(method)'
          BY <3>1, <4>3, Zenon DEF RaiseShutdown, Flagged
        <5> QED BY <2>0, <3>1, <3>2, <5>1, Zenon DEF WaitInv
      <4> QED BY <2>3, <4>1, <4>2, <4>3
    <3>5. AnswersAreTrue'
      <4>1. \/ /\ verdict' = verdict /\ (waiting = "out" => (overruled' <=> overruled))
               /\ Flagged(method) => Flagged(method)'
            \/ verdict' = "none"
        <5>1. CASE alert
          <6>1. /\ verdict' = verdict /\ barrier_alerted'
                /\ waiting = "out" => (overruled' <=> overruled)
            BY <5>1, Zenon DEF alert, waitVars
          <6> QED BY <6>1, Zenon DEF Flagged
        <5>2. CASE clear_alert
          BY <5>2, Zenon DEF clear_alert
        <5>3. CASE RaiseShutdown
          BY <3>1, <5>3, Zenon DEF RaiseShutdown, waitVars, Flagged
        <5> QED BY <2>3, <5>1, <5>2, <5>3
      <4>2. CASE verdict' = "none"
        BY <4>2 DEF AnswersAreTrue
      <4>3. CASE /\ verdict' = verdict /\ (waiting = "out" => (overruled' <=> overruled))
                 /\ Flagged(method) => Flagged(method)'
        BY <2>0, <3>1, <4>3, Zenon DEF AnswersAreTrue
      <4> QED BY <4>1, <4>2, <4>3
    <3> QED BY <3>3, <3>4, <3>5 DEF BarrierInv
  <2>4. CASE Elapse \/ UNCHANGED barrierVars
    <3>1. UNCHANGED <<builtVars, waitVars, worldVars, overruled>>
      BY <2>4, Zenon DEF Elapse, barrierVars, builtVars, waitVars, worldVars
    <3>2. Loop' = Loop
      BY <3>1 DEF Loop, builtVars, waitVars
    <3> QED BY <2>0, <3>1, <3>2
            DEF BarrierInv, BarrierTypeOK, PublishedInv, WaitInv, AnswersAreTrue, Flagged,
                wait_available_sequence, builtVars, waitVars, worldVars
  <2>5. CASE SinglePublish \/ MultiClaim \/ PublishClaimed \/ UpstreamConsumes
    BY <2>5, WorldKeepsTheTruth
  <2> QED BY <2>1, <2>2, <2>3, <2>4, <2>5, Zenon DEF BarrierNext
<1> QED BY <1>1, <1>2, PTL DEF BarrierSpec

\* Whatever strategy polls, and whoever publishes, alerts or shuts down
\* meanwhile: the sequence that a wait of ProcessingSequenceBarrier returns closes
\* a published run, an alert in time is never overruled, and none is made up.
THEOREM WaitsAnswerTruly == BarrierSpec => []AnswersAreTrue
<1>1. BarrierInv => AnswersAreTrue
  BY DEF BarrierInv
<1> QED BY <1>1, BarrierInvariance, PTL
=============================================================================
