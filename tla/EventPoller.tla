---------------------------- MODULE EventPoller ----------------------------
(***************************************************************************)
(* The EventPoller that open_single_producer_poller wires up: its user     *)
(* polls or takes a batch, reads some of it, and drops, commits or         *)
(* acknowledges it, while the producer publishes and another thread may    *)
(* halt.  The poller's sequence is the producer's only gating sequence.    *)
(***************************************************************************)
EXTENDS StandaloneRing

\* A range of the ring and the reader's place in it.
EventBatch == [from : Int, current : Int, to : Int]

ASSUME PollerAssumption == None \notin EventBatch

VARIABLES
    sequence, next_sequence,         \* the gating and the next sequence
    shutdown, alerted,               \* the poller's flag, its barrier's alert
    polling, available, max_events,  \* the poll() or take() in progress
    batch,                           \* the EventBatch that is alive, or None
    taken, acked                     \* history: how often an event was taken,
                                     \* and which were skipped by ack_all

pollRest   == <<sequence, next_sequence, taken, acked>>
pollerVars == <<shutdown, alerted, polling, available, max_events, batch, pollRest>>

Sequences == 0 .. MaxSequence

\* EventPoller::new on a fresh ring.
PollerInit ==
    /\ sequence = -1 /\ next_sequence = 0
    /\ shutdown = FALSE /\ alerted = FALSE
    /\ polling = "idle" /\ available = -1 /\ max_events = 0 /\ batch = None
    /\ taken = [s \in Sequences |-> 0] /\ acked = {}

open_single_producer_poller == RingInit /\ PollerInit

(* poll() looks at its flag and at the alert before and after it reads the *)
(* cursor, each look a step.                                               *)

\* take(n) is poll() with a cap; poll() itself has none, and Size stands for that.
BeginPoll ==
    /\ polling = "idle" /\ batch = None
    /\ \E n \in {0, 1, Size} : max_events' = n
    /\ polling' = IF shutdown \/ alerted THEN "Shutdown" ELSE "read"
    /\ UNCHANGED <<shutdown, alerted, available, batch, pollRest>>

try_get_available_sequence ==
    /\ polling = "read"
    /\ available' = cursor /\ polling' = "recheck"
    /\ UNCHANGED <<shutdown, alerted, max_events, batch, pollRest>>

\* The end of the batch that take(n) cuts from [next_sequence, available].
take(n) ==
    IF n = 0 THEN next_sequence - 1
    ELSE IF available > next_sequence + n - 1 THEN next_sequence + n - 1
    ELSE available

poll ==
    /\ polling = "recheck"
    /\ IF shutdown \/ alerted THEN polling' = "Shutdown" /\ UNCHANGED batch
       ELSE IF available < next_sequence THEN polling' = "Idle" /\ UNCHANGED batch
       ELSE /\ polling' = "idle"
            /\ batch' = [from |-> next_sequence, current |-> next_sequence,
                         to |-> take(max_events)]
    /\ available' = -1 /\ max_events' = 0
    /\ UNCHANGED <<shutdown, alerted, pollRest>>

\* The caller looks at the answer and polls again.
Answered ==
    /\ polling \in {"Idle", "Shutdown"}
    /\ polling' = "idle" /\ max_events' = 0
    /\ UNCHANGED <<shutdown, alerted, available, batch, pollRest>>

next_mut ==
    /\ batch # None /\ batch.current <= batch.to
    /\ batch' = [batch EXCEPT !.current = @ + 1]
    /\ taken' = [taken EXCEPT ![batch.current] = @ + 1]
    /\ UNCHANGED <<sequence, next_sequence, shutdown, alerted, polling, available,
                   max_events, acked>>

\* The batch is gone afterwards, so its committed flag needs no variable.
commit_to(last) ==
    /\ sequence' = IF last >= batch.from THEN last ELSE sequence
    /\ next_sequence' = IF last >= batch.from THEN last + 1 ELSE next_sequence
    /\ batch' = None
    /\ UNCHANGED <<shutdown, alerted, polling, available, max_events, taken>>

\* Mutant of drop: the whole batch is committed, as before the 2026-07-18 audit.
dropAll == batch # None /\ commit_to(batch.to) /\ UNCHANGED acked

\* Also the end of a batch whose user panics or returns early.
drop == batch # None /\ commit_to(batch.current - 1) /\ UNCHANGED acked

commit == drop

ack_all ==
    /\ batch # None /\ commit_to(batch.to)
    /\ acked' = acked \cup batch.current .. batch.to

\* halt() stores the flag and alerts the barrier.  The flag is shared with
\* the caller of open_single_producer_poller, who may store it alone.
halt ==
    /\ \/ shutdown' = TRUE /\ UNCHANGED alerted
       \/ shutdown /\ alerted' = TRUE /\ UNCHANGED shutdown
    /\ UNCHANGED <<sequence, next_sequence, polling, available, max_events, batch,
                   taken, acked>>

PollerStep ==
    /\ \/ BeginPoll \/ try_get_available_sequence \/ poll \/ Answered
       \/ next_mut \/ drop \/ commit \/ ack_all \/ halt
    /\ UNCHANGED <<ringVars, failureVars>>

PollerNext ==
    \/ PollerStep
    \/ (try_publish(sequence) \/ publish) /\ UNCHANGED pollerVars

PollerSpec ==
    /\ open_single_producer_poller
    /\ [][PollerNext]_<<ringVars, failureVars, pollerVars>>

-----------------------------------------------------------------------------
\* The events of a live EventBatch stay in their slots ("the poller's gating
\* sequence is not advanced until this batch commits, so the producer cannot
\* wrap into the range while this borrow is alive"), and all are published.
BatchIsHeld ==
    batch # None => /\ batch.to <= cursor
                    /\ \A s \in batch.from .. batch.to : ring[s % Size] = s

\* Whatever mixture of polls, takes, partial reads, drops and acks came
\* before, a committed event was taken exactly once or skipped by ack_all, and
\* an uncommitted one outside the live batch has not been taken: nothing is
\* lost silently and nothing is delivered twice.
CommittedIsTakenOnce ==
    \A s \in Sequences :
        IF s <= sequence THEN taken[s] = IF s \in acked THEN 0 ELSE 1
        ELSE taken[s] = IF batch # None /\ s < batch.current THEN 1 ELSE 0

-----------------------------------------------------------------------------
(* The inductive invariant: why the properties above hold.                 *)

PollerTypeOK ==
    /\ RingTypeOK
    /\ sequence \in Int /\ next_sequence \in Int /\ available \in Int
    /\ max_events \in {0, 1, Size}
    /\ polling \in {"idle", "read", "recheck", "Idle", "Shutdown"}
    /\ batch # None => batch \in EventBatch
    /\ taken \in [Sequences -> Nat]

\* A batch begins at the next sequence and ends at what was published.
BatchInv ==
    /\ next_sequence = sequence + 1 /\ -1 <= sequence /\ sequence <= cursor
    /\ acked \subseteq 0 .. sequence
    /\ polling = "recheck" => available <= cursor
    /\ polling # "idle" => batch = None
    /\ batch # None =>
          /\ batch.from = next_sequence /\ batch.from <= batch.current
          /\ batch.current <= batch.to + 1 /\ batch.to <= cursor

PollerInv ==
    PollerTypeOK /\ GatedRingInv(sequence) /\ BatchInv /\ CommittedIsTakenOnce
=============================================================================
