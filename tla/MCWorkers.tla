----------------------------- MODULE MCWorkers -----------------------------
(***************************************************************************)
(* The two kinds of consumer that a pipeline of sequential, polling stages *)
(* does not show, checked side by side: a chain of two consumers that wait *)
(* under the blocking strategy, and a stage of two workers that share one  *)
(* work cursor.  The variable subject chooses which of them a behaviour is *)
(* about; the other keeps its initial state.                               *)
(***************************************************************************)
EXTENDS BlockingWait

CONSTANTS Workers, Size, LastWork

ASSUME PoolAssumption == Workers # {} /\ Size \in Nat \ {0} /\ LastWork \in Nat

VARIABLES subject, work_sequence, consumer_sequence, place, current, claimed,
          cached_available, work_cursor, ring, worker_producer, poisoned, closed,
          shutdown_flag, core, drained, handled

Pool == INSTANCE WorkPool
            WITH MaxSequence <- LastWork, cursor <- work_cursor, pc <- place,
                 producer <- worker_producer

poolVars == <<work_sequence, consumer_sequence, place, current, claimed, cached_available,
              work_cursor, ring, worker_producer, poisoned, closed, shutdown_flag, core,
              drained, handled>>
allVars == <<subject, vars, poolVars>>

MCInit == subject \in {"waiters", "workers"} /\ Init /\ Pool!Init
          /\ (subject = "workers" => ~timed)

OfWaiters(step) == subject = "waiters" /\ step /\ UNCHANGED <<subject, poolVars>>
OfWorkers(step) == subject = "workers" /\ step /\ UNCHANGED <<subject, vars>>

MCNext == OfWaiters(Next) \/ OfWorkers(Pool!Next)

\* The fairness of both specifications.
MCSpec ==
    /\ MCInit /\ [][MCNext]_allVars
    /\ \A w \in Waiters :
          /\ WF_allVars(OfWaiters(WaiterStep(w)))
          /\ SF_allVars(OfWaiters(Lock(w) \/ Late(w) \/ SpinAlert(w) \/ Poison(w)))
          /\ SF_allVars(OfWaiters(SpinDeadline(w)))
    /\ SF_allVars(OfWaiters(SignalPublished)) /\ SF_allVars(OfWaiters(SignalAlerted))
    /\ WF_allVars(OfWaiters(owner = "halt" /\ StopBuilder)) /\ WF_allVars(OfWaiters(Stopping))
    /\ \A w \in Workers : WF_allVars(OfWorkers(Pool!WorkerStep(w)))
    /\ WF_allVars(OfWorkers(Pool!WriteSlot \/ Pool!Publish \/ Pool!UpdatePanics))
    /\ WF_allVars(OfWorkers(Pool!CoreStep))

-----------------------------------------------------------------------------
\* "CAS claim grants exclusive ownership" (run_work_processor_loop): no event is
\* handled twice, no two handlers hold one slot, and a handler holds the event
\* it claimed.
ClaimsAreExclusive == Pool!ClaimsAreExclusive

\* What the minimum of the workers' sequences covers has been handled, although
\* a worker advertises events that others hold.
CompletedIsHandled == Pool!CompletedIsHandled

\* A drain that succeeds leaves no published event unhandled, although idle
\* workers hold claims past the cursor.
DrainedIsHandled == Pool!DrainedIsHandled

\* The backlog drains: idle workers advertise what they did not handle, so the
\* minimum catches up with the cursor.
BacklogIsCompleted == Pool!BacklogIsCompleted
=============================================================================
