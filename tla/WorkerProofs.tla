---------------------------- MODULE WorkerProofs ----------------------------
(***************************************************************************)
(* Proofs about the two kinds of consumer of MCWorkers.                    *)
(*                                                                         *)
(* BlockingWait: no wakeup is lost, for a chain of any length and any      *)
(* number of events.  The property speaks of parked waiters only, and so   *)
(* is not inductive: a waiter could park on what it looked at too long     *)
(* ago.  The strengthening follows it from its look at the cursor, and     *)
(* then at the alert, to the park, which is the stretch where it holds the *)
(* mutex.                                                                  *)
(*                                                                         *)
(* WorkPool: claims are exclusive and the advertised minimum is honest,    *)
(* for any number of workers, ring size and number of events.  The         *)
(* strengthening, PoolInv, says of every event below the work cursor who   *)
(* still owes it.                                                          *)
(***************************************************************************)
EXTENDS MCWorkers, TLAPS

-----------------------------------------------------------------------------
(* BlockingWait.                                                           *)

Places == {"loop", "enter", "look", "lock", "locked", "doubt", "park", "parked",
           "late", "spin", "missed", "found", "failed", "done"}

\* What the argument needs of the types.
Types ==
    /\ cursor \in Int /\ sequence \in [Waiters -> Int] /\ available \in [Waiters -> Int]
    /\ mutex \in Waiters \cup {0} /\ at \in Waiters
    /\ pc \in [Waiters -> Places] /\ alerted \in [Waiters -> BOOLEAN]

\* The mutex is held exactly from the second look to the park.
Holder == \A w \in Waiters : pc[w] \in {"locked", "doubt", "park"} <=> mutex = w

\* Whoever has seen too low a cursor under the mutex is owed a signal for it.
CursorSeen ==
    \A w \in Waiters : pc[w] \in {"doubt", "park", "parked"} =>
        (cursor > sequence[w] => producer = "signal")

\* Whoever has then seen no alert is owed a signal for that.
AlertSeen ==
    \A w \in Waiters : pc[w] \in {"park", "parked"} => (alerted[w] => owner = "signal")

WakeInv == Types /\ Holder /\ CursorSeen /\ AlertSeen

\* The chain starts unlocked, with nobody waiting.
LEMMA WakeInit == Init => WakeInv
  BY WaitAssumption DEF Init, WakeInv, Types, Places, Holder, CursorSeen, AlertSeen, Waiters

\* A waiter's step disturbs the invariant for itself only: it gets to the
\* park by way of both looks, with the mutex in its hands.
LEMMA WakeWaiter ==
    ASSUME WakeInv, NEW w \in Waiters, WaiterStep(w)
    PROVE  WakeInv'
<1> USE DEF WakeInv, Types, Places, Holder, CursorSeen, AlertSeen, controlVars, GoTo
<1>0. 0 \notin Waiters  BY WaitAssumption DEF Waiters
<1>1. CASE PollStop(w)      BY <1>0, <1>1 DEF PollStop
<1>2. CASE CheckAlert(w)    BY <1>0, <1>2 DEF CheckAlert, Unless
<1>3. CASE FirstLook(w)     BY <1>0, <1>3 DEF FirstLook
<1>4. CASE Lock(w)          BY <1>0, <1>4 DEF Lock
<1>5. CASE LookAgain(w)     BY <1>0, <1>5 DEF LookAgain
<1>6. CASE BeforeWait(w)    BY <1>0, <1>6 DEF BeforeWait
<1>7. CASE Park(w)          BY <1>0, <1>7 DEF Park
<1>8. CASE TimeOut(w)       BY <1>0, <1>8 DEF TimeOut
<1>9. CASE Late(w)          BY <1>0, <1>9 DEF Late, Unless
<1>10. CASE Spin(w)
  <2>1. w # 1 => w - 1 \in Waiters  BY WaitAssumption DEF Waiters
  <2>2. Upstream(w) \in Int         BY <2>1 DEF Upstream
  <2> QED  BY <1>0, <1>10, <2>2 DEF Spin
<1>11. CASE SpinAlert(w)    BY <1>0, <1>11 DEF SpinAlert, Unless
<1>12. CASE SpinDeadline(w) BY <1>0, <1>12 DEF SpinDeadline
<1>13. CASE Handle(w)       BY <1>0, <1>13 DEF Handle
<1>14. CASE Poison(w)      BY <1>0, <1>14 DEF Poison, Notified
<1> QED  BY <1>1, <1>2, <1>3, <1>4, <1>5, <1>6, <1>7, <1>8, <1>9, <1>10,
            <1>11, <1>12, <1>13, <1>14 DEF WaiterStep

\* A signal finds nobody between a look and the park, and leaves nobody parked.
LEMMA SignalReachesAll ==
    ASSUME WakeInv, signal_all_when_blocking
    PROVE  /\ pc' \in [Waiters -> Places]
           /\ \A w \in Waiters : pc'[w] \notin {"locked", "doubt", "park", "parked"}
<1>1. 0 \notin Waiters  BY WaitAssumption DEF Waiters
<1> QED  BY <1>1 DEF WakeInv, Types, Places, Holder, signal_all_when_blocking, Notified

\* The signallers: a store opens the debt, and only a signal settles it.
LEMMA WakeSignallers ==
    ASSUME WakeInv, Publish \/ SignalPublished \/ Close \/ StopBuilder \/ Stopping
    PROVE  WakeInv'
<1> USE DEF WakeInv, Types, Places, Holder, CursorSeen, AlertSeen, controlVars
<1>0. 0 \notin Waiters  BY WaitAssumption DEF Waiters
<1>1. CASE Publish          BY <1>1 DEF Publish
<1>2. CASE SignalPublished
  <2>1. mutex = 0 /\ signal_all_when_blocking
    BY <1>2 DEF SignalPublished, signal_all_when_blocking
  <2> QED  BY <1>0, <1>2, <2>1, SignalReachesAll DEF SignalPublished
<1>3. CASE Close
  <2>1. mutex = 0 /\ signal_all_when_blocking  BY <1>3 DEF Close, signal_all_when_blocking
  <2> QED  BY <1>0, <1>3, <2>1, SignalReachesAll DEF Close
<1>4. CASE StopBuilder      BY <1>4 DEF StopBuilder
<1>5. CASE StopProcessor    BY <1>5 DEF StopProcessor
<1>6. CASE Alert            BY <1>6 DEF Alert
<1>7. CASE SignalAlerted
  <2>1. mutex = 0 /\ signal_all_when_blocking
    BY <1>7 DEF SignalAlerted, signal_all_when_blocking
  <2>2. at' \in Waiters  BY <1>7, WaitAssumption DEF SignalAlerted, Waiters
  <2> QED  BY <1>0, <1>7, <2>1, <2>2, SignalReachesAll DEF SignalAlerted
<1>8. CASE Join             BY <1>8 DEF Join
<1> QED  BY <1>1, <1>2, <1>3, <1>4, <1>5, <1>6, <1>7, <1>8 DEF Stopping

\* No wakeup of BlockingWaitStrategy is lost: a parked consumer whose event is
\* published, or whose barrier is alerted, has its signal still to come.
THEOREM WakeupsAreNotLost == Spec => []NoLostWakeup
<1>1. WakeInv /\ [Next]_vars => WakeInv'
  <2> SUFFICES ASSUME WakeInv, [Next]_vars PROVE WakeInv'  OBVIOUS
  <2>1. CASE \E w \in Waiters : WaiterStep(w)  BY <2>1, WakeWaiter
  <2>2. CASE Publish \/ SignalPublished \/ Close \/ StopBuilder \/ Stopping
    BY <2>2, WakeSignallers
  <2>3. CASE UNCHANGED vars
    BY <2>3 DEF vars, WakeInv, Types, Places, Holder, CursorSeen, AlertSeen
  <2> QED  BY <2>1, <2>2, <2>3 DEF Next
<1>2. WakeInv => NoLostWakeup  BY DEF WakeInv, CursorSeen, AlertSeen, NoLostWakeup
<1> QED  BY WakeInit, <1>1, <1>2, PTL DEF Spec

-----------------------------------------------------------------------------
(* WorkPool.                                                               *)

\* A step of w leaves the other workers' locals alone.
OthersIdle(w) ==
    \A v \in Workers \ {w} :
        /\ place'[v] = place[v] /\ consumer_sequence'[v] = consumer_sequence[v]
        /\ current'[v] = current[v] /\ claimed'[v] = claimed[v]
        /\ cached_available'[v] = cached_available[v]

\* A step of w that takes up no event, handles none and advertises none; what w
\* owed it still owes.
QuietWork(w) ==
    /\ UNCHANGED <<work_sequence, consumer_sequence, handled>>
    /\ place[w] \in {"stopping", "done"} => place'[w] \in {"stopping", "done"}
    /\ Pool!Holds(w) =>
          \/ place'[w] \in {"stopping", "done"}
          \/ Pool!Holds(w)' /\ claimed'[w] = claimed[w] /\ (place'[w] = "commit" <=> place[w] = "commit")
    /\ Pool!Holds(w)' => Pool!Holds(w)

\* The types of the pool survive a worker's step.
LEMMA WorkKeepsTypes ==
    ASSUME Pool!TypeOK, NEW w \in Workers, Pool!WorkerStep(w)
    PROVE  Pool!TypeOK'
<1> USE DEF Pool!TypeOK, Pool!Places, Pool!GoTo, Pool!producerVars, Pool!coreVars,
            Pool!INITIAL_CURSOR_VALUE
<1>1. CASE Pool!StartThread(w)   BY <1>1, Zenon DEF Pool!StartThread
<1>2. CASE Pool!PollShutdown(w)  BY <1>2 DEF Pool!PollShutdown
<1>3. CASE Pool!LoadWork(w)      BY <1>3 DEF Pool!LoadWork
<1>4. CASE Pool!Advertise(w)     BY <1>4 DEF Pool!Advertise
<1>5. CASE Pool!ClaimWork(w)
  <2>1. place' \in [Workers -> Pool!Places]  BY <1>5, Zenon DEF Pool!ClaimWork
  <2>2. /\ claimed' \in [Workers -> Int] /\ current' \in [Workers -> Int]
        /\ work_sequence' \in Int
    BY <1>5 DEF Pool!ClaimWork
  <2> QED BY <1>5, <2>1, <2>2 DEF Pool!ClaimWork
<1>6. CASE Pool!WaitFor(w)       BY <1>6, Zenon DEF Pool!WaitFor
<1>7. CASE Pool!HandlerFails(w)
  <2>1. place' \in [Workers -> Pool!Places]  BY <1>7, Zenon DEF Pool!HandlerFails
  <2> QED BY <1>7, <2>1 DEF Pool!HandlerFails
<1>8. CASE Pool!BatchStart(w)    BY <1>8 DEF Pool!BatchStart
<1>9. CASE Pool!HandleEvent(w)
  <2>1. \A s \in 0 .. LastWork : handled'[s] \in Nat  BY <1>9 DEF Pool!HandleEvent
  <2>2. handled' \in [0 .. LastWork -> Nat]  BY <1>9, <2>1, Zenon DEF Pool!HandleEvent
  <2> QED BY <1>9, <2>2 DEF Pool!HandleEvent
<1>10. CASE Pool!Commit(w)       BY <1>10 DEF Pool!Commit
<1>11. CASE Pool!OnShutdown(w)   BY <1>11, Zenon DEF Pool!OnShutdown
<1> QED
  BY <1>1, <1>2, <1>3, <1>4, <1>5, <1>6, <1>7, <1>8, <1>9, <1>10, <1>11, Zenon DEF Pool!WorkerStep

\* A worker's step leaves the others, the producer and the owner alone, and
\* takes back no claim and no advertisement; it is quiet, or advertises,
\* claims, handles or commits.
LEMMA WorkFrame ==
    ASSUME Pool!TypeOK, NEW w \in Workers, Pool!WorkerInv(w), Pool!WorkerStep(w)
    PROVE  /\ UNCHANGED <<work_cursor, ring, worker_producer, closed, shutdown_flag, core, drained>>
           /\ OthersIdle(w) /\ work_sequence' >= work_sequence
           /\ consumer_sequence'[w] >= consumer_sequence[w]
           /\ Pool!WorkerInv(w)'
           /\ \/ QuietWork(w) \/ Pool!Advertise(w) \/ Pool!HandleEvent(w) \/ Pool!Commit(w)
              \/ Pool!ClaimWork(w) /\ work_sequence = current[w]
<1> USE DEF Pool!TypeOK, Pool!GoTo, Pool!producerVars, Pool!coreVars, OthersIdle, QuietWork,
            Pool!Holds, Pool!WorkerInv, Pool!INITIAL_CURSOR_VALUE
<1>1. CASE Pool!StartThread(w)   BY <1>1 DEF Pool!StartThread
<1>2. CASE Pool!PollShutdown(w)  BY <1>2 DEF Pool!PollShutdown
<1>3. CASE Pool!LoadWork(w)      BY <1>3 DEF Pool!LoadWork
<1>4. CASE Pool!Advertise(w)     BY <1>4 DEF Pool!Advertise
<1>5. CASE Pool!ClaimWork(w)     BY <1>5 DEF Pool!ClaimWork
<1>6. CASE Pool!WaitFor(w)       BY <1>6 DEF Pool!WaitFor
<1>7. CASE Pool!HandlerFails(w)  BY <1>7 DEF Pool!HandlerFails
<1>8. CASE Pool!BatchStart(w)    BY <1>8 DEF Pool!BatchStart
<1>9. CASE Pool!HandleEvent(w)   BY <1>9 DEF Pool!HandleEvent
<1>10. CASE Pool!Commit(w)       BY <1>10 DEF Pool!Commit
<1>11. CASE Pool!OnShutdown(w)   BY <1>11 DEF Pool!OnShutdown
<1> QED
  BY <1>1, <1>2, <1>3, <1>4, <1>5, <1>6, <1>7, <1>8, <1>9, <1>10, <1>11, Zenon DEF Pool!WorkerStep

\* What is said of the other workers survives w's step; the compare-and-set
\* hands out a sequence that nobody holds.
LEMMA WorkKeepsClaims ==
    ASSUME Pool!PoolInv, Pool!TypeOK', NEW w \in Workers, Pool!WorkerStep(w)
    PROVE  (\A v \in Workers : Pool!WorkerInv(v)') /\ Pool!DistinctClaims'
<1>1. /\ Pool!TypeOK /\ Pool!DistinctClaims /\ (\A v \in Workers : Pool!WorkerInv(v))
      /\ Pool!WorkerInv(w)
  BY DEF Pool!PoolInv
<1>2. /\ UNCHANGED work_cursor /\ OthersIdle(w) /\ work_sequence' >= work_sequence
      /\ Pool!WorkerInv(w)'
      /\ \/ QuietWork(w) \/ Pool!Advertise(w) \/ Pool!HandleEvent(w) \/ Pool!Commit(w)
         \/ Pool!ClaimWork(w) /\ work_sequence = current[w]
  BY <1>1, WorkFrame, Zenon
<1>3. ASSUME NEW v \in Workers, v # w PROVE Pool!WorkerInv(v)'
  BY <1>1, <1>2, <1>3 DEF Pool!TypeOK, OthersIdle, Pool!WorkerInv, Pool!Holds
<1>4. Pool!Holds(w)' =>
         \/ Pool!Holds(w) /\ claimed'[w] = claimed[w]
         \/ claimed'[w] = work_sequence + 1
  <2> USE <1>1 DEF Pool!Holds, Pool!TypeOK, Pool!GoTo
  <2>1. CASE QuietWork(w)         BY <2>1 DEF QuietWork
  <2>2. CASE Pool!Advertise(w)    BY <2>2 DEF Pool!Advertise
  <2>3. CASE Pool!HandleEvent(w)  BY <2>3 DEF Pool!HandleEvent
  <2>4. CASE Pool!Commit(w)       BY <2>4 DEF Pool!Commit
  <2>5. CASE Pool!ClaimWork(w) /\ work_sequence = current[w]
    BY <2>5 DEF Pool!ClaimWork
  <2> QED BY <1>2, <2>1, <2>2, <2>3, <2>4, <2>5, Zenon
<1>5. \A v \in Workers \ {w} : /\ Pool!Holds(v)' = Pool!Holds(v) /\ claimed'[v] = claimed[v]
                               /\ Pool!Holds(v) => claimed[v] <= work_sequence
  BY <1>1, <1>2, Zenon DEF OthersIdle, Pool!Holds, Pool!WorkerInv
<1>6. work_sequence \in Int /\ \A v \in Workers : claimed[v] \in Int
  BY <1>1 DEF Pool!TypeOK
<1>7. Pool!DistinctClaims'
  BY <1>1, <1>4, <1>5, <1>6 DEF Pool!DistinctClaims
<1> QED BY <1>2, <1>3, <1>7, Zenon

\* Every event below the work cursor stays handled once, or owed.
LEMMA WorkKeepsHandled ==
    ASSUME Pool!PoolInv, Pool!TypeOK', NEW w \in Workers, Pool!WorkerStep(w)
    PROVE  Pool!HandledInv' /\ \A s \in 0 .. LastWork : handled'[s] >= handled[s]
<1>1. /\ Pool!TypeOK /\ Pool!HandledInv /\ Pool!WorkerInv(w)
      /\ work_sequence \in Int /\ \A s \in 0 .. LastWork : handled[s] \in Nat
      /\ \A v \in Workers : claimed[v] \in Int /\ consumer_sequence[v] \in Int
  BY Zenon DEF Pool!PoolInv, Pool!TypeOK
<1>2. /\ OthersIdle(w)
      /\ \/ QuietWork(w) \/ Pool!Advertise(w) \/ Pool!HandleEvent(w) \/ Pool!Commit(w)
         \/ Pool!ClaimWork(w) /\ work_sequence = current[w]
  BY <1>1, WorkFrame, Zenon
<1>3. \A v \in Workers \ {w} :
         /\ Pool!Holds(v)' = Pool!Holds(v) /\ claimed'[v] = claimed[v] /\ place'[v] = place[v]
         /\ \A s : Pool!Owes(v, s)' = Pool!Owes(v, s)
  BY <1>2, Zenon DEF OthersIdle, Pool!Holds, Pool!Owes
<1>4. CASE QuietWork(w)
  <2>1. \A s : Pool!Owes(w, s) => Pool!Owes(w, s)'
    BY <1>4 DEF QuietWork, Pool!Owes, Pool!Holds
  <2>2. Pool!Holds(w)' => /\ Pool!Holds(w) /\ claimed'[w] = claimed[w]
                          /\ (place'[w] = "commit" <=> place[w] = "commit")
    BY <1>4 DEF QuietWork, Pool!Holds
  <2>3. work_sequence' = work_sequence /\ handled' = handled
    BY <1>4, Zenon DEF QuietWork
  <2> QED BY <1>1, <1>3, <2>1, <2>2, <2>3 DEF Pool!HandledInv
<1>5. CASE Pool!Advertise(w)
  <2>1. /\ place[w] = "advertise" /\ place'[w] = "cas"
        /\ work_sequence' = work_sequence /\ handled' = handled
    BY <1>1, <1>5 DEF Pool!Advertise, Pool!GoTo, Pool!TypeOK
  <2>2. ~Pool!Holds(w)' /\ \A s : ~Pool!Owes(w, s)
    BY <2>1 DEF Pool!Holds, Pool!Owes
  <2> QED BY <1>1, <1>3, <2>1, <2>2 DEF Pool!HandledInv
<1>6. CASE Pool!ClaimWork(w) /\ work_sequence = current[w]
  <2>1. /\ place[w] = "cas" /\ place'[w] \in {"await", "batch"}
        /\ work_sequence' = work_sequence + 1 /\ claimed'[w] = work_sequence + 1
        /\ handled' = handled /\ consumer_sequence'[w] = consumer_sequence[w]
    BY <1>1, <1>6 DEF Pool!ClaimWork, Pool!GoTo, Pool!TypeOK
  <2>2. \A s : ~Pool!Owes(w, s)
    BY <2>1 DEF Pool!Holds, Pool!Owes
  <2>3. ASSUME NEW s, s = work_sequence + 1 PROVE Pool!Owes(w, s)'
    BY <1>1, <2>1, <2>3 DEF Pool!Holds, Pool!Owes, Pool!WorkerInv
  <2>4. ASSUME NEW s \in 0 .. LastWork
        PROVE  /\ handled'[s] <= 1 /\ (s > work_sequence' => handled'[s] = 0)
               /\ s <= work_sequence' => handled'[s] = 1 \/ \E v \in Workers : Pool!Owes(v, s)'
    <3>1. CASE s = work_sequence + 1
      BY <1>1, <2>1, <2>3, <3>1 DEF Pool!HandledInv
    <3>2. CASE s # work_sequence + 1
      BY <1>1, <1>3, <2>1, <2>2, <3>2 DEF Pool!HandledInv
    <3> QED BY <3>1, <3>2
  <2>5. ASSUME NEW v \in Workers, Pool!Holds(v)', claimed'[v] <= LastWork
        PROVE  handled'[claimed'[v]] = IF place'[v] = "commit" THEN 1 ELSE 0
    <3>1. CASE v = w
      <4>1. work_sequence + 1 \in 0 .. LastWork
        BY <1>1, <2>1, <2>5, <3>1 DEF Pool!PoolInv, Pool!PoolRingInv
      <4> QED BY <1>1, <2>1, <3>1, <4>1 DEF Pool!HandledInv
    <3>2. CASE v # w
      BY <1>1, <1>3, <2>1, <2>5, <3>2 DEF Pool!HandledInv
    <3> QED BY <3>1, <3>2
  <2> QED BY <1>1, <2>1, <2>4, <2>5 DEF Pool!HandledInv
<1>7. CASE Pool!HandleEvent(w)
  <2>1. /\ place[w] = "event" /\ place'[w] = "commit" /\ claimed[w] \in 0 .. LastWork
        /\ handled' = [handled EXCEPT ![claimed[w]] = @ + 1]
        /\ UNCHANGED <<work_sequence, claimed, consumer_sequence>>
    BY <1>1, <1>7 DEF Pool!HandleEvent, Pool!GoTo, Pool!TypeOK, Pool!WorkerInv, Pool!PoolInv,
                      Pool!PoolRingInv, Pool!Holds
  <2>2. /\ Pool!Holds(w) /\ \A s : Pool!Owes(w, s)' = Pool!Owes(w, s)
    BY <2>1 DEF Pool!Holds, Pool!Owes
  <2>3. /\ handled[claimed[w]] = 0 /\ claimed[w] <= work_sequence
        /\ \A v \in Workers \ {w} : Pool!Holds(v) => claimed[v] # claimed[w]
    <3>1. claimed[w] <= work_sequence
      BY <2>2, Zenon DEF Pool!PoolInv, Pool!WorkerInv
    <3>2. \A v \in Workers \ {w} : Pool!Holds(v) => claimed[v] # claimed[w]
      BY <2>2, Zenon DEF Pool!PoolInv, Pool!DistinctClaims
    <3>3. handled[claimed[w]] = 0
      BY <1>1, <2>1, <2>2 DEF Pool!HandledInv
    <3> QED BY <3>1, <3>2, <3>3, Zenon
  <2>4. \A s \in 0 .. LastWork : handled'[s] = IF s = claimed[w] THEN 1 ELSE handled[s]
    BY <1>1, <2>1, <2>3 DEF Pool!TypeOK
  <2>5. ASSUME NEW s \in 0 .. LastWork
        PROVE  /\ handled'[s] <= 1 /\ (s > work_sequence' => handled'[s] = 0)
               /\ s <= work_sequence' => handled'[s] = 1 \/ \E v \in Workers : Pool!Owes(v, s)'
    BY <1>1, <1>3, <2>1, <2>2, <2>3, <2>4 DEF Pool!HandledInv
  <2>6. ASSUME NEW v \in Workers, Pool!Holds(v)', claimed'[v] <= LastWork
        PROVE  handled'[claimed'[v]] = IF place'[v] = "commit" THEN 1 ELSE 0
    <3>1. CASE v = w
      BY <2>1, <2>4, <3>1
    <3>2. CASE v # w
      <4>1. claimed[v] \in 0 .. LastWork
        BY <1>1, <1>3, <2>6, <3>2 DEF Pool!PoolInv, Pool!WorkerInv
      <4>2. Pool!Holds(v) /\ claimed'[v] = claimed[v] /\ place'[v] = place[v]
        BY <1>3, <2>6, <3>2
      <4>3. claimed[v] # claimed[w] /\ handled'[claimed[v]] = handled[claimed[v]]
        BY <2>3, <2>4, <3>2, <4>1, <4>2
      <4>4. handled[claimed[v]] = IF place[v] = "commit" THEN 1 ELSE 0
        BY <1>1, <2>6, <4>2, Zenon DEF Pool!HandledInv
      <4> QED BY <4>2, <4>3, <4>4, Zenon
    <3> QED BY <3>1, <3>2
  <2> QED BY <1>1, <2>4, <2>5, <2>6 DEF Pool!HandledInv
<1>8. CASE Pool!Commit(w)
  <2>1. /\ place[w] = "commit" /\ place'[w] = "loop"
        /\ UNCHANGED <<work_sequence, handled>>
    BY <1>1, <1>8 DEF Pool!Commit, Pool!GoTo, Pool!TypeOK
  <2>2. /\ Pool!Holds(w) /\ ~Pool!Holds(w)' /\ \A s : Pool!Owes(w, s) => s = claimed[w]
    BY <2>1 DEF Pool!Holds, Pool!Owes
  <2>3. claimed[w] <= LastWork => handled[claimed[w]] = 1
    BY <1>1, <2>1, <2>2 DEF Pool!HandledInv
  <2> QED BY <1>1, <1>3, <2>1, <2>2, <2>3 DEF Pool!HandledInv
<1> QED BY <1>2, <1>4, <1>5, <1>6, <1>7, <1>8, Zenon

\* A worker's step keeps the invariant of the pool.
LEMMA WorkKeepsPoolInv ==
    ASSUME Pool!PoolInv, NEW w \in Workers, Pool!WorkerStep(w)
    PROVE  Pool!PoolInv'
<1>1. /\ Pool!TypeOK /\ Pool!TypeOK' /\ Pool!WorkerInv(w)
      /\ Pool!PoolRingInv /\ Pool!StopInv
  BY WorkKeepsTypes, Zenon DEF Pool!PoolInv
<1>2. /\ UNCHANGED <<work_cursor, ring, worker_producer, closed, shutdown_flag, core, drained>>
      /\ OthersIdle(w) /\ work_sequence' >= work_sequence
      /\ consumer_sequence'[w] >= consumer_sequence[w]
  BY <1>1, WorkFrame, Zenon
<1>3. /\ \A v \in Workers : Pool!WorkerInv(v)'
      /\ Pool!DistinctClaims' /\ Pool!HandledInv'
      /\ \A s \in 0 .. LastWork : handled'[s] >= handled[s]
  BY <1>1, WorkKeepsClaims, WorkKeepsHandled, Zenon
<1>4. /\ work_sequence \in Int /\ work_sequence' \in Int /\ work_cursor \in Int
      /\ \A v \in Workers : consumer_sequence[v] \in Int /\ consumer_sequence'[v] \in Int
      /\ \A s \in 0 .. LastWork : handled[s] \in Nat /\ handled'[s] \in Nat
  BY <1>1, Zenon DEF Pool!TypeOK
<1>5. \A v \in Workers : consumer_sequence'[v] >= consumer_sequence[v]
  BY <1>2, <1>4 DEF OthersIdle
<1>6. Pool!PoolRingInv'
  BY <1>1, <1>2, <1>4, <1>5, PoolAssumption DEF Pool!PoolRingInv, Pool!slot_index
<1>7. Pool!StopInv'
  <2>1. \A s \in 0 .. work_cursor : handled[s] = 1 => handled'[s] = 1
    BY <1>1, <1>3, <1>4, PoolAssumption DEF Pool!HandledInv, Pool!PoolRingInv
  <2> QED BY <1>1, <1>2, <2>1 DEF Pool!StopInv
<1> QED BY <1>1, <1>3, <1>6, <1>7, Zenon DEF Pool!PoolInv

\* Two sequences within one lap have different slots.
LEMMA SlotsOfALapDiffer ==
    ASSUME NEW a \in Int, NEW b \in Int, a < b, b - a < Size
    PROVE  Pool!slot_index(a) # Pool!slot_index(b)
<1> DEFINE k == (b \div Size) - (a \div Size)
<1>1. /\ a \div Size \in Int /\ b \div Size \in Int
      /\ a % Size \in Int /\ b % Size \in Int
      /\ a = Size * (a \div Size) + (a % Size) /\ b = Size * (b \div Size) + (b % Size)
  BY PoolAssumption
<1>2. SUFFICES ASSUME a % Size = b % Size PROVE FALSE
  BY DEF Pool!slot_index
<1>3. k \in Int /\ Size * k = b - a
  <2>1. Size * k = Size * (b \div Size) - Size * (a \div Size)
    BY <1>1, PoolAssumption
  <2>2. Size * (b \div Size) \in Int /\ Size * (a \div Size) \in Int
    BY <1>1, PoolAssumption
  <2> QED BY <1>1, <1>2, <2>1, <2>2
<1> HIDE DEF k
<1>4. CASE k <= 0
  <2>1. Size * k <= 0
    BY <1>3, <1>4, PoolAssumption
  <2> QED BY <1>3, <2>1
<1>5. CASE k >= 1
  <2>1. Size * k >= Size
    BY <1>3, <1>5, PoolAssumption
  <2> QED BY <1>3, <2>1, PoolAssumption
<1> QED BY <1>3, <1>4, <1>5

\* The producer overwrites only what every worker has left behind.
LEMMA PublishingKeepsPoolInv ==
    ASSUME Pool!PoolInv, Pool!ClaimSlot \/ Pool!WriteSlot \/ Pool!Publish \/ Pool!UpdatePanics
    PROVE  Pool!PoolInv'
<1>1. /\ Pool!TypeOK /\ Pool!PoolRingInv /\ Pool!StopInv
      /\ work_cursor \in Int /\ ring \in [0 .. Size - 1 -> Int]
      /\ \A v \in Workers : consumer_sequence[v] \in Int /\ cached_available[v] \in Int
      /\ \A v \in Workers : claimed[v] \in Int
      /\ Pool!DistinctClaims /\ Pool!HandledInv /\ \A v \in Workers : Pool!WorkerInv(v)
  BY DEF Pool!PoolInv, Pool!TypeOK
<1>2. /\ UNCHANGED <<work_sequence, Pool!workerVars, Pool!coreVars, handled>>
      /\ core = "live" /\ work_cursor' \in {work_cursor, work_cursor + 1}
      /\ poisoned' \in {poisoned, TRUE} /\ worker_producer' \in {"idle", "write", "publish"}
      /\ ring' \in {ring, [ring EXCEPT ![Pool!slot_index(work_cursor + 1)] = work_cursor + 1]}
  BY <1>1, Zenon DEF Pool!ClaimSlot, Pool!WriteSlot, Pool!Publish, Pool!UpdatePanics, Pool!StopInv
<1>3. Pool!TypeOK'
  <2>1. work_cursor' \in Int /\ ring' \in [0 .. Size - 1 -> Int]
    BY <1>1, <1>2
  <2> QED BY <1>1, <1>2, <2>1, Zenon DEF Pool!TypeOK, Pool!workerVars, Pool!coreVars
<1>4. (\A v \in Workers : Pool!WorkerInv(v)') /\ Pool!DistinctClaims' /\ Pool!HandledInv'
  <2>1. ASSUME NEW v \in Workers PROVE Pool!WorkerInv(v)'
    BY <1>1, <1>2 DEF Pool!WorkerInv, Pool!Holds, Pool!workerVars
  <2>2. Pool!DistinctClaims' /\ Pool!HandledInv'
    BY <1>1, <1>2, Zenon DEF Pool!DistinctClaims, Pool!HandledInv, Pool!Owes, Pool!Holds,
                             Pool!workerVars
  <2> QED BY <2>1, <2>2
<1>5. Pool!StopInv'
  BY <1>1, <1>2 DEF Pool!StopInv, Pool!coreVars
<1>6. Pool!PoolRingInv'
  <2> USE PoolAssumption DEF Pool!PoolRingInv, Pool!workerVars
  <2>1. CASE Pool!ClaimSlot
    BY <1>1, <2>1 DEF Pool!ClaimSlot, Pool!Completed
  <2>2. CASE Pool!WriteSlot
    <3>1. /\ worker_producer = "write" /\ worker_producer' = "publish"
          /\ UNCHANGED <<work_cursor, work_sequence, consumer_sequence>>
          /\ ring' = [ring EXCEPT ![Pool!slot_index(work_cursor + 1)] = work_cursor + 1]
      BY <2>2 DEF Pool!WriteSlot
    <3>2. Pool!slot_index(work_cursor + 1) \in 0 .. Size - 1
      BY <1>1 DEF Pool!slot_index
    <3>3. ASSUME NEW s \in 0 .. work_cursor, s > work_cursor + 1 - Size
          PROVE  ring'[Pool!slot_index(s)] = s
      <4>1. Pool!slot_index(s) # Pool!slot_index(work_cursor + 1)
        BY <1>1, <3>3, SlotsOfALapDiffer
      <4>2. Pool!slot_index(s) \in 0 .. Size - 1
        BY DEF Pool!slot_index
      <4>3. ring[Pool!slot_index(s)] = s
        BY <1>1, <3>1, <3>3
      <4> QED BY <1>1, <3>1, <4>1, <4>2, <4>3
    <3>4. ring'[Pool!slot_index(work_cursor + 1)] = work_cursor + 1
      BY <1>1, <3>1, <3>2
    <3> QED BY <1>1, <3>1, <3>3, <3>4
  <2>3. CASE Pool!Publish
    <3>1. /\ worker_producer = "publish" /\ worker_producer' = "idle"
          /\ work_cursor' = work_cursor + 1
          /\ UNCHANGED <<ring, work_sequence, consumer_sequence>>
      BY <2>3 DEF Pool!Publish
    <3>2. ASSUME NEW s \in 0 .. work_cursor', s > work_cursor' - Size
          PROVE  ring[Pool!slot_index(s)] = s
      BY <1>1, <3>1, <3>2
    <3>3. -1 <= work_cursor' /\ work_cursor' <= LastWork
      BY <1>1, <3>1
    <3>4. \A v \in Workers : work_cursor' - Size <= consumer_sequence[v]
      BY <1>1, <3>1
    <3> QED BY <1>1, <3>1, <3>2, <3>3, <3>4
  <2>4. CASE Pool!UpdatePanics
    BY <1>1, <2>4 DEF Pool!UpdatePanics
  <2> QED BY <2>1, <2>2, <2>3, <2>4
<1> QED BY <1>3, <1>4, <1>5, <1>6, Zenon DEF Pool!PoolInv

\* What every worker advertises has been handled: whoever owes an event does
\* not advertise it.
LEMMA AdvertisedIsHandled ==
    ASSUME Pool!PoolInv, NEW s \in 0 .. work_cursor, Pool!Completed(s)
    PROVE  handled[s] = 1
<1>1. PICK v \in Workers : TRUE
  BY PoolAssumption
<1>2. /\ \A w \in Workers : s <= consumer_sequence[w] /\ consumer_sequence[w] \in Int
      /\ consumer_sequence[v] <= work_sequence /\ work_sequence \in Int
      /\ s \in 0 .. LastWork
  <2>1. (\A w \in Workers : s <= consumer_sequence[w]) /\ consumer_sequence[v] <= work_sequence
    BY <1>1, Zenon DEF Pool!PoolInv, Pool!Completed, Pool!WorkerInv
  <2>2. /\ consumer_sequence \in [Workers -> Int] /\ work_sequence \in Int /\ work_cursor \in Int
        /\ work_cursor <= LastWork
    BY Zenon DEF Pool!PoolInv, Pool!TypeOK, Pool!PoolRingInv
  <2> QED BY <1>1, <2>1, <2>2, PoolAssumption
<1>3. \A w \in Workers : ~Pool!Owes(w, s)
  BY <1>2 DEF Pool!Owes
<1> QED BY <1>1, <1>2, <1>3 DEF Pool!PoolInv, Pool!HandledInv

\* The owner's steps keep the invariant: a drain succeeds on what is handled.
LEMMA StoppingKeepsPoolInv ==
    ASSUME Pool!PoolInv, Pool!BeginStop \/ Pool!Drain \/ Pool!CoreStep
    PROVE  Pool!PoolInv'
<1>1. /\ UNCHANGED <<work_sequence, Pool!workerVars, Pool!producerVars, poisoned, handled>>
      /\ core' \in {"drain", "stop", "join", "stopped"} /\ closed' \in {closed, TRUE}
      /\ shutdown_flag' \in {shutdown_flag, TRUE}
  BY Zenon DEF Pool!BeginStop, Pool!Drain, Pool!CoreStep, Pool!StopWorkers, Pool!JoinWorkers
<1>2. drained' \in BOOLEAN /\ Pool!StopInv'
  <2> USE DEF Pool!PoolInv, Pool!TypeOK, Pool!StopInv, Pool!producerVars
  <2>1. CASE Pool!BeginStop
    BY <1>1, <2>1 DEF Pool!BeginStop
  <2>2. CASE Pool!Drain
    <3>1. Pool!Completed(work_cursor) => \A s \in 0 .. work_cursor : Pool!Completed(s)
      BY DEF Pool!Completed
    <3>2. drained' => \A s \in 0 .. work_cursor : handled[s] = 1
      BY <2>2, <3>1, AdvertisedIsHandled, Zenon DEF Pool!Drain
    <3>3. drained' \in BOOLEAN
      BY <2>2, Zenon DEF Pool!Drain
    <3> QED BY <1>1, <2>2, <3>2, <3>3 DEF Pool!Drain
  <2>3. CASE Pool!CoreStep
    BY <1>1, <2>3 DEF Pool!CoreStep, Pool!StopWorkers, Pool!JoinWorkers
  <2> QED BY <2>1, <2>2, <2>3
<1>3. Pool!TypeOK'
  BY <1>1, <1>2, Zenon DEF Pool!PoolInv, Pool!TypeOK, Pool!workerVars, Pool!producerVars
<1>4. /\ (\A v \in Workers : Pool!WorkerInv(v)') /\ Pool!DistinctClaims'
      /\ Pool!HandledInv' /\ Pool!PoolRingInv'
  BY <1>1, Zenon DEF Pool!PoolInv, Pool!WorkerInv, Pool!DistinctClaims, Pool!HandledInv,
                     Pool!PoolRingInv, Pool!Owes, Pool!Holds, Pool!workerVars, Pool!producerVars
<1> QED BY <1>2, <1>3, <1>4, Zenon DEF Pool!PoolInv

\* The pool's invariant holds always, for any number of workers and any ring.
THEOREM PoolInvariance == Pool!Spec => []Pool!PoolInv
<1>1. Pool!Init => Pool!PoolInv
  <2> SUFFICES ASSUME Pool!Init PROVE Pool!PoolInv
    OBVIOUS
  <2> USE PoolAssumption DEF Pool!Init, Pool!INITIAL_CURSOR_VALUE
  <2>1. Pool!TypeOK
    <3>1. place \in [Workers -> Pool!Places]
      BY DEF Pool!Places
    <3>2. ring \in [0 .. Size - 1 -> Int] /\ handled \in [0 .. LastWork -> Nat]
      OBVIOUS
    <3>3. /\ consumer_sequence \in [Workers -> Int] /\ current \in [Workers -> Int]
          /\ claimed \in [Workers -> Int] /\ cached_available \in [Workers -> Int]
      OBVIOUS
    <3>4. work_sequence \in Int /\ work_cursor \in Int
      OBVIOUS
    <3> QED BY <3>1, <3>2, <3>3, <3>4, Zenon DEF Pool!TypeOK
  <2>2. \A w \in Workers : /\ place[w] = "start" /\ consumer_sequence[w] = -1
                           /\ cached_available[w] = -1
    OBVIOUS
  <2>3. (\A w \in Workers : Pool!WorkerInv(w)) /\ Pool!DistinctClaims
    BY <2>2 DEF Pool!WorkerInv, Pool!DistinctClaims, Pool!Holds
  <2>4. Pool!HandledInv
    BY <2>2 DEF Pool!HandledInv, Pool!Holds
  <2>5. Pool!PoolRingInv /\ Pool!StopInv
    BY <2>2 DEF Pool!PoolRingInv, Pool!StopInv
  <2> QED BY <2>1, <2>3, <2>4, <2>5, Zenon DEF Pool!PoolInv
<1>2. Pool!PoolInv /\ [Pool!Next]_(Pool!vars) => Pool!PoolInv'
  <2> SUFFICES ASSUME Pool!PoolInv, [Pool!Next]_(Pool!vars) PROVE Pool!PoolInv'
    OBVIOUS
  <2>1. CASE UNCHANGED Pool!vars
    BY <2>1, Zenon DEF Pool!vars, Pool!PoolInv, Pool!TypeOK, Pool!WorkerInv, Pool!DistinctClaims,
                Pool!HandledInv, Pool!PoolRingInv, Pool!StopInv, Pool!Owes, Pool!Holds,
                Pool!workerVars, Pool!producerVars, Pool!coreVars
  <2> QED BY <2>1, WorkKeepsPoolInv, PublishingKeepsPoolInv, StoppingKeepsPoolInv, Zenon DEF Pool!Next
<1> QED BY <1>1, <1>2, PTL DEF Pool!Spec

\* The compare-and-set on the work cursor grants exclusive ownership, for any
\* number of workers: no event is handled twice, no two handlers hold one slot,
\* and a handler finds in its slot the event it claimed.
THEOREM WorkersOwnTheirEvents == Pool!Spec => []ClaimsAreExclusive
<1>1. Pool!PoolInv => ClaimsAreExclusive
  <2> SUFFICES ASSUME Pool!PoolInv PROVE Pool!ClaimsAreExclusive
    BY DEF ClaimsAreExclusive
  <2>1. /\ work_cursor \in Int /\ -1 <= work_cursor
        /\ \A w \in Workers : claimed[w] \in Int /\ consumer_sequence[w] \in Int
    BY DEF Pool!PoolInv, Pool!TypeOK, Pool!PoolRingInv
  <2>2. ASSUME NEW w \in Workers, place[w] = "event"
        PROVE  /\ claimed[w] \in 0 .. work_cursor /\ claimed[w] > work_cursor - Size
               /\ worker_producer = "publish" => claimed[w] > work_cursor + 1 - Size
    <3>1. /\ -1 <= consumer_sequence[w] /\ consumer_sequence[w] < claimed[w]
          /\ claimed[w] <= work_cursor
      BY <2>2 DEF Pool!PoolInv, Pool!WorkerInv, Pool!Holds
    <3>2. /\ work_cursor - Size <= consumer_sequence[w]
          /\ worker_producer = "publish" => work_cursor + 1 - Size <= consumer_sequence[w]
      BY DEF Pool!PoolInv, Pool!PoolRingInv
    <3> QED BY <2>1, <3>1, <3>2, PoolAssumption
  <2>3. ASSUME NEW w \in Workers, place[w] = "event"
        PROVE  ring[Pool!slot_index(claimed[w])] = claimed[w]
    <3>1. \A s \in 0 .. work_cursor :
             \/ worker_producer = "publish" /\ ~(s > work_cursor + 1 - Size)
             \/ worker_producer # "publish" /\ ~(s > work_cursor - Size)
             \/ ring[Pool!slot_index(s)] = s
      <4>1. CASE worker_producer = "publish"
        BY <2>1, <4>1, PoolAssumption DEF Pool!PoolInv, Pool!PoolRingInv
      <4>2. CASE worker_producer # "publish"
        BY <2>1, <4>2, PoolAssumption DEF Pool!PoolInv, Pool!PoolRingInv
      <4> QED BY <4>1, <4>2
    <3>2. /\ claimed[w] \in 0 .. work_cursor /\ claimed[w] > work_cursor - Size
          /\ worker_producer = "publish" => claimed[w] > work_cursor + 1 - Size
      BY <2>2, <2>3, Zenon
    <3> QED BY <3>1, <3>2, Zenon
  <2>4. ASSUME NEW v \in Workers, NEW w \in Workers, v # w, place[v] = "event", place[w] = "event"
        PROVE  Pool!slot_index(claimed[v]) # Pool!slot_index(claimed[w])
    <3>1. claimed[v] # claimed[w]
      BY <2>4 DEF Pool!PoolInv, Pool!DistinctClaims, Pool!Holds
    <3> QED BY <2>3, <2>4, <3>1
  <2>5. \A s \in 0 .. LastWork : handled[s] <= 1
    BY DEF Pool!PoolInv, Pool!HandledInv
  <2> QED BY <2>3, <2>4, <2>5, Zenon DEF Pool!ClaimsAreExclusive
<1> QED BY <1>1, PoolInvariance, PTL

\* What the minimum of the workers' sequences covers has been handled, although
\* workers advertise events that others hold: the producer and later stages may
\* rely on it.
THEOREM AdvertisementsAreHonest == Pool!Spec => []CompletedIsHandled
<1>1. Pool!PoolInv => CompletedIsHandled
  BY AdvertisedIsHandled, Zenon DEF CompletedIsHandled, Pool!CompletedIsHandled
<1> QED BY <1>1, PoolInvariance, PTL

\* A drain that succeeds left no published event unhandled, although idle
\* workers hold claims past the cursor.
THEOREM PoolDrainsAreComplete == Pool!Spec => []DrainedIsHandled
<1>1. Pool!PoolInv => DrainedIsHandled
  BY Zenon DEF DrainedIsHandled, Pool!DrainedIsHandled, Pool!PoolInv, Pool!StopInv
<1> QED BY <1>1, PoolInvariance, PTL
=============================================================================
