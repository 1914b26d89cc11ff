--------------------------- MODULE PipelineProofs ---------------------------
(***************************************************************************)
(* What SinglePipeline and MultiPipeline share, for every topology and     *)
(* ring size: the arithmetic of the ring, the types of the consumers and   *)
(* of the core, and the consumers' part of the invariants, Progress.       *)
(***************************************************************************)
EXTENDS Pipeline, WellFoundedInduction, TLAPS

-----------------------------------------------------------------------------
(* Arithmetic of the ring.                                                 *)

\* A set of natural numbers has a least element: the first gap of a scan.
LEMMA LeastNatural ==
    ASSUME NEW T \in SUBSET Nat, T # {}
    PROVE  \E x \in T : \A y \in T : x <= y
<1>1. PICK x \in T : \A y \in T : ~ (<<y, x>> \in OpToRel(<, Nat))
  BY NatLessThanWellFounded, WFMin, Zenon
<1>2. \A y \in T : ~(y < x)
  BY <1>1 DEF OpToRel
<1> QED BY <1>2

\* Dividing a sequence number by the ring size leaves an index and a lap.
LEMMA DivMod ==
    ASSUME NEW N \in Nat \ {0}, NEW a \in Int
    PROVE  /\ a \div N \in Int
           /\ a % N \in 0 .. N - 1
           /\ a = N * (a \div N) + (a % N)
OBVIOUS

\* A positive number of laps is at least one ring size.
LEMMA WholeLaps ==
    ASSUME NEW N \in Nat \ {0}, NEW k \in Int, k >= 1
    PROVE  N * k >= N
OBVIOUS

\* Two sequences that share a slot are at least one lap apart (slot_index).
LEMMA SameSlotIsALapApart ==
    ASSUME NEW a \in Int, NEW b \in Int, slot_index(a) = slot_index(b), a < b
    PROVE  b - a >= Size
<1> DEFINE k == (b \div Size) - (a \div Size)
<1>1. k \in Int
  BY DivMod, SizeAssumption
<1>2. b - a = Size * (b \div Size) - Size * (a \div Size)
  <2>1. /\ a = Size * (a \div Size) + (a % Size)
        /\ b = Size * (b \div Size) + (b % Size)
    BY DivMod, SizeAssumption
  <2>2. a % Size \in Int /\ b % Size \in Int
    BY DivMod, SizeAssumption
  <2>3. Size * (a \div Size) \in Int /\ Size * (b \div Size) \in Int
    BY DivMod, SizeAssumption
  <2> QED BY <2>1, <2>2, <2>3 DEF slot_index
<1>3. Size * (b \div Size) - Size * (a \div Size) = Size * k
  BY DivMod, SizeAssumption
<1>4. k >= 1
  <2>1. CASE k <= 0
    <3>1. Size * k <= 0
      BY <1>1, <2>1, SizeAssumption
    <3> QED BY <3>1, <1>2, <1>3
  <2> QED BY <2>1, <1>1
<1> HIDE DEF k
<1> QED BY <1>1, <1>2, <1>3, <1>4, WholeLaps, SizeAssumption

\* A claim within Size of a lower bound is within Size of what it bounds.
LEMMA GapIsBounded ==
    ASSUME NEW N \in Nat \ {0}, NEW claim \in Int, NEW bound \in Int,
           NEW committed \in Int, NEW next \in Int,
           claim - N <= bound, bound <= committed, committed < next
    PROVE  claim - (next - 1) <= N
OBVIOUS

\* A slot index is an index of the ring.
LEMMA SlotInRing ==
    ASSUME NEW a \in Int
    PROVE  slot_index(a) \in 0 .. Size - 1
BY DivMod, SizeAssumption DEF slot_index

-----------------------------------------------------------------------------
(* Type correctness.                                                       *)

\* The steps of a consumer thread keep the types, but for the end of a wait.
LEMMA ConsumerStepKeepsTypes ==
    ASSUME PipelineTypeOK, NEW c \in Consumers, ConsumerStep(c)
    PROVE  PipelineTypeOK'
<1> USE SizeAssumption DEF PipelineTypeOK, FailurePhase, flagVars, coreVars, GoTo, Fail, Panic, Places
<1>1. CASE StartThread(c)
  <2>1. pc' \in [Consumers -> Places] /\ dying' \in [Consumers -> FailurePhase \cup {None}]
    BY <1>1, Zenon DEF StartThread
  <2> QED BY <1>1, <2>1 DEF StartThread
<1>2. CASE PollShutdown(c)
  BY <1>2, StageAssumption DEF PollShutdown, AfterLoop, Dependents
<1>3. CASE BatchStart(c)
  <2>1. pc' \in [Consumers -> Places] /\ dying' \in [Consumers -> FailurePhase \cup {None}]
    BY <1>3, Zenon DEF BatchStart
  <2> QED BY <1>3, <2>1 DEF BatchStart
<1>4. CASE HandleEvent(c)
  BY <1>4 DEF HandleEvent
<1>5. CASE HandlerFails(c)
  BY <1>5 DEF HandlerFails
<1>6. CASE HandlerPanics(c)
  BY <1>6 DEF HandlerPanics
<1>7. CASE CommitBatch(c)
  BY <1>7 DEF CommitBatch
<1>8. CASE OnShutdown(c)
  <2>1. pc' \in [Consumers -> Places] /\ dying' \in [Consumers -> FailurePhase \cup {None}]
    BY <1>8, Zenon DEF OnShutdown
  <2> QED BY <1>8, <2>1 DEF OnShutdown
<1>9. CASE RecordFailure(c)
  <2>1. pc' \in [Consumers -> Places] /\ dying' \in [Consumers -> FailurePhase \cup {None}]
    BY <1>9, Zenon DEF RecordFailure, Reported
  <2>2. first_failure' \in FailurePhase \cup {None}
    BY <1>9 DEF RecordFailure, FirstFailure
  <2> QED BY <1>9, <2>1, <2>2 DEF RecordFailure
<1>10. CASE PoisonProducers(c)
  BY <1>10 DEF PoisonProducers, Reported, AfterLoop
<1> QED
  BY <1>1, <1>2, <1>3, <1>4, <1>5, <1>6, <1>7, <1>8, <1>9, <1>10, Zenon DEF ConsumerStep

\* The reads of a wait keep the types, whatever follows it.
LEMMA WaitKeepsTypes ==
    ASSUME PipelineTypeOK, NEW c \in Consumers, NEW found \in Places,
           ReadCursor(c, found) \/ \E d \in Consumers : ReadDependent(c, d, found)
    PROVE  PipelineTypeOK'
<1> USE DEF PipelineTypeOK, flagVars, coreVars, GoTo, Awaited
<1>1. "loop" \in Places
  BY DEF Places
<1>2. CASE ReadCursor(c, found)
  BY <1>1, <1>2 DEF ReadCursor
<1>3. ASSUME NEW d \in Consumers, ReadDependent(c, d, found)
      PROVE  PipelineTypeOK'
  <2> DEFINE m == IF unread[c] = Dependents(c) THEN consumer_sequence[d]
                  ELSE Min2(available_sequence[c], consumer_sequence[d])
  <2>1. m \in Int /\ next_sequence[c] \in Int
    BY DEF Min2
  <2>2. /\ available_sequence' = [available_sequence EXCEPT ![c] = m]
        /\ pc' \in {pc, [pc EXCEPT ![c] = found], [pc EXCEPT ![c] = "loop"]}
    BY <1>3, Zenon DEF ReadDependent
  <2> HIDE DEF m
  <2>3. pc' \in [Consumers -> Places] /\ available_sequence' \in [Consumers -> Int]
    BY <1>1, <2>1, <2>2
  <2>4. unread' \in [Consumers -> SUBSET Consumers]
    BY <1>3 DEF ReadDependent
  <2> QED BY <1>3, <2>4, <2>3 DEF ReadDependent
<1> QED BY <1>2, <1>3

\* The steps of the handle's thread keep the types.
LEMMA CoreStepKeepsTypes ==
    ASSUME PipelineTypeOK, BeginStop \/ CoreStep
    PROVE  PipelineTypeOK'
<1> USE DEF PipelineTypeOK, FailurePhase, flagVars, consumerVars
<1>1. CASE BeginStop
  <2>1. CASE BeginShutdown
    BY <2>1 DEF BeginShutdown
  <2>2. CASE BeginHalt
    BY <2>2 DEF BeginHalt
  <2>3. CASE IntoProducer
    BY <2>3 DEF IntoProducer
  <2> QED BY <1>1, <2>1, <2>2, <2>3 DEF BeginStop
<1>2. CASE DrainSnapshot
  BY <1>2 DEF DrainSnapshot
<1>3. CASE DrainChecksPoison
  BY <1>3 DEF DrainChecksPoison, DrainReturns, DrainGoesOn
<1>4. CASE DrainChecksThreads
  BY <1>4 DEF DrainChecksThreads, DrainReturns, DrainGoesOn
<1>5. CASE DrainChecksBacklog
  BY <1>5 DEF DrainChecksBacklog, DrainReturns, DrainGoesOn
<1>6. CASE StopConsumers
  BY <1>6 DEF StopConsumers
<1>7. CASE JoinConsumers
  BY <1>7 DEF JoinConsumers, FirstFailure
<1>8. CASE RemoveGatingSequence
  BY <1>8 DEF RemoveGatingSequence
<1> QED
  BY <1>1, <1>2, <1>3, <1>4, <1>5, <1>6, <1>7, <1>8 DEF CoreStep

\* A pipeline is built well typed.
LEMMA PipelineInitIsTyped == PipelineInit => PipelineTypeOK
<1> SUFFICES ASSUME PipelineInit PROVE PipelineTypeOK
  OBVIOUS
<1> USE DEF PipelineInit, INITIAL_CURSOR_VALUE
<1>1. cursor \in Int /\ drain_target \in Int /\ ring \in [0 .. Size - 1 -> Int]
  OBVIOUS
<1>2. /\ consumer_sequence \in [Consumers -> Int]
      /\ next_sequence \in [Consumers -> Int]
      /\ available_sequence \in [Consumers -> Int]
  OBVIOUS
<1>3. /\ pc \in [Consumers -> Places]
      /\ unread \in [Consumers -> SUBSET Consumers]
      /\ dying \in [Consumers -> FailurePhase \cup {None}]
  BY DEF Places
<1>4. gating_sequences \subseteq Consumers
  BY DEF Terminal
<1> QED
  BY <1>1, <1>2, <1>3, <1>4, Zenon DEF PipelineTypeOK

-----------------------------------------------------------------------------
(* Progress of the consumers.                                              *)

\* A consumer's progress survives any step that leaves its locals alone and
\* moves no sequence back.
LEMMA ProgressFrame ==
    ASSUME PipelineTypeOK, PipelineTypeOK', NEW c \in Consumers, Progress(c),
           pc'[c] = pc[c], unread'[c] = unread[c],
           consumer_sequence'[c] = consumer_sequence[c],
           next_sequence'[c] = next_sequence[c],
           available_sequence'[c] = available_sequence[c],
           \A d \in Consumers : consumer_sequence'[d] >= consumer_sequence[d]
    PROVE  Progress(c)'
<1>1. /\ \A d \in Consumers : consumer_sequence[d] \in Int /\ consumer_sequence'[d] \in Int
      /\ next_sequence[c] \in Int /\ available_sequence[c] \in Int
  BY DEF PipelineTypeOK
<1>2. ASSUME NEW s \in Int, Committed(c, s)
      PROVE  \A d \in Consumers : Stage[d] < Stage[c] => s <= consumer_sequence'[d]
  BY <1>1, <1>2 DEF Committed
<1>3. /\ Committed(c, next_sequence[c] - 1) => Committed(c, next_sequence[c] - 1)'
      /\ Committed(c, available_sequence[c]) => Committed(c, available_sequence[c])'
  BY <1>1, <1>2 DEF Committed
<1>4. pc[c] = "await" =>
        \A d \in Dependents(c) \ unread[c] : available_sequence[c] <= consumer_sequence'[d]
  BY <1>1 DEF Progress, Dependents
<1> QED BY <1>3, <1>4 DEF Progress, Dependents

\* A later stage has committed no more than an earlier one.
LEMMA StagesAreOrdered ==
    ASSUME PipelineTypeOK, NEW c \in Consumers, NEW d \in Consumers, Progress(c),
           Stage[d] < Stage[c]
    PROVE  consumer_sequence[c] <= consumer_sequence[d]
BY DEF Progress, Committed, PipelineTypeOK

\* So what bounds the last stage from below bounds every consumer.
LEMMA LastStageIsLast ==
    ASSUME PipelineTypeOK, \A e \in Consumers : Progress(e), NEW s \in Int,
           \A g \in Terminal : s <= consumer_sequence[g], NEW c \in Consumers
    PROVE  s <= consumer_sequence[c]
<1>1. PICK t \in Consumers : t \in Terminal
  BY StageAssumption DEF Terminal
<1>2. Stage[c] \in Nat /\ Stage[t] \in Nat /\ Stage[c] <= Stage[t]
  BY <1>1, StageAssumption DEF Terminal
<1>3. consumer_sequence[c] \in Int /\ consumer_sequence[t] \in Int
  BY DEF PipelineTypeOK
<1>4. CASE Stage[c] < Stage[t]
  BY <1>1, <1>3, <1>4, StagesAreOrdered
<1>5. CASE Stage[c] = Stage[t]
  BY <1>1, <1>5 DEF Terminal
<1> QED BY <1>2, <1>4, <1>5

\* The minimum over the previous stage bounds every earlier stage as well.
LEMMA MinimumIsCommitted ==
    ASSUME PipelineTypeOK, \A e \in Consumers : Progress(e),
           NEW c \in Consumers, NEW d \in Dependents(c), NEW s \in Int,
           \A e \in Dependents(c) : s <= consumer_sequence[e]
    PROVE  Committed(c, s)
<1>1. \A e \in Consumers : consumer_sequence[e] \in Int
  BY DEF PipelineTypeOK
<1>2. /\ d \in Consumers /\ s <= consumer_sequence[d] /\ Stage[d] + 1 = Stage[c]
      /\ \A e \in Consumers : Stage[e] \in Nat
  BY StageAssumption DEF Dependents
<1>3. ASSUME NEW e \in Consumers, Stage[e] < Stage[c]
      PROVE  s <= consumer_sequence[e]
  <2>1. CASE Stage[e] + 1 = Stage[c]
    BY <2>1 DEF Dependents
  <2>2. CASE Stage[e] < Stage[d]
    <3>1. consumer_sequence[d] <= consumer_sequence[e]
      BY <1>2, <2>2, StagesAreOrdered
    <3> QED BY <1>1, <1>2, <3>1
  <2> QED BY <1>2, <1>3, <2>1, <2>2
<1> QED BY <1>3 DEF Committed

\* What a consumer's step does to the rest: it moves only c, never backwards,
\* and touches neither the ring nor the core.
MovesAlone(c) ==
    /\ pc[c] # "done"
    /\ \A e \in Consumers : consumer_sequence'[e] >= consumer_sequence[e]
    /\ \A e \in Consumers \ {c} :
          /\ pc'[e] = pc[e] /\ unread'[e] = unread[e]
          /\ consumer_sequence'[e] = consumer_sequence[e]
          /\ next_sequence'[e] = next_sequence[e]
          /\ available_sequence'[e] = available_sequence[e]
    /\ UNCHANGED <<coreVars, cursor, ring>>

\* Every step of a consumer thread is of this kind.
LEMMA StepMovesAlone ==
    ASSUME PipelineTypeOK, NEW c \in Consumers, Progress(c), ConsumerStep(c)
    PROVE  MovesAlone(c)
<1> USE DEF PipelineTypeOK, coreVars, GoTo, Fail, Panic, MovesAlone
<1>1. CASE StartThread(c)
  BY <1>1 DEF StartThread
<1>2. CASE PollShutdown(c)
  BY <1>2 DEF PollShutdown
<1>3. CASE BatchStart(c)
  BY <1>3 DEF BatchStart
<1>4. CASE HandleEvent(c)
  BY <1>4 DEF HandleEvent
<1>5. CASE HandlerFails(c)
  <2>1. next_sequence[c] - 1 >= consumer_sequence[c]
    BY DEF Progress
  <2> QED BY <1>5, <2>1 DEF HandlerFails
<1>6. CASE HandlerPanics(c)
  BY <1>6 DEF HandlerPanics
<1>7. CASE CommitBatch(c)
  <2>1. available_sequence[c] >= consumer_sequence[c]
    BY <1>7 DEF Progress, CommitBatch
  <2> QED BY <1>7, <2>1 DEF CommitBatch
<1>8. CASE OnShutdown(c)
  BY <1>8 DEF OnShutdown
<1>9. CASE RecordFailure(c)
  BY <1>9 DEF RecordFailure
<1>10. CASE PoisonProducers(c)
  BY <1>10 DEF PoisonProducers
<1> QED
  BY <1>1, <1>2, <1>3, <1>4, <1>5, <1>6, <1>7, <1>8, <1>9, <1>10, Zenon DEF ConsumerStep

\* So is every read of a wait.
LEMMA WaitMovesAlone ==
    ASSUME PipelineTypeOK, NEW c \in Consumers, NEW found,
           ReadCursor(c, found) \/ \E d \in Consumers : ReadDependent(c, d, found)
    PROVE  MovesAlone(c)
<1> USE DEF PipelineTypeOK, coreVars, GoTo, Awaited, MovesAlone
<1>1. CASE ReadCursor(c, found)
  BY <1>1 DEF ReadCursor
<1>2. ASSUME NEW d \in Consumers, ReadDependent(c, d, found)
      PROVE  MovesAlone(c)
  BY <1>2 DEF ReadDependent
<1> QED BY <1>1, <1>2

\* A step of c handles at most the next event of the batch it was told of.
LEMMA StepHandlesAvailable ==
    ASSUME PipelineTypeOK, NEW c \in Consumers, Progress(c), ConsumerStep(c)
    PROVE  /\ available_sequence' = available_sequence /\ pc'[c] # "resolve"
           /\ pc'[c] \in {"batch", "event", "commit"} => pc[c] \in {"batch", "event"}
           /\ \/ next_sequence' = next_sequence
              \/ /\ pc[c] = "event" /\ next_sequence[c] <= available_sequence[c]
                 /\ next_sequence' = [next_sequence EXCEPT ![c] = @ + 1]
<1>1. DOMAIN pc = Consumers
  BY DEF PipelineTypeOK
<1>2. CASE HandleEvent(c)
  BY <1>1, <1>2, Zenon DEF HandleEvent, Progress, GoTo
<1>3. CASE ~HandleEvent(c)
  <2>1. UNCHANGED <<available_sequence, next_sequence>>
    BY <1>3, Zenon DEF ConsumerStep, StartThread, PollShutdown, BatchStart, HandlerFails,
                HandlerPanics, CommitBatch, OnShutdown, RecordFailure, PoisonProducers
  <2>2. /\ pc'[c] # "resolve"
        /\ pc'[c] \in {"batch", "event", "commit"} => pc[c] \in {"batch", "event"}
    BY <1>1, <1>3 DEF ConsumerStep, StartThread, PollShutdown, BatchStart, HandlerFails,
                HandlerPanics, CommitBatch, OnShutdown, RecordFailure, PoisonProducers,
                GoTo, Fail, Panic, AfterLoop
  <2> QED BY <2>1, <2>2
<1> QED BY <1>2, <1>3

\* The steps of c but for its waits keep its progress.
LEMMA StepKeepsProgress ==
    ASSUME PipelineTypeOK, NEW c \in Consumers, Progress(c), ConsumerStep(c)
    PROVE  Progress(c)'
<1>1. /\ \A e \in Consumers : Stage[e] \in Nat
      /\ \A e \in Consumers : Stage[e] < Stage[c] => e # c
  BY StageAssumption
<1>2. /\ \A e \in Consumers : /\ consumer_sequence[e] \in Int /\ next_sequence[e] \in Int
                              /\ available_sequence[e] \in Int
      /\ DOMAIN pc = Consumers /\ DOMAIN unread = Consumers
      /\ consumer_sequence \in [Consumers -> Int]
      /\ next_sequence \in [Consumers -> Int]
      /\ available_sequence \in [Consumers -> Int]
  BY Zenon DEF PipelineTypeOK
<1> USE <1>1, <1>2 DEF GoTo, Fail, Panic, AfterLoop
<1>3. CASE StartThread(c)
  BY <1>3, Zenon DEF StartThread, Progress, Committed
<1>4. CASE PollShutdown(c)
  <2>1. unread'[c] = {} => Dependents(c) = {} \/ pc'[c] # "await"
    BY <1>4 DEF PollShutdown
  <2> QED BY <1>4, <2>1 DEF PollShutdown, Progress, Committed, Dependents
<1>5. CASE BatchStart(c)
  BY <1>5 DEF BatchStart, Progress, Committed
<1>6. CASE HandleEvent(c)
  BY <1>6 DEF HandleEvent, Progress, Committed
<1>7. CASE HandlerFails(c)
  BY <1>7 DEF HandlerFails, Progress, Committed
<1>8. CASE HandlerPanics(c)
  BY <1>8 DEF HandlerPanics, Progress, Committed
<1>9. CASE CommitBatch(c)
  BY <1>9 DEF CommitBatch, Progress, Committed
<1>10. CASE OnShutdown(c)
  BY <1>10 DEF OnShutdown, Progress, Committed
<1>11. CASE RecordFailure(c)
  BY <1>11 DEF RecordFailure, Progress, Committed
<1>12. CASE PoisonProducers(c)
  BY <1>12, Zenon DEF PoisonProducers, Progress, Committed
<1> QED
  BY <1>3, <1>4, <1>5, <1>6, <1>7, <1>8, <1>9, <1>10, <1>11, <1>12 DEF ConsumerStep

\* A wait keeps it too, and ends at the cursor or at what a dependency has
\* committed.
LEMMA WaitKeepsProgress ==
    ASSUME PipelineTypeOK, \A e \in Consumers : Progress(e),
           NEW c \in Consumers, NEW found \in {"batch", "resolve"},
           ReadCursor(c, found) \/ \E d \in Consumers : ReadDependent(c, d, found)
    PROVE  /\ Progress(c)' /\ UNCHANGED <<consumer_sequence, next_sequence, cursor>>
           /\ pc'[c] \in {"await", "loop", found}
           /\ pc'[c] = found =>
                 \/ available_sequence'[c] = cursor
                 \/ \E d \in Consumers : available_sequence'[c] <= consumer_sequence[d]
<1>1. /\ \A e \in Consumers : /\ consumer_sequence[e] \in Int /\ next_sequence[e] \in Int
                              /\ available_sequence[e] \in Int
      /\ \A e \in Consumers : Stage[e] \in Nat
      /\ cursor \in Int /\ DOMAIN pc = Consumers /\ DOMAIN unread = Consumers
      /\ available_sequence \in [Consumers -> Int]
  BY StageAssumption, Zenon DEF PipelineTypeOK
<1>2. /\ pc[c] = "await" /\ Progress(c)
      /\ UNCHANGED <<consumer_sequence, next_sequence, cursor>>
  BY Zenon DEF ReadCursor, ReadDependent
<1>3. ASSUME NEW s \in Int, available_sequence'[c] = s, Committed(c, s),
             pc'[c] = IF s >= next_sequence[c] THEN found ELSE "loop"
      PROVE  Progress(c)' /\ pc'[c] \in {"await", "loop", found}
  BY <1>1, <1>2, <1>3 DEF Progress, Committed
<1>4. CASE ReadCursor(c, found)
  <2>1. Committed(c, cursor)
    <3>1. Stage[c] = 0
      BY <1>1, <1>4, StageAssumption DEF ReadCursor
    <3> QED BY <1>1, <3>1 DEF Committed
  <2>2. /\ available_sequence'[c] = cursor
        /\ pc'[c] = IF cursor >= next_sequence[c] THEN found ELSE "loop"
    BY <1>1, <1>4, Zenon DEF ReadCursor, Awaited, GoTo
  <2> QED BY <1>1, <1>2, <1>3, <2>1, <2>2
<1>5. ASSUME NEW d \in Consumers, ReadDependent(c, d, found)
      PROVE  /\ Progress(c)' /\ pc'[c] \in {"await", "loop", found}
             /\ available_sequence'[c] <= consumer_sequence[d]
  <2> DEFINE k == IF unread[c] = Dependents(c) THEN consumer_sequence[d]
                  ELSE Min2(available_sequence[c], consumer_sequence[d])
  <2>1. k \in Int /\ k <= consumer_sequence[d]
    BY <1>1 DEF Min2
  <2>2. /\ d \in unread[c] /\ unread[c] \subseteq Dependents(c)
        /\ \A e \in Dependents(c) \ (unread[c] \ {d}) : k <= consumer_sequence[e]
    <3>1. /\ d \in unread[c] /\ unread[c] \subseteq Dependents(c)
          /\ \A e \in Dependents(c) \ unread[c] : available_sequence[c] <= consumer_sequence[e]
      BY <1>2, <1>5 DEF ReadDependent, Progress
    <3>2. Dependents(c) \subseteq Consumers
      BY DEF Dependents
    <3>3. CASE unread[c] = Dependents(c)
      BY <1>1, <3>1, <3>3
    <3>4. CASE unread[c] # Dependents(c)
      <4>1. k <= available_sequence[c] /\ k <= consumer_sequence[d]
        BY <1>1, <3>4 DEF Min2
      <4> HIDE DEF k
      <4> QED BY <1>1, <2>1, <3>1, <3>2, <4>1
    <3> QED BY <3>3, <3>4
  <2> HIDE DEF k
  <2>3. /\ available_sequence' = [available_sequence EXCEPT ![c] = k]
        /\ unread' = [unread EXCEPT ![c] = @ \ {d}]
        /\ pc' = IF unread[c] = {d} THEN [pc EXCEPT ![c] = IF k >= next_sequence[c] THEN found ELSE "loop"]
                 ELSE pc
    BY <1>5, Zenon DEF ReadDependent, Awaited, GoTo, k
  <2>4. available_sequence'[c] = k /\ unread'[c] = unread[c] \ {d}
    BY <1>1, <2>3
  <2>5. CASE unread[c] = {d}
    <3>1. Committed(c, k)
      BY <2>1, <2>2, <2>5, MinimumIsCommitted
    <3>2. pc'[c] = IF k >= next_sequence[c] THEN found ELSE "loop"
      BY <1>1, <2>3, <2>5
    <3> QED BY <1>3, <2>1, <2>4, <3>1, <3>2
  <2>6. CASE unread[c] # {d}
    <3>1. unread[c] \ {d} # {} /\ pc'[c] = "await"
      BY <1>2, <2>2, <2>3, <2>6
    <3> QED BY <1>1, <1>2, <2>1, <2>2, <2>4, <3>1 DEF Progress, Committed, Dependents
  <2> QED BY <2>5, <2>6
<1> QED BY <1>2, <1>4, <1>5

-----------------------------------------------------------------------------
(* The handle's thread.                                                    *)

\* A stop touches no consumer, no slot and no cursor, and it ungates the
\* producers only when every thread has exited.
LEMMA CoreStepFrame ==
    ASSUME BeginStop \/ CoreStep
    PROVE  /\ UNCHANGED <<consumerVars, cursor, ring, poisoned>>
           /\ \/ /\ core \notin {"ungate", "stopped"} /\ gating_sequences' = gating_sequences
                 /\ core' \in {"ungate", "stopped"} => \A c \in Consumers : pc[c] = "done"
              \/ /\ core = "ungate" /\ core' \in {"ungate", "stopped"}
                 /\ gating_sequences' \subseteq gating_sequences
<1> USE DEF flagVars
<1>1. CASE BeginStop
  BY <1>1 DEF BeginStop, BeginShutdown, BeginHalt, IntoProducer
<1>2. CASE DrainSnapshot \/ DrainChecksPoison \/ DrainChecksThreads \/ DrainChecksBacklog
  BY <1>2 DEF DrainSnapshot, DrainChecksPoison, DrainChecksThreads, DrainChecksBacklog,
              DrainReturns, DrainGoesOn
<1>3. CASE StopConsumers \/ JoinConsumers \/ RemoveGatingSequence
  BY <1>3 DEF StopConsumers, JoinConsumers, RemoveGatingSequence
<1> QED BY <1>1, <1>2, <1>3 DEF CoreStep

\* Handling one event moves one consumer of the log by one.
LEMMA HandledMovesByOne ==
    ASSUME next_sequence \in [Consumers -> Int], NEW c \in Consumers,
           next_sequence' = [next_sequence EXCEPT ![c] = @ + 1]
    PROVE  [e \in Consumers |-> next_sequence'[e] - 1]
             = [[e \in Consumers |-> next_sequence[e] - 1] EXCEPT ![c] = @ + 1]
<1> DEFINE before == [e \in Consumers |-> next_sequence[e] - 1]
           after  == [e \in Consumers |-> next_sequence'[e] - 1]
<1>1. ASSUME NEW e \in Consumers PROVE after[e] = [before EXCEPT ![c] = @ + 1][e]
  OBVIOUS
<1>2. /\ after = [e \in Consumers |-> after[e]]
      /\ [before EXCEPT ![c] = @ + 1] = [e \in Consumers |-> [before EXCEPT ![c] = @ + 1][e]]
  BY Zenon
<1> HIDE DEF after, before
<1>3. after = [before EXCEPT ![c] = @ + 1]
  BY <1>1, <1>2, Zenon
<1> QED BY <1>3 DEF after, before
=============================================================================
