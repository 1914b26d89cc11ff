------------------------ MODULE SinglePipelineProofs ------------------------
(***************************************************************************)
(* The safety of SinglePipeline, for every topology, ring size and bound:  *)
(* its types; its invariant IInv, which is inductive; what follows from    *)
(* it, and that the pipeline implements EventLog; and what the terminal    *)
(* flags promise: a poison flag has a recorded cause, a refused call says  *)
(* why, and a drain that reports success is complete.                      *)
(***************************************************************************)
EXTENDS SinglePipeline, PipelineProofs

USE SizeAssumption, BatchAssumption, BoundAssumption

-----------------------------------------------------------------------------
(* Type correctness.                                                       *)

\* The steps of a consumer thread keep the types.
LEMMA ConsumerKeepsTypes ==
    ASSUME TypeOK, NEW c \in Consumers, ConsumerNext(c)
    PROVE  TypeOK'
<1>1. PipelineTypeOK'
  <2>1. "batch" \in Places
    BY DEF Places
  <2> QED BY <2>1, ConsumerStepKeepsTypes, WaitKeepsTypes DEF TypeOK, ConsumerNext, AwaitStep
<1>2. UNCHANGED producerVars
  BY DEF ConsumerNext
<1> QED BY <1>1, <1>2 DEF TypeOK, producerVars, claimVars, scanVars, callVars

\* The steps of the producer keep the types.
LEMMA ProducerKeepsTypes ==
    ASSUME TypeOK, Call \/ ProducerStep
    PROVE  TypeOK'
<1> USE DEF TypeOK, PipelineTypeOK, FailurePhase, flagVars, consumerVars, coreVars,
            sharedVars, claimVars, scanVars, callVars, Return, Claim
<1>1. CASE Call
  BY <1>1 DEF Call
<1>2. CASE CheckState
  BY <1>2 DEF CheckState, claim_state_error
<1>3. CASE FastPath
  BY <1>3 DEF FastPath
<1>4. CASE SlowPath
  BY <1>4 DEF SlowPath
<1>5. CASE BeginScan
  BY <1>5 DEF BeginScan
<1>6. CASE ScanGating
  BY <1>6 DEF ScanGating, Min2
<1>7. CASE ScanGrants
  BY <1>7 DEF ScanGrants
<1>8. CASE ScanRefuses
  BY <1>8 DEF ScanRefuses
<1>9. CASE ClassifyRefusal
  BY <1>9 DEF ClassifyRefusal
<1>10. CASE WriteSlot
  <2>1. ring' \in [0 .. Size - 1 -> Int]
    BY <1>10, Zenon DEF WriteSlot
  <2> QED BY <1>10, <2>1 DEF WriteSlot
<1>11. CASE Publish
  BY <1>11 DEF Publish
<1>12. CASE UpdatePanics
  BY <1>12 DEF UpdatePanics, FirstFailure
<1>13. CASE PoisonOnPanic
  BY <1>13 DEF PoisonOnPanic
<1> QED
  BY <1>1, <1>2, <1>3, <1>4, <1>5, <1>6, <1>7, <1>8, <1>9, <1>10, <1>11, <1>12, <1>13, Zenon
  DEF ProducerStep

\* The steps of the handle's thread keep the types.
LEMMA CoreKeepsTypes ==
    ASSUME TypeOK, CoreNext
    PROVE  TypeOK'
<1>1. PipelineTypeOK'
  BY CoreStepKeepsTypes DEF TypeOK, CoreNext
<1>2. UNCHANGED producerVars
  BY DEF CoreNext
<1> QED BY <1>1, <1>2 DEF TypeOK, producerVars, claimVars, scanVars, callVars

\* A step that changes nothing keeps the types.
LEMMA StutteringKeepsTypes ==
    ASSUME TypeOK, UNCHANGED vars
    PROVE  TypeOK'
BY DEF TypeOK, PipelineTypeOK, vars, sharedVars, flagVars, consumerVars, coreVars,
       producerVars, claimVars, scanVars, callVars

\* The initial state is well typed.
LEMMA InitIsTyped == Init => TypeOK
<1> SUFFICES ASSUME Init PROVE TypeOK
  OBVIOUS
<1>1. PipelineTypeOK
  BY PipelineInitIsTyped DEF Init
<1>2. /\ producer = "idle" /\ call = "none" /\ n \in 1 .. MaxBatch /\ unscanned = {}
      /\ next_value \in Int /\ cached_value \in Int /\ min_sequence \in Int
      /\ write_at \in Int /\ outcome = "none" /\ terminal_call = FALSE
  BY DEF Init, INITIAL_CURSOR_VALUE
<1> QED BY <1>1, <1>2, Zenon DEF TypeOK

\* TypeOK holds in every state of every pipeline (all state of the module).
THEOREM TypeCorrect == Spec => []TypeOK
<1>1. TypeOK /\ [Next]_vars => TypeOK'
  BY ConsumerKeepsTypes, ProducerKeepsTypes, CoreKeepsTypes, StutteringKeepsTypes DEF Next
<1> QED
  BY <1>1, InitIsTyped, PTL DEF Spec

-----------------------------------------------------------------------------
(* The invariant.                                                          *)

\* What is said of a consumer survives any step that leaves its locals alone
\* and moves no sequence back.
LEMMA ConsumerFrame ==
    ASSUME TypeOK, TypeOK', NEW c \in Consumers, ConsumerInv(c),
           pc'[c] = pc[c], unread'[c] = unread[c],
           consumer_sequence'[c] = consumer_sequence[c],
           next_sequence'[c] = next_sequence[c],
           available_sequence'[c] = available_sequence[c],
           cursor' >= cursor,
           \A d \in Consumers : consumer_sequence'[d] >= consumer_sequence[d]
    PROVE  ConsumerInv(c)'
<1>1. Progress(c)'
  BY ProgressFrame DEF TypeOK, ConsumerInv
<1>2. /\ cursor \in Int /\ cursor' \in Int
      /\ next_sequence[c] \in Int /\ available_sequence[c] \in Int
  BY DEF TypeOK, PipelineTypeOK
<1> QED BY <1>1, <1>2 DEF ConsumerInv

\* The claims of the producer survive any step that leaves its state alone,
\* moves no sequence back, and shrinks the gating set only between calls.
LEMMA ProducerFrame ==
    ASSUME TypeOK, TypeOK', ClaimInv, CursorInv, RingInv,
           UNCHANGED <<producerVars, cursor, ring>>,
           gating_sequences' \subseteq gating_sequences,
           producer = "idle" \/ gating_sequences' = gating_sequences,
           poisoned => poisoned',
           \A d \in Consumers : consumer_sequence'[d] >= consumer_sequence[d]
    PROVE  ClaimInv' /\ CursorInv' /\ RingInv'
<1> USE DEF producerVars, claimVars, scanVars, callVars
<1>1. /\ \A d \in Consumers : consumer_sequence[d] \in Int /\ consumer_sequence'[d] \in Int
      /\ cached_value \in Int /\ min_sequence \in Int
      /\ gating_sequences \subseteq Consumers
  BY DEF TypeOK, PipelineTypeOK
<1>2. ClaimInv'
  BY <1>1 DEF ClaimInv
<1>3. CursorInv' /\ RingInv'
  BY DEF CursorInv, RingInv
<1> QED BY <1>2, <1>3

\* While a thread runs, the cached minimum bounds every consumer, not only the
\* gating ones: whoever is not in the last stage is ahead of it.
LEMMA CachedBoundsAll ==
    ASSUME TypeOK, \A c \in Consumers : ConsumerInv(c), ClaimInv,
           gating_sequences = Terminal, NEW c \in Consumers
    PROVE  cached_value <= consumer_sequence[c]
<1>1. \A e \in Consumers : Progress(e)
  BY DEF ConsumerInv
<1>2. cached_value \in Int /\ \A g \in Terminal : cached_value <= consumer_sequence[g]
  BY DEF TypeOK, ClaimInv
<1> QED BY <1>1, <1>2, LastStageIsLast DEF TypeOK

\* A step of c moves only c, and leaves the producer alone.
LEMMA ConsumerMovesAlone ==
    ASSUME TypeOK, \A e \in Consumers : ConsumerInv(e),
           NEW c \in Consumers, ConsumerNext(c)
    PROVE  MovesAlone(c) /\ UNCHANGED producerVars /\ (poisoned => poisoned')
<1>1. Progress(c)
  BY DEF ConsumerInv
<1>2. MovesAlone(c)
  BY <1>1, StepMovesAlone, WaitMovesAlone DEF TypeOK, ConsumerNext, AwaitStep
<1>3. poisoned' = poisoned \/ poisoned' = TRUE
  BY Zenon DEF ConsumerNext, ConsumerStep, AwaitStep, StartThread, PollShutdown, BatchStart,
               HandleEvent, HandlerFails, HandlerPanics, CommitBatch, OnShutdown, RecordFailure,
               PoisonProducers, ReadCursor, ReadDependent, flagVars
<1> QED BY <1>2, <1>3 DEF ConsumerNext

\* A step of c keeps c's own part of the invariant.
LEMMA ConsumerKeepsItself ==
    ASSUME TypeOK, TypeOK', \A e \in Consumers : ConsumerInv(e),
           NEW c \in Consumers, ConsumerNext(c)
    PROVE  ConsumerInv(c)'
<1>1. PipelineTypeOK /\ \A e \in Consumers : Progress(e)
  BY DEF TypeOK, ConsumerInv
<1>2. /\ \A e \in Consumers : /\ next_sequence[e] \in Int /\ consumer_sequence[e] \in Int
                              /\ consumer_sequence[e] < next_sequence[e]
                              /\ next_sequence[e] - 1 <= cursor
      /\ available_sequence'[c] \in Int /\ next_sequence \in [Consumers -> Int] /\ cursor \in Int
      /\ pc[c] \in {"batch", "event"} => available_sequence[c] <= cursor
  BY Zenon DEF TypeOK, PipelineTypeOK, ConsumerInv, Progress
<1>3. CASE ConsumerStep(c)
  <2>1. Progress(c)' /\ cursor' = cursor
    BY <1>1, <1>3, StepKeepsProgress, StepMovesAlone DEF MovesAlone
  <2>2. /\ available_sequence' = available_sequence
        /\ pc'[c] \in {"batch", "event", "commit"} => pc[c] \in {"batch", "event"}
        /\ \/ next_sequence' = next_sequence
           \/ /\ pc[c] = "event" /\ next_sequence[c] <= available_sequence[c]
              /\ next_sequence' = [next_sequence EXCEPT ![c] = @ + 1]
    BY <1>1, <1>3, StepHandlesAvailable, Zenon
  <2> QED BY <1>2, <2>1, <2>2 DEF ConsumerInv
<1>4. CASE AwaitStep(c)
  <2>1. /\ Progress(c)' /\ UNCHANGED <<consumer_sequence, next_sequence, cursor>>
        /\ pc'[c] \in {"await", "loop", "batch"}
        /\ pc'[c] = "batch" =>
              \/ available_sequence'[c] = cursor
              \/ \E d \in Consumers : available_sequence'[c] <= consumer_sequence[d]
    BY <1>1, <1>4, WaitKeepsProgress DEF AwaitStep
  <2> QED BY <1>2, <2>1 DEF ConsumerInv
<1> QED BY <1>3, <1>4 DEF ConsumerNext

\* The steps of a consumer thread keep the invariant.
LEMMA ConsumerKeepsIInv ==
    ASSUME IInv, NEW c \in Consumers, ConsumerNext(c)
    PROVE  IInv'
<1>1. TypeOK /\ TypeOK' /\ \A e \in Consumers : ConsumerInv(e)
  BY ConsumerKeepsTypes DEF IInv
<1>2. MovesAlone(c) /\ UNCHANGED producerVars /\ (poisoned => poisoned')
  BY <1>1, ConsumerMovesAlone
<1>3. cursor' >= cursor
  BY <1>1, <1>2 DEF TypeOK, PipelineTypeOK, MovesAlone
<1>4. \A e \in Consumers : ConsumerInv(e)'
  <2> TAKE e \in Consumers
  <2>1. CASE e = c
    BY <1>1, <2>1, ConsumerKeepsItself
  <2>2. CASE e # c
    BY <1>1, <1>2, <1>3, <2>2, ConsumerFrame DEF MovesAlone
  <2> QED BY <2>1, <2>2
<1>5. GatingInv'
  BY <1>2 DEF IInv, GatingInv, coreVars, MovesAlone
<1>6. ClaimInv' /\ CursorInv' /\ RingInv'
  BY <1>1, <1>2, ProducerFrame DEF IInv, coreVars, MovesAlone
<1> QED BY <1>1, <1>4, <1>5, <1>6 DEF IInv

\* The steps of the handle's thread keep the invariant.
LEMMA CoreKeepsIInv ==
    ASSUME IInv, CoreNext
    PROVE  IInv'
<1>1. TypeOK /\ TypeOK'
  BY CoreKeepsTypes DEF IInv
<1>2. /\ UNCHANGED <<producerVars, consumerVars, cursor, ring, poisoned>>
      /\ producer = "idle"
      /\ \/ /\ core \notin {"ungate", "stopped"} /\ gating_sequences' = gating_sequences
            /\ core' \in {"ungate", "stopped"} => \A c \in Consumers : pc[c] = "done"
         \/ /\ core = "ungate" /\ core' \in {"ungate", "stopped"}
            /\ gating_sequences' \subseteq gating_sequences
  BY CoreStepFrame, Zenon DEF CoreNext
<1>3. \A d \in Consumers : consumer_sequence'[d] >= consumer_sequence[d]
  <2>1. consumer_sequence' = consumer_sequence
    BY <1>2 DEF consumerVars
  <2>2. \A d \in Consumers : consumer_sequence[d] \in Int
    BY <1>1 DEF TypeOK, PipelineTypeOK
  <2> QED BY <2>1, <2>2
<1>4. cursor' >= cursor
  BY <1>1, <1>2 DEF TypeOK, PipelineTypeOK
<1>5. \A c \in Consumers : ConsumerInv(c)'
  BY <1>1, <1>2, <1>3, <1>4, ConsumerFrame, Zenon DEF IInv, consumerVars
<1>6. GatingInv'
  BY <1>2 DEF IInv, GatingInv, consumerVars
<1>7. ClaimInv' /\ CursorInv' /\ RingInv'
  BY <1>1, <1>2, <1>3, ProducerFrame DEF IInv
<1> QED BY <1>1, <1>5, <1>6, <1>7 DEF IInv

\* A producer step leaves consumers and core alone, and no step of it moves
\* the cursor back.
LEMMA ProducerMovesCursorForward ==
    ASSUME TypeOK, CursorInv, Call \/ ProducerStep
    PROVE  /\ UNCHANGED <<consumerVars, coreVars>>
           /\ cursor' >= cursor
<1>1. cursor \in Int /\ next_value \in Int /\ cursor <= next_value
  BY DEF TypeOK, PipelineTypeOK, CursorInv
<1>2. UNCHANGED <<consumerVars, coreVars>> /\ cursor' \in {cursor, next_value}
  BY DEF ProducerStep, Call, CheckState, FastPath, SlowPath, BeginScan, ScanGating, ScanGrants,
         ScanRefuses, ClassifyRefusal, WriteSlot, Publish, UpdatePanics, PoisonOnPanic, sharedVars
<1> QED BY <1>1, <1>2

\* Writing the next slot of a claim spoils no slot of the last lap.
LEMMA WriteKeepsRing ==
    ASSUME TypeOK, CursorInv, RingInv, WriteSlot
    PROVE  RingInv'
<1> USE DEF sharedVars, claimVars, scanVars, callVars
<1>1. /\ cursor \in Int /\ next_value \in Int /\ write_at \in Int /\ n \in 1 .. MaxBatch
      /\ ring \in [0 .. Size - 1 -> Int]
  BY DEF TypeOK, PipelineTypeOK
<1>2. cursor < write_at /\ write_at <= next_value /\ cursor = next_value - n
  BY DEF CursorInv, WriteSlot
<1>3. ASSUME NEW s \in Int, s < write_at, s > next_value - Size,
             ring[slot_index(s)] = s
      PROVE  ring'[slot_index(s)] = s
  <2>1. slot_index(s) # slot_index(write_at)
    BY <1>1, <1>2, <1>3, SameSlotIsALapApart
  <2> QED BY <1>1, <1>3, <2>1, SlotInRing DEF WriteSlot
<1>4. ring'[slot_index(write_at)] = write_at
  BY <1>1, SlotInRing DEF WriteSlot
<1>5. UNCHANGED <<cursor, next_value, producer>> /\ write_at' = write_at + 1 /\ producer = "write"
  BY DEF WriteSlot
<1>6. ASSUME NEW s \in 0 .. cursor, s > next_value - Size
      PROVE  ring'[slot_index(s)] = s
  BY <1>1, <1>2, <1>3, <1>6 DEF RingInv
<1>7. ASSUME NEW s \in cursor + 1 .. write_at
      PROVE  ring'[slot_index(s)] = s
  <2>1. CASE s = write_at
    BY <1>4, <2>1
  <2>2. CASE s < write_at
    BY <1>1, <1>2, <1>3, <1>5, <2>2 DEF RingInv
  <2> QED BY <1>1, <2>1, <2>2
<1> QED BY <1>1, <1>5, <1>6, <1>7 DEF RingInv

\* The steps of the producer keep what is said of claims, cursor and ring.
LEMMA ProducerKeepsClaims ==
    ASSUME IInv, Call \/ ProducerStep
    PROVE  ClaimInv' /\ CursorInv' /\ RingInv'
<1> USE DEF sharedVars, claimVars, scanVars, callVars, consumerVars, coreVars, flagVars,
            Return, Claim, wrap_point
<1>1. /\ cursor \in Int /\ next_value \in Int /\ cached_value \in Int
      /\ min_sequence \in Int /\ write_at \in Int /\ n \in 1 .. MaxBatch
      /\ gating_sequences \subseteq Consumers
      /\ \A c \in Consumers : consumer_sequence[c] \in Int
  BY DEF IInv, TypeOK, PipelineTypeOK
<1>2. ClaimInv /\ CursorInv /\ RingInv
  BY DEF IInv
<1>3. CASE Call
  BY <1>1, <1>2, <1>3 DEF Call, ClaimInv, CursorInv, RingInv
<1>4. CASE CheckState
  BY <1>1, <1>2, <1>4 DEF CheckState, ClaimInv, CursorInv, RingInv
<1>5. CASE FastPath
  BY <1>1, <1>2, <1>5 DEF FastPath, ClaimInv, CursorInv, RingInv
<1>6. CASE SlowPath
  BY <1>1, <1>2, <1>6 DEF SlowPath, ClaimInv, CursorInv, RingInv
<1>7. CASE BeginScan
  BY <1>1, <1>2, <1>7 DEF BeginScan, ClaimInv, CursorInv, RingInv
<1>8. CASE ScanGating
  <2>1. PICK g \in unscanned : /\ min_sequence' = Min2(min_sequence, consumer_sequence[g])
                               /\ unscanned' = unscanned \ {g}
    BY <1>8 DEF ScanGating
  <2>2. /\ g \in gating_sequences /\ consumer_sequence[g] \in Int
        /\ cached_value <= consumer_sequence[g]
    BY <1>1, <1>2, <1>8 DEF ScanGating, ClaimInv
  <2>3. min_sequence' \in Int /\ min_sequence' <= min_sequence /\ min_sequence' <= consumer_sequence[g]
        /\ cached_value <= min_sequence'
    BY <1>1, <1>2, <1>8, <2>1, <2>2 DEF Min2, ClaimInv, ScanGating
  <2>4. \A h \in gating_sequences \ unscanned' : min_sequence' <= consumer_sequence[h]
    BY <1>1, <1>2, <1>8, <2>1, <2>2, <2>3 DEF ClaimInv, ScanGating
  <2>5. unscanned' \subseteq gating_sequences /\ min_sequence' <= next_value
    BY <1>1, <1>2, <1>8, <2>1, <2>3 DEF ClaimInv, ScanGating
  <2>6. ClaimInv'
    BY <1>2, <1>8, <2>3, <2>4, <2>5 DEF ClaimInv, ScanGating
  <2> QED BY <1>2, <1>8, <2>6 DEF ScanGating, CursorInv, RingInv
<1>9. CASE ScanGrants
  BY <1>1, <1>2, <1>9 DEF ScanGrants, ClaimInv, CursorInv, RingInv
<1>10. CASE ScanRefuses
  BY <1>1, <1>2, <1>10 DEF ScanRefuses, ClaimInv, CursorInv, RingInv
<1>11. CASE ClassifyRefusal
  BY <1>1, <1>2, <1>11 DEF ClassifyRefusal, ClaimInv, CursorInv, RingInv
<1>12. CASE WriteSlot
  <2>1. RingInv'
    BY <1>2, <1>12, WriteKeepsRing DEF IInv
  <2> QED BY <1>1, <1>2, <1>12, <2>1 DEF WriteSlot, ClaimInv, CursorInv
<1>13. CASE Publish
  <2>1. RingInv'
    BY <1>1, <1>2, <1>13 DEF Publish, CursorInv, RingInv
  <2> QED BY <1>1, <1>2, <1>13, <2>1 DEF Publish, ClaimInv, CursorInv
<1>14. CASE UpdatePanics
  BY <1>1, <1>2, <1>14 DEF UpdatePanics, ClaimInv, CursorInv, RingInv
<1>15. CASE PoisonOnPanic
  BY <1>1, <1>2, <1>15 DEF PoisonOnPanic, ClaimInv, CursorInv, RingInv
<1> QED
  BY <1>3, <1>4, <1>5, <1>6, <1>7, <1>8, <1>9, <1>10, <1>11, <1>12, <1>13, <1>14, <1>15
  DEF ProducerStep

\* The steps of the producer keep the invariant.
LEMMA ProducerKeepsIInv ==
    ASSUME IInv, Call \/ ProducerStep
    PROVE  IInv'
<1>1. TypeOK /\ TypeOK'
  BY ProducerKeepsTypes DEF IInv
<1>2. UNCHANGED <<consumerVars, coreVars>> /\ cursor' >= cursor
  BY ProducerMovesCursorForward DEF IInv
<1>3. \A d \in Consumers : consumer_sequence'[d] >= consumer_sequence[d]
  BY <1>1, <1>2 DEF TypeOK, PipelineTypeOK, consumerVars
<1>4. \A c \in Consumers : ConsumerInv(c)'
  BY <1>1, <1>2, <1>3, ConsumerFrame, Zenon DEF IInv, consumerVars
<1>5. GatingInv'
  BY <1>2 DEF IInv, GatingInv, consumerVars, coreVars
<1> QED BY <1>1, <1>4, <1>5, ProducerKeepsClaims DEF IInv

\* A step that changes nothing keeps the invariant.
LEMMA StutteringKeepsIInv ==
    ASSUME IInv, UNCHANGED vars
    PROVE  IInv'
<1> USE DEF vars, sharedVars, flagVars, consumerVars, coreVars
<1>1. TypeOK /\ TypeOK'
  BY StutteringKeepsTypes DEF IInv
<1>2. cursor' >= cursor /\ \A d \in Consumers : consumer_sequence'[d] >= consumer_sequence[d]
  BY <1>1 DEF TypeOK, PipelineTypeOK
<1>3. \A c \in Consumers : ConsumerInv(c)'
  BY <1>1, <1>2, ConsumerFrame, Zenon DEF IInv
<1>4. GatingInv'
  BY DEF IInv, GatingInv
<1>5. ClaimInv' /\ CursorInv' /\ RingInv'
  BY <1>1, <1>2, ProducerFrame DEF IInv
<1> QED BY <1>1, <1>3, <1>4, <1>5 DEF IInv

\* The invariant holds when the pipeline is built.
LEMMA InitEstablishesIInv == Init => IInv
<1> SUFFICES ASSUME Init PROVE IInv
  OBVIOUS
<1>1. TypeOK
  BY InitIsTyped
<1>2. ASSUME NEW c \in Consumers PROVE ConsumerInv(c)
  BY DEF Init, PipelineInit, ConsumerInv, Progress, Committed, INITIAL_CURSOR_VALUE
<1>3. GatingInv
  BY DEF Init, PipelineInit, GatingInv
<1>4. ClaimInv
  BY DEF Init, PipelineInit, ClaimInv, INITIAL_CURSOR_VALUE, Terminal
<1>5. CursorInv /\ RingInv
  BY DEF Init, PipelineInit, CursorInv, RingInv, INITIAL_CURSOR_VALUE
<1> QED BY <1>1, <1>2, <1>3, <1>4, <1>5 DEF IInv

\* Every reachable state of every pipeline satisfies IInv: commits follow
\* handling, stages follow each other, claims stay within one lap of the
\* cached gating minimum, and the last lap of the ring is intact.
THEOREM Invariance == Spec => []IInv
<1>1. IInv /\ [Next]_vars => IInv'
  BY ConsumerKeepsIInv, ProducerKeepsIInv, CoreKeepsIInv, StutteringKeepsIInv DEF Next
<1> QED
  BY <1>1, InitEstablishesIInv, PTL DEF Spec

-----------------------------------------------------------------------------
(* What the invariant is for.                                              *)

\* A handler works within the last lap: above everything the next claim may
\* overwrite, and not above the cursor.
LEMMA HandlersAreInTheLastLap ==
    ASSUME IInv, NEW c \in Consumers, pc[c] = "event"
    PROVE  /\ next_sequence[c] \in Int /\ 0 <= next_sequence[c]
           /\ next_value - Size < next_sequence[c] /\ next_sequence[c] <= cursor
           /\ \A d \in Consumers : Stage[d] < Stage[c] => next_sequence[c] < next_sequence[d]
<1>1. /\ \A e \in Consumers : /\ consumer_sequence[e] \in Int /\ next_sequence[e] \in Int
                              /\ available_sequence[e] \in Int
      /\ cursor \in Int /\ next_value \in Int /\ cached_value \in Int
  BY DEF IInv, TypeOK, PipelineTypeOK
<1>2. /\ consumer_sequence[c] < next_sequence[c] /\ 0 <= next_sequence[c]
      /\ next_sequence[c] <= available_sequence[c]
      /\ Committed(c, available_sequence[c]) /\ available_sequence[c] <= cursor
      /\ \A d \in Consumers : consumer_sequence[d] < next_sequence[d]
  BY <1>1 DEF IInv, ConsumerInv, Progress
<1>3. cached_value <= consumer_sequence[c]
  <2>1. gating_sequences = Terminal
    BY DEF IInv, GatingInv
  <2> QED BY <2>1, CachedBoundsAll DEF IInv
<1>4. next_value - Size <= cached_value
  BY DEF IInv, ClaimInv
<1> QED BY <1>1, <1>2, <1>3, <1>4 DEF Committed

\* No handler of any stage ever reads a slot that holds another event than the
\* one its sequence names: no overwritten, stale or unpublished event reaches
\* on_event, for every topology and ring size.
THEOREM HandlersAreSafe == Spec => []HandlersSeeTheirEvent
<1>1. IInv => HandlersSeeTheirEvent
  <2> SUFFICES ASSUME IInv, NEW c \in Consumers, pc[c] = "event"
               PROVE  ring[slot_index(next_sequence[c])] = next_sequence[c]
    BY DEF HandlersSeeTheirEvent
  <2>1. cursor \in Int /\ next_value \in Int /\ RingInv
    BY DEF IInv, TypeOK, PipelineTypeOK
  <2> QED BY <2>1, HandlersAreInTheLastLap DEF RingInv
<1> QED BY <1>1, Invariance, PTL

\* The update closure of a claim and a running handler never share a slot
\* (the &mut access that the producer's SAFETY comments rely on).
THEOREM ClaimsAreExclusive == Spec => []ClaimedSlotsAreExclusive
<1>1. IInv => ClaimedSlotsAreExclusive
  <2> SUFFICES ASSUME IInv, NEW c \in Consumers, producer = "write", pc[c] = "event",
                      NEW s \in next_value - n + 1 .. next_value,
                      slot_index(s) = slot_index(next_sequence[c])
               PROVE  FALSE
    BY DEF ClaimedSlotsAreExclusive
  <2>1. /\ cursor \in Int /\ next_value \in Int /\ n \in 1 .. MaxBatch
        /\ cursor = next_value - n
    BY DEF IInv, TypeOK, PipelineTypeOK, CursorInv
  <2>2. s - next_sequence[c] >= Size
    BY <2>1, HandlersAreInTheLastLap, SameSlotIsALapApart
  <2> QED BY <2>1, <2>2, HandlersAreInTheLastLap
<1> QED BY <1>1, Invariance, PTL

\* Handlers of different stages never share a slot, although the producer
\* gates on the last stage only.
THEOREM StagesAreDisjoint == Spec => []StagesHoldDistinctSlots
<1>1. IInv => StagesHoldDistinctSlots
  <2>1. ASSUME IInv, NEW c \in Consumers, NEW d \in Consumers,
               pc[c] = "event", pc[d] = "event", Stage[d] < Stage[c]
        PROVE  slot_index(next_sequence[c]) # slot_index(next_sequence[d])
    <3>1. cursor \in Int /\ next_value \in Int /\ cursor <= next_value
      BY <2>1 DEF IInv, TypeOK, PipelineTypeOK, CursorInv
    <3>2. /\ next_sequence[c] \in Int /\ next_sequence[d] \in Int
          /\ next_sequence[c] < next_sequence[d]
          /\ next_sequence[d] - next_sequence[c] < Size
      BY <2>1, <3>1, HandlersAreInTheLastLap
    <3> QED BY <3>2, SameSlotIsALapApart
  <2>2. \A c, d \in Consumers : Stage[c] # Stage[d] => Stage[c] < Stage[d] \/ Stage[d] < Stage[c]
    BY StageAssumption
  <2> QED BY <2>1, <2>2 DEF StagesHoldDistinctSlots
<1> QED BY <1>1, Invariance, PTL

-----------------------------------------------------------------------------
(* The pipeline implements the bounded log.                                *)

\* A producer step appends its claim to the log, or does not show.
LEMMA ProducerImplementsLog ==
    ASSUME IInv, Call \/ ProducerStep
    PROVE  [Log!Next]_(Log!vars)
<1> USE DEF Log!vars, sharedVars, consumerVars
<1>1. /\ cursor \in Int /\ next_value \in Int /\ cached_value \in Int /\ n \in 1 .. MaxBatch
      /\ \A c \in Consumers : consumer_sequence[c] \in Int /\ next_sequence[c] \in Int
  BY DEF IInv, TypeOK, PipelineTypeOK
<1>2. UNCHANGED consumerVars
  BY ProducerMovesCursorForward DEF IInv
<1>3. CASE Publish
  <2>1. cursor' = next_value /\ next_value > cursor
    BY <1>1, <1>3 DEF Publish, IInv, CursorInv
  <2>2. ASSUME NEW c \in Consumers, pc[c] # "done"
        PROVE  cursor' - (next_sequence[c] - 1) <= Size
    <3>1. cached_value <= consumer_sequence[c]
      BY <2>2, CachedBoundsAll, Zenon DEF IInv, GatingInv
    <3>2. next_value - Size <= cached_value /\ consumer_sequence[c] < next_sequence[c]
      BY DEF IInv, ClaimInv, ConsumerInv, Progress
    <3>3. /\ next_value \in Int /\ cached_value \in Int
          /\ consumer_sequence[c] \in Int /\ next_sequence[c] \in Int
      BY <1>1
    <3>4. next_value - (next_sequence[c] - 1) <= Size
      BY <3>1, <3>2, <3>3, GapIsBounded, SizeAssumption
    <3> QED BY <2>1, <3>4
  <2>3. Log!Append
    BY <1>1, <1>2, <2>1, <2>2 DEF Log!Append
  <2> QED BY <2>3 DEF Log!Next
<1>4. CASE ~Publish
  <2>1. cursor' = cursor
    BY <1>4, Zenon DEF ProducerStep, Call, CheckState, FastPath, SlowPath, BeginScan, ScanGating,
                ScanGrants, ScanRefuses, ClassifyRefusal, WriteSlot, UpdatePanics,
                PoisonOnPanic, IInv, CursorInv
  <2> QED BY <1>2, <2>1
<1> QED BY <1>3, <1>4

\* A consumer step handles the next event, retires the thread, or does not show.
LEMMA ConsumerImplementsLog ==
    ASSUME IInv, NEW c \in Consumers, ConsumerNext(c)
    PROVE  [Log!Next]_(Log!vars)
<1> USE DEF Log!vars
<1>1. /\ pc \in [Consumers -> Places] /\ next_sequence \in [Consumers -> Int] /\ cursor \in Int
      /\ pc' \in [Consumers -> Places] /\ next_sequence' \in [Consumers -> Int]
  <2>1. TypeOK /\ TypeOK'
    BY ConsumerKeepsTypes DEF IInv
  <2> QED BY <2>1, Zenon DEF TypeOK, PipelineTypeOK
<1>2. /\ pc[c] # "done" /\ cursor' = cursor
      /\ \A e \in Consumers \ {c} : pc'[e] = pc[e] /\ next_sequence'[e] = next_sequence[e]
  BY ConsumerMovesAlone, Zenon DEF IInv, MovesAlone
<1>3. CASE HandleEvent(c)
  <2>1. /\ pc[c] = "event" /\ pc'[c] # "done"
        /\ next_sequence' = [next_sequence EXCEPT ![c] = @ + 1]
    BY <1>1, <1>3, Zenon DEF HandleEvent, GoTo
  <2>2. {e \in Consumers : pc'[e] = "done"} = {e \in Consumers : pc[e] = "done"}
    BY <1>2, <2>1
  <2>3. /\ next_sequence[c] <= cursor
        /\ \A d \in Consumers : Stage[d] < Stage[c] => next_sequence[c] < next_sequence[d]
    BY <2>1, HandlersAreInTheLastLap
  <2>4. [e \in Consumers |-> next_sequence'[e] - 1]
          = [[e \in Consumers |-> next_sequence[e] - 1] EXCEPT ![c] = @ + 1]
    BY <1>1, <2>1, HandledMovesByOne, Zenon
  <2>5. Log!Handle(c)
    BY <1>1, <1>2, <2>1, <2>2, <2>3, <2>4 DEF Log!Handle
  <2> QED BY <2>5 DEF Log!Next
<1>4. CASE ~HandleEvent(c)
  <2>1. next_sequence' = next_sequence
    BY <1>4, Zenon DEF ConsumerNext, ConsumerStep, AwaitStep, StartThread, PollShutdown, BatchStart,
                HandlerFails, HandlerPanics, CommitBatch, OnShutdown, RecordFailure,
                PoisonProducers, ReadCursor, ReadDependent
  <2>2. CASE pc'[c] = "done"
    <3>1. {e \in Consumers : pc'[e] = "done"} = {e \in Consumers : pc[e] = "done"} \cup {c}
      BY <1>2, <2>2
    <3>2. Log!Retire(c)
      BY <1>2, <2>1, <3>1, Zenon DEF Log!Retire
    <3> QED BY <3>2 DEF Log!Next
  <2>3. CASE pc'[c] # "done"
    <3>1. {e \in Consumers : pc'[e] = "done"} = {e \in Consumers : pc[e] = "done"}
      BY <1>2, <2>3, Zenon
    <3> QED BY <1>2, <2>1, <3>1, Zenon
  <2> QED BY <2>2, <2>3, Zenon
<1> QED BY <1>3, <1>4, Zenon

\* The single-producer pipeline implements EventLog: every consumer handles
\* every published event in order and once, after the stages before it, and
\* the log never runs a full lap ahead of a live consumer.
THEOREM PipelineIsALog == Spec => ImplementsLog
<1>1. Init => Log!Init
  BY DEF Init, PipelineInit, Log!Init, INITIAL_CURSOR_VALUE
<1>2. IInv /\ [Next]_vars => [Log!Next]_(Log!vars)
  <2> SUFFICES ASSUME IInv, [Next]_vars PROVE [Log!Next]_(Log!vars)
    OBVIOUS
  <2>1. CASE CoreNext
    <3>1. UNCHANGED <<cursor, consumerVars>>
      BY <2>1, Zenon DEF CoreNext, BeginStop, BeginShutdown, BeginHalt, IntoProducer, CoreStep,
                  DrainSnapshot, DrainChecksPoison, DrainChecksThreads, DrainChecksBacklog,
                  DrainReturns, DrainGoesOn, StopConsumers, JoinConsumers, RemoveGatingSequence
    <3> QED BY <3>1 DEF Log!vars, consumerVars
  <2>2. CASE UNCHANGED vars
    BY <2>2, Zenon DEF vars, sharedVars, consumerVars, Log!vars
  <2> QED BY <2>1, <2>2, ProducerImplementsLog, ConsumerImplementsLog DEF Next
<1> QED
  BY <1>1, <1>2, Invariance, PTL DEF Spec, ImplementsLog, Log!Spec

\* The cursor moves only forward and only over slots that hold their event,
\* the slow path's republication of next_value included.
THEOREM CursorIsHonest == Spec => CursorExposesOnlyPublished
<1> DEFINE Honest == cursor' # cursor =>
                        /\ cursor' > cursor
                        /\ \A s \in cursor + 1 .. cursor' :
                              s > cursor' - Size => ring[slot_index(s)] = s
<1>1. IInv /\ [Next]_vars => [Honest]_vars
  <2> SUFFICES ASSUME IInv, Next, cursor' # cursor PROVE Honest
    OBVIOUS
  <2>1. Call \/ ProducerStep
    BY ConsumerMovesAlone, Zenon
    DEF Next, IInv, MovesAlone, CoreNext, BeginStop, BeginShutdown, BeginHalt, IntoProducer, CoreStep,
        DrainSnapshot, DrainChecksPoison, DrainChecksThreads, DrainChecksBacklog,
        DrainReturns, DrainGoesOn, StopConsumers, JoinConsumers, RemoveGatingSequence
  <2>2. Publish
    BY <2>1 DEF ProducerStep, Call, CheckState, FastPath, SlowPath, BeginScan, ScanGating,
                ScanGrants, ScanRefuses, ClassifyRefusal, WriteSlot, UpdatePanics,
                PoisonOnPanic, IInv, CursorInv
  <2>3. cursor \in Int /\ next_value \in Int /\ write_at \in Int
    BY DEF IInv, TypeOK, PipelineTypeOK
  <2> QED BY <2>2, <2>3 DEF Publish, IInv, CursorInv, RingInv
<1> QED
  BY <1>1, Invariance, PTL DEF Spec, CursorExposesOnlyPublished

-----------------------------------------------------------------------------
(* The cause of the poison.                                                *)

\* A failure of a consumer is recorded in the step before it poisons.
LEMMA ConsumerKeepsFailureInv ==
    ASSUME TypeOK, FailureInv, NEW c \in Consumers, ConsumerNext(c)
    PROVE  FailureInv'
<1> USE NoneAssumption DEF FailureInv, TypeOK, PipelineTypeOK, FailurePhase, flagVars, producerVars,
            GoTo, Fail, Panic, AfterLoop, ConsumerNext
<1>1. CASE StartThread(c)
  BY <1>1, Zenon DEF StartThread
<1>2. CASE PollShutdown(c)
  BY <1>2 DEF PollShutdown
<1>3. CASE BatchStart(c)
  BY <1>3 DEF BatchStart
<1>4. CASE HandleEvent(c)
  BY <1>4 DEF HandleEvent
<1>5. CASE HandlerFails(c)
  BY <1>5 DEF HandlerFails
<1>6. CASE HandlerPanics(c)
  BY <1>6 DEF HandlerPanics
<1>7. CASE CommitBatch(c)
  BY <1>7 DEF CommitBatch
<1>8. CASE OnShutdown(c)
  BY <1>8 DEF OnShutdown
<1>9. CASE RecordFailure(c)
  <2>1. first_failure' # None
    BY <1>9 DEF RecordFailure, FirstFailure
  <2>2. \A d \in Consumers : pc'[d] = "record" => pc[d] = "record" /\ dying'[d] = dying[d]
    BY <1>9 DEF RecordFailure, Reported
  <2> QED BY <2>1, <2>2
<1>10. CASE PoisonProducers(c)
  BY <1>10 DEF PoisonProducers, Reported
<1>11. CASE ReadCursor(c, "batch")
  BY <1>11 DEF ReadCursor, Awaited
<1>12. ASSUME NEW d \in Consumers, ReadDependent(c, d, "batch")
       PROVE  FailureInv'
  <2>1. \A e \in Consumers : pc'[e] \in {pc[e], "batch", "loop"}
    BY <1>12 DEF ReadDependent, Awaited
  <2> QED BY <1>12, <2>1, Zenon DEF ReadDependent
<1> QED
  BY <1>1, <1>2, <1>3, <1>4, <1>5, <1>6, <1>7, <1>8, <1>9, <1>10, <1>11, <1>12, Zenon
  DEF ConsumerStep, AwaitStep

\* The panic of an update closure is recorded before the guard poisons.
LEMMA ProducerKeepsFailureInv ==
    ASSUME TypeOK, FailureInv, Call \/ ProducerStep
    PROVE  FailureInv'
<1> USE NoneAssumption DEF FailureInv, TypeOK, PipelineTypeOK, FailurePhase, sharedVars, flagVars,
            consumerVars, Return, Claim
<1>1. CASE UpdatePanics
  BY <1>1 DEF UpdatePanics, FirstFailure
<1>2. CASE PoisonOnPanic
  BY <1>2 DEF PoisonOnPanic
<1>3. CASE ~UpdatePanics /\ ~PoisonOnPanic
  <2>1. UNCHANGED sharedVars
    BY <1>3, Zenon DEF ProducerStep, Call, CheckState, FastPath, SlowPath, BeginScan, ScanGating,
                ScanGrants, ScanRefuses, ClassifyRefusal, WriteSlot, Publish
  <2>2. producer' # "poison" \/ producer' = producer
    BY <1>3, Zenon DEF ProducerStep, Call, CheckState, FastPath, SlowPath, BeginScan, ScanGating,
                ScanGrants, ScanRefuses, ClassifyRefusal, WriteSlot, Publish
  <2> QED BY <2>1, <2>2
<1> QED BY <1>1, <1>2, <1>3

\* The owner poisons nothing; a join may record one more panic.
LEMMA CoreKeepsFailureInv ==
    ASSUME TypeOK, FailureInv, CoreNext
    PROVE  FailureInv'
<1> USE NoneAssumption DEF FailurePhase
<1>1. UNCHANGED <<poisoned, consumerVars, producer>>
  BY Zenon DEF CoreNext, BeginStop, BeginShutdown, BeginHalt, IntoProducer, CoreStep, flagVars,
               producerVars, DrainSnapshot, DrainChecksPoison, DrainChecksThreads,
               DrainChecksBacklog, DrainReturns, DrainGoesOn, StopConsumers, JoinConsumers,
               RemoveGatingSequence
<1>2. first_failure' = first_failure \/ first_failure' = FirstFailure("ConsumerPanic")
  BY Zenon DEF CoreNext, BeginStop, BeginShutdown, BeginHalt, IntoProducer, CoreStep, flagVars,
               DrainSnapshot, DrainChecksPoison, DrainChecksThreads,
               DrainChecksBacklog, DrainReturns, DrainGoesOn, StopConsumers, JoinConsumers,
               RemoveGatingSequence
<1>3. first_failure # None => first_failure' # None
  BY <1>2 DEF FirstFailure
<1> QED BY <1>1, <1>3 DEF FailureInv, consumerVars

\* Whoever sees the poison flag finds the failure behind it on record, however
\* many threads fail at once (poison_with_failure, PoisonOnPanic).
THEOREM PoisonIsExplained == Spec => []PoisonHasACause
<1>1. Init => FailureInv
  BY DEF Init, PipelineInit, FailureInv
<1>2. TypeOK /\ FailureInv /\ [Next]_vars => FailureInv'
  <2>1. ASSUME FailureInv, UNCHANGED vars PROVE FailureInv'
    BY <2>1 DEF FailureInv, vars, sharedVars, flagVars, consumerVars, producerVars
  <2> QED BY <2>1, ConsumerKeepsFailureInv, ProducerKeepsFailureInv, CoreKeepsFailureInv DEF Next
<1>3. FailureInv => PoisonHasACause
  BY DEF FailureInv, PoisonHasACause
<1> QED BY <1>1, <1>2, <1>3, TypeCorrect, PTL DEF Spec

-----------------------------------------------------------------------------
(* The terminal flags.                                                     *)

\* The flags are raised and never lowered; closing needs the producer idle.
LEMMA FlagsLast ==
    ASSUME TypeOK, Next
    PROVE  /\ poisoned => poisoned'
           /\ closed => closed'
           /\ closed' => closed \/ (producer = "idle" /\ UNCHANGED producerVars)
<1> DEFINE Raised(flag) == flag' = flag \/ flag' = TRUE
<1>1. ASSUME NEW c \in Consumers, ConsumerNext(c)
      PROVE  Raised(poisoned) /\ closed' = closed
  BY <1>1, Zenon DEF ConsumerNext, ConsumerStep, AwaitStep, StartThread, PollShutdown, BatchStart,
              HandleEvent, HandlerFails, HandlerPanics, CommitBatch, OnShutdown, RecordFailure,
              PoisonProducers, ReadCursor, ReadDependent, flagVars
<1>2. ASSUME Call \/ ProducerStep
      PROVE  Raised(poisoned) /\ closed' = closed
  BY <1>2, Zenon DEF ProducerStep, Call, CheckState, FastPath, SlowPath, BeginScan, ScanGating,
              ScanGrants, ScanRefuses, ClassifyRefusal, WriteSlot, Publish, UpdatePanics,
              PoisonOnPanic, sharedVars, flagVars
<1>3. ASSUME CoreNext
      PROVE  /\ poisoned' = poisoned /\ Raised(closed)
             /\ producer = "idle" /\ UNCHANGED producerVars
  BY <1>3, Zenon DEF CoreNext, BeginStop, BeginShutdown, BeginHalt, IntoProducer, CoreStep, flagVars,
              DrainSnapshot, DrainChecksPoison, DrainChecksThreads, DrainChecksBacklog,
              DrainReturns, DrainGoesOn, StopConsumers, JoinConsumers, RemoveGatingSequence
<1>4. /\ Raised(poisoned) /\ Raised(closed)
      /\ closed' = closed \/ (producer = "idle" /\ UNCHANGED producerVars)
  BY <1>1, <1>2, <1>3, Zenon DEF Next
<1> HIDE DEF Next
<1>5. poisoned \in BOOLEAN /\ closed \in BOOLEAN
  BY DEF TypeOK, PipelineTypeOK
<1> QED BY <1>4, <1>5

\* A producer that meets a terminal flag at the head of its claim never gets
\* as far as a claim.
LEMMA RefusedStaysRefused ==
    ASSUME TypeOK, Call \/ ProducerStep, closed \/ poisoned, producer \in Refusing
    PROVE  /\ producer' \in Refusing /\ cursor' = cursor
           /\ ~Call => outcome' \in {outcome, "Poisoned", "Shutdown"}
<1> USE DEF Refusing, Return
<1>1. CASE Call
  BY <1>1 DEF Call
<1>2. CASE CheckState
  BY <1>2 DEF CheckState, claim_state_error
<1>3. CASE BeginScan \/ ScanGating
  BY <1>3 DEF BeginScan, ScanGating, callVars
<1>4. CASE ClassifyRefusal
  BY <1>4 DEF ClassifyRefusal
<1>5. ~(FastPath \/ SlowPath \/ ScanGrants \/ ScanRefuses \/ WriteSlot \/ Publish
        \/ UpdatePanics \/ PoisonOnPanic)
  BY DEF FastPath, SlowPath, ScanGrants, ScanRefuses, WriteSlot, Publish, UpdatePanics,
         PoisonOnPanic
<1> QED BY <1>1, <1>2, <1>3, <1>4, <1>5, Zenon DEF ProducerStep

\* Every step keeps what is known of a call that began under a terminal flag.
LEMMA NextKeepsCallInv ==
    ASSUME TypeOK, CallInv, [Next]_vars
    PROVE  CallInv'
<1>1. CASE Call
  <2>1. /\ terminal_call' = (closed \/ poisoned) /\ producer' = "check" /\ outcome' = "none"
        /\ UNCHANGED <<closed, poisoned>>
    BY <1>1, Zenon DEF Call, sharedVars, flagVars
  <2> QED BY <2>1, Zenon DEF CallInv, Refusing
<1>2. CASE ProducerStep
  <2>1. terminal_call' = terminal_call
    BY <1>2, Zenon DEF ProducerStep, CheckState, FastPath, SlowPath, BeginScan, ScanGating, ScanGrants,
                ScanRefuses, ClassifyRefusal, WriteSlot, Publish, UpdatePanics, PoisonOnPanic,
                callVars
  <2>2. CASE ~Call
    BY <1>2, <2>1, <2>2, FlagsLast, RefusedStaysRefused DEF CallInv, Next
  <2> QED BY <1>1, <2>2
<1>3. CASE UNCHANGED producerVars /\ Next
  BY <1>3, FlagsLast DEF CallInv, producerVars, callVars
<1>4. CASE UNCHANGED vars
  BY <1>4, Zenon DEF CallInv, vars, sharedVars, flagVars, producerVars, callVars
<1> QED BY <1>1, <1>2, <1>3, <1>4 DEF Next, ConsumerNext, CoreNext

\* classify_try_rejection, for every interleaving of the flags with the claim:
\* a call that began after the poison or the close is never granted, and never
\* told to try again.
THEOREM RefusalsAreTerminal == Spec => []TerminalIsNotTransient
<1>1. Init => CallInv
  BY DEF Init, CallInv
<1>2. CallInv => TerminalIsNotTransient
  BY DEF CallInv, TerminalIsNotTransient
<1> QED BY <1>1, <1>2, NextKeepsCallInv, TypeCorrect, PTL DEF Spec

-----------------------------------------------------------------------------
(* The drain.                                                              *)

\* What the last stage has committed every stage has committed.
LEMMA ConsumedByAll ==
    ASSUME IInv, core = "backlog", Consumed(cursor), NEW c \in Consumers
    PROVE  consumer_sequence[c] >= cursor
<1>1. gating_sequences = Terminal
  BY DEF IInv, GatingInv
<1>2. cursor \in Int /\ PipelineTypeOK /\ \A e \in Consumers : Progress(e)
  BY DEF IInv, TypeOK, PipelineTypeOK, ConsumerInv
<1>3. /\ \A g \in Terminal : cursor <= consumer_sequence[g]
      /\ consumer_sequence[c] \in Int /\ \A g \in Terminal : consumer_sequence[g] \in Int
  BY <1>1, <1>2 DEF Consumed, PipelineTypeOK, Terminal
<1> QED BY <1>2, <1>3, LastStageIsLast

\* The steps of a stop keep the drain's promise.
LEMMA CoreKeepsDrainInv ==
    ASSUME IInv, DrainInv, CoreNext
    PROVE  DrainInv'
<1>1. /\ UNCHANGED <<producer, cursor, consumer_sequence>> /\ producer = "idle"
  BY Zenon DEF CoreNext, BeginStop, BeginShutdown, BeginHalt, IntoProducer, CoreStep,
               consumerVars, producerVars, DrainSnapshot, DrainChecksPoison, DrainChecksThreads,
               DrainChecksBacklog, DrainReturns, DrainGoesOn, StopConsumers, JoinConsumers,
               RemoveGatingSequence
<1> USE DEF DrainInv, Refusing, flagVars
<1>2. CASE BeginStop
  BY <1>1, <1>2 DEF BeginStop, BeginShutdown, BeginHalt, IntoProducer
<1>3. CASE DrainSnapshot
  BY <1>1, <1>3 DEF DrainSnapshot
<1>4. CASE DrainChecksPoison
  BY <1>1, <1>4, Zenon DEF DrainChecksPoison, DrainReturns, DrainGoesOn
<1>5. CASE DrainChecksThreads
  BY <1>1, <1>5, Zenon DEF DrainChecksThreads, DrainReturns, DrainGoesOn
<1>6. CASE DrainChecksBacklog
  BY <1>1, <1>6, ConsumedByAll, Zenon DEF DrainChecksBacklog, DrainReturns, DrainGoesOn
<1>7. CASE StopConsumers \/ JoinConsumers \/ RemoveGatingSequence
  BY <1>1, <1>7 DEF StopConsumers, JoinConsumers, RemoveGatingSequence
<1> QED BY <1>2, <1>3, <1>4, <1>5, <1>6, <1>7, Zenon DEF CoreNext, CoreStep

\* Every step keeps the drain's promise: a producer that could move the
\* cursor would have claimed before the close.
LEMMA NextKeepsDrainInv ==
    ASSUME IInv, DrainInv, [Next]_vars
    PROVE  DrainInv'
<1>1. CASE Call \/ ProducerStep
  <2>1. UNCHANGED <<coreVars, consumerVars, closed>>
    BY <1>1, Zenon DEF ProducerStep, Call, CheckState, FastPath, SlowPath, BeginScan, ScanGating,
                ScanGrants, ScanRefuses, ClassifyRefusal, WriteSlot, Publish, UpdatePanics,
                PoisonOnPanic, sharedVars, flagVars
  <2>2. CASE closed
    <3>1. producer' \in Refusing /\ cursor' = cursor
      BY <1>1, <2>2, RefusedStaysRefused DEF DrainInv, IInv
    <3> QED BY <2>1, <3>1, Zenon DEF DrainInv, coreVars, consumerVars
  <2>3. CASE ~closed
    BY <2>1, <2>3 DEF DrainInv, coreVars, consumerVars
  <2> QED BY <2>2, <2>3
<1>2. ASSUME NEW c \in Consumers, ConsumerNext(c) PROVE DrainInv'
  <2>1. UNCHANGED <<coreVars, producer, cursor, closed>>
    BY <1>2, Zenon DEF ConsumerNext, ConsumerStep, AwaitStep, StartThread, PollShutdown, BatchStart,
                HandleEvent, HandlerFails, HandlerPanics, CommitBatch, OnShutdown, RecordFailure,
                PoisonProducers, ReadCursor, ReadDependent, flagVars, producerVars
  <2>2. \A e \in Consumers : consumer_sequence'[e] >= consumer_sequence[e]
    BY <1>2, ConsumerMovesAlone DEF IInv, MovesAlone
  <2>3. /\ cursor \in Int
        /\ \A e \in Consumers : consumer_sequence[e] \in Int /\ consumer_sequence'[e] \in Int
    BY <1>2, ConsumerKeepsTypes DEF IInv, TypeOK, PipelineTypeOK
  <2>4. UNCHANGED <<core, drain_target, drained, producer, cursor, closed>>
    BY <2>1, Zenon DEF coreVars
  <2> QED BY <2>2, <2>3, <2>4 DEF DrainInv
<1>3. CASE UNCHANGED vars
  BY <1>3 DEF DrainInv, vars, sharedVars, flagVars, consumerVars, coreVars, producerVars
<1> QED BY <1>1, <1>2, <1>3, CoreKeepsDrainInv, Zenon DEF Next

\* A shutdown that reports Ok left no published event unhandled at any stage,
\* although drain() compares one snapshot with the last stage only.
THEOREM DrainsAreComplete == Spec => []DrainIsComplete
<1>1. Init => DrainInv
  BY DEF Init, PipelineInit, DrainInv
<1>2. DrainInv => DrainIsComplete
  BY Zenon DEF DrainInv, DrainIsComplete
<1> QED BY <1>1, <1>2, NextKeepsDrainInv, Invariance, PTL DEF Spec
=============================================================================
