------------------------- MODULE MultiPipelineSteps -------------------------
(***************************************************************************)
(* Steps of MultiPipeline and its invariant IInv: the consumers and the    *)
(* handle's thread keep it; what a producer's step can change; a producer  *)
(* keeps the bounds it gates by, and a step that writes no slot keeps the  *)
(* claims, the ring and the flags.                                         *)
(***************************************************************************)
EXTENDS MultiPipelineTypes

USE SizeAssumption, MultiAssumption

-----------------------------------------------------------------------------
(* Consumers.  A barrier's scan of the flags passes what is published.     *)

\* What is said of a consumer survives any step that leaves its locals alone
\* and takes nothing back.
LEMMA ConsumerFrame ==
    ASSUME TypeOK, TypeOK', NEW c \in Consumers, ConsumerInv(c),
           pc'[c] = pc[c], unread'[c] = unread[c],
           consumer_sequence'[c] = consumer_sequence[c],
           next_sequence'[c] = next_sequence[c],
           available_sequence'[c] = available_sequence[c],
           scan_at'[c] = scan_at[c],
           cursor' >= cursor, published \subseteq published',
           \A d \in Consumers : consumer_sequence'[d] >= consumer_sequence[d]
    PROVE  ConsumerInv(c)'
<1>1. Progress(c)'
  BY ProgressFrame DEF TypeOK, ConsumerInv
<1>2. cursor \in Int /\ cursor' \in Int /\ available_sequence[c] \in Int
  BY DEF TypeOK, PipelineTypeOK
<1> QED BY <1>1, <1>2 DEF ConsumerInv

\* What a consumer has handled is published, so it is below the cursor.
LEMMA HandledIsPublished ==
    ASSUME TypeOK, CursorInv, NEW c \in Consumers, ConsumerInv(c)
    PROVE  /\ next_sequence[c] - 1 <= cursor /\ consumer_sequence[c] <= cursor
           /\ 0 .. consumer_sequence[c] \subseteq published
<1>1. /\ consumer_sequence[c] \in Int /\ next_sequence[c] \in Int /\ cursor \in Int
      /\ consumer_sequence[c] < next_sequence[c] /\ -1 <= consumer_sequence[c]
      /\ 0 .. next_sequence[c] - 1 \subseteq published
      /\ -1 <= cursor /\ published \subseteq 0 .. cursor
  BY DEF TypeOK, PipelineTypeOK, ConsumerInv, Progress, CursorInv
<1>2. CASE next_sequence[c] = 0
  BY <1>1, <1>2
<1>3. CASE next_sequence[c] > 0
  <2>1. next_sequence[c] - 1 \in 0 .. cursor
    BY <1>1, <1>3
  <2> QED BY <1>1, <2>1
<1> QED BY <1>1, <1>2, <1>3

\* While a consumer gates the producers, the cursor is within one lap of every
\* consumer: whoever is not in the last stage is ahead of it.
LEMMA CursorIsWithinALap ==
    ASSUME TypeOK, \A e \in Consumers : ConsumerInv(e), GateInv, Gated, NEW c \in Consumers
    PROVE  cursor - Size <= consumer_sequence[c]
<1>1. /\ PipelineTypeOK /\ cursor - Size \in Int /\ \A e \in Consumers : Progress(e)
      /\ \A g \in Terminal : cursor - Size <= consumer_sequence[g]
  BY DEF TypeOK, PipelineTypeOK, ConsumerInv, GateInv
<1> QED BY <1>1, LastStageIsLast

\* One parity bit per slot tells the last lap from the one before (is_available).
LEMMA FlagTellsPublished ==
    ASSUME TypeOK, FlagInv, Gated, NEW s \in Nat, s > cursor - Size, s <= cursor
    PROVE  is_available(s) <=> s \in published
<1>1. round_flag(s) \in 0 .. 1 /\ round_flag(s - Size) = 1 - round_flag(s)
  BY OneLapBack
<1>2. s \in cursor - Size + 1 .. cursor
  BY DEF TypeOK, PipelineTypeOK
<1>3. available[slot_index(s)] = IF s < 0 \/ s \in published THEN LapFlag(s) ELSE LapFlag(s - Size)
  BY <1>2 DEF FlagInv
<1>4. CASE s \in published
  BY <1>3, <1>4 DEF LapFlag, is_available
<1>5. CASE s \notin published
  BY <1>1, <1>3, <1>5 DEF LapFlag, is_available
<1> QED BY <1>4, <1>5

\* A load of the scan passes only what is published: the flags it reads are of
\* the lap of the sequences it asks about.
LEMMA ScanPassesPublished ==
    ASSUME IInv, NEW c \in Consumers, pc[c] = "resolve",
           NEW s \in scan_at[c] .. available_sequence[c]
    PROVE  is_available(s) <=> s \in published
<1>1. /\ consumer_sequence[c] \in Int /\ next_sequence[c] \in Int /\ cursor \in Int
      /\ scan_at[c] \in Int /\ available_sequence[c] \in Int
  BY DEF IInv, TypeOK, PipelineTypeOK
<1>2. /\ -1 <= consumer_sequence[c] /\ consumer_sequence[c] < next_sequence[c]
      /\ next_sequence[c] <= scan_at[c] /\ available_sequence[c] <= cursor
  BY DEF IInv, ConsumerInv, Progress
<1>3. Gated
  BY DEF IInv, GatingInv
<1>4. cursor - Size <= consumer_sequence[c]
  BY <1>3, CursorIsWithinALap DEF IInv
<1>5. s \in Nat /\ s > cursor - Size /\ s <= cursor
  BY <1>1, <1>2, <1>4
<1> QED BY <1>3, <1>5, FlagTellsPublished DEF IInv

\* A load of the scan keeps the consumer's part of the invariant.
LEMMA ResolveKeepsConsumer ==
    ASSUME IInv, TypeOK', NEW c \in Consumers, ResolvePublished(c), UNCHANGED producerVars
    PROVE  ConsumerInv(c)'
<1> DEFINE chunk == Chunk(scan_at[c], available_sequence[c])
           gaps  == {s \in chunk : ~is_available(s)}
<1>1. /\ consumer_sequence[c] \in Int /\ next_sequence[c] \in Int
      /\ available_sequence[c] \in Int /\ scan_at[c] \in Int /\ cursor \in Int
      /\ \A d \in Consumers : consumer_sequence[d] \in Int
      /\ DOMAIN pc = Consumers /\ available_sequence \in [Consumers -> Int]
      /\ scan_at \in [Consumers -> Int]
  BY Zenon DEF IInv, TypeOK, PipelineTypeOK
<1>2. /\ ConsumerInv(c) /\ pc[c] = "resolve"
      /\ UNCHANGED <<consumer_sequence, next_sequence, unread, cursor, published>>
  BY DEF IInv, ResolvePublished, producerVars
<1>3. /\ -1 <= consumer_sequence[c] /\ next_sequence[c] = consumer_sequence[c] + 1
      /\ Committed(c, next_sequence[c] - 1) /\ Committed(c, available_sequence[c])
      /\ next_sequence[c] <= scan_at[c] /\ scan_at[c] <= available_sequence[c]
      /\ available_sequence[c] <= cursor
      /\ 0 .. next_sequence[c] - 1 \subseteq published
      /\ 0 .. scan_at[c] - 1 \subseteq published
  BY <1>2 DEF ConsumerInv, Progress
<1>4. PICK m \in scan_at[c] .. available_sequence[c] : chunk = scan_at[c] .. m /\ Max(chunk) = m
  BY <1>2, ScanStops, Zenon DEF IInv
<1>5. \A s \in chunk : s \in gaps \/ s \in published
  BY <1>1, <1>2, <1>4, ScanPassesPublished
<1>6. ASSUME NEW s \in Int, next_sequence[c] <= s + 1, s <= available_sequence[c],
             0 .. s \subseteq published, available_sequence'[c] = s,
             pc'[c] = IF s >= next_sequence[c] THEN "batch" ELSE "loop"
      PROVE  ConsumerInv(c)'
  <2>1. Committed(c, s)
    BY <1>1, <1>3, <1>6 DEF Committed
  <2>2. Progress(c)'
    BY <1>1, <1>2, <1>3, <1>6, <2>1 DEF Progress, Committed
  <2> QED BY <1>1, <1>2, <1>3, <1>6, <2>2 DEF ConsumerInv
<1>7. ASSUME gaps # {} PROVE ConsumerInv(c)'
  <2>1. /\ Min(gaps) \in gaps /\ gaps \subseteq chunk
        /\ \A y \in gaps : Min(gaps) <= y
    BY <1>2, <1>7, ScanStops DEF IInv
  <2>2. /\ available_sequence' = [available_sequence EXCEPT ![c] = Min(gaps) - 1]
        /\ pc' = [pc EXCEPT ![c] = IF Min(gaps) > next_sequence[c] THEN "batch" ELSE "loop"]
    BY <1>7 DEF ResolvePublished, GoTo
  <2> DEFINE g == Min(gaps)
  <2>3. /\ g \in Int /\ g >= scan_at[c] /\ g <= available_sequence[c]
        /\ \A s \in scan_at[c] .. g - 1 : s \in chunk /\ s \notin gaps
    <3>1. g \in chunk /\ g \in Int /\ g >= scan_at[c] /\ g <= m
      BY <1>1, <1>4, <2>1
    <3> HIDE DEF g, gaps, chunk
    <3>2. \A y \in gaps : g <= y
      BY <2>1 DEF g
    <3>3. \A s \in scan_at[c] .. g - 1 : s \in chunk /\ s \notin gaps
      BY <1>1, <1>4, <3>1, <3>2
    <3> QED BY <1>1, <1>4, <3>1, <3>3
  <2> HIDE DEF g, gaps, chunk
  <2>4. 0 .. g - 1 \subseteq published
    BY <1>1, <1>3, <1>5, <2>3
  <2>5. available_sequence'[c] = g - 1 /\ pc'[c] = IF g > next_sequence[c] THEN "batch" ELSE "loop"
    BY <1>1, <2>2 DEF g
  <2> QED BY <1>1, <1>3, <1>6, <2>3, <2>4, <2>5
<1>8. ASSUME gaps = {}, m = available_sequence[c] PROVE ConsumerInv(c)'
  <2>1. pc' = [pc EXCEPT ![c] = "batch"] /\ UNCHANGED available_sequence
    BY <1>4, <1>8 DEF ResolvePublished, GoTo
  <2>2. pc'[c] = "batch" /\ available_sequence'[c] = available_sequence[c]
    BY <1>1, <2>1
  <2> HIDE DEF gaps, chunk
  <2>3. 0 .. available_sequence[c] \subseteq published
    BY <1>1, <1>3, <1>4, <1>5, <1>8
  <2> QED BY <1>1, <1>3, <1>6, <2>2, <2>3
<1>9. ASSUME gaps = {}, m # available_sequence[c] PROVE ConsumerInv(c)'
  <2>1. scan_at' = [scan_at EXCEPT ![c] = m + 1] /\ UNCHANGED <<available_sequence, pc>>
    BY <1>4, <1>9 DEF ResolvePublished
  <2>2. scan_at'[c] = m + 1
    BY <1>1, <2>1
  <2> HIDE DEF gaps, chunk
  <2>3. m \in Int /\ m + 1 <= available_sequence[c] /\ next_sequence[c] <= m + 1
    BY <1>1, <1>3, <1>4, <1>9
  <2>4. 0 .. (m + 1) - 1 \subseteq published
    BY <1>1, <1>3, <1>4, <1>5, <1>9, <2>3
  <2>5. Progress(c)'
    BY <1>2, <2>1 DEF ConsumerInv, Progress, Committed
  <2> QED BY <1>1, <1>2, <1>3, <2>1, <2>2, <2>3, <2>4, <2>5 DEF ConsumerInv
<1> QED BY <1>7, <1>8, <1>9

\* A step of c moves only c, and leaves the producers alone.
LEMMA ConsumerMovesAlone ==
    ASSUME TypeOK, \A e \in Consumers : ConsumerInv(e),
           NEW c \in Consumers, ConsumerNext(c)
    PROVE  /\ MovesAlone(c) /\ UNCHANGED producerVars
           /\ \A e \in Consumers \ {c} : scan_at'[e] = scan_at[e]
<1>1. PipelineTypeOK /\ Progress(c) /\ scan_at \in [Consumers -> Int]
  BY DEF TypeOK, ConsumerInv
<1>2. \A e \in Consumers \ {c} : scan_at'[e] = scan_at[e]
  BY <1>1, Zenon DEF ConsumerNext, AwaitStep, ResolvePublished
<1>3. CASE ResolvePublished(c)
  <2>1. pc[c] = "resolve" /\ UNCHANGED <<consumer_sequence, next_sequence, unread, coreVars, cursor, ring>>
    BY <1>3, Zenon DEF ResolvePublished
  <2>2. \A e \in Consumers \ {c} : /\ pc'[e] = pc[e] /\ available_sequence'[e] = available_sequence[e]
    BY <1>1, <1>3, Zenon DEF ResolvePublished, GoTo, PipelineTypeOK
  <2> QED BY <1>1, <1>2, <2>1, <2>2 DEF PipelineTypeOK, MovesAlone, ConsumerNext
<1>4. CASE ~ResolvePublished(c)
  <2>1. MovesAlone(c)
    BY <1>1, <1>4, StepMovesAlone, WaitMovesAlone DEF ConsumerNext, AwaitStep
  <2> QED BY <1>2, <2>1 DEF ConsumerNext
<1> QED BY <1>3, <1>4

\* A step of c keeps c's own part of the invariant.
LEMMA ConsumerKeepsItself ==
    ASSUME IInv, TypeOK', NEW c \in Consumers, ConsumerNext(c)
    PROVE  ConsumerInv(c)'
<1>1. PipelineTypeOK /\ \A e \in Consumers : Progress(e)
  BY DEF IInv, TypeOK, ConsumerInv
<1>2. /\ next_sequence \in [Consumers -> Int] /\ next_sequence[c] \in Int
      /\ available_sequence'[c] \in Int /\ cursor \in Int
      /\ \A e \in Consumers : consumer_sequence[e] \in Int
      /\ 0 .. next_sequence[c] - 1 \subseteq published
      /\ pc[c] \in {"batch", "event"} => 0 .. available_sequence[c] \subseteq published
      /\ UNCHANGED published
  BY DEF IInv, TypeOK, PipelineTypeOK, ConsumerInv, ConsumerNext, producerVars
<1>3. CASE ConsumerStep(c)
  <2>1. Progress(c)'
    BY <1>1, <1>3, StepKeepsProgress
  <2>2. /\ available_sequence' = available_sequence /\ pc'[c] # "resolve"
        /\ pc'[c] \in {"batch", "event", "commit"} => pc[c] \in {"batch", "event"}
        /\ \/ next_sequence' = next_sequence
           \/ /\ pc[c] = "event" /\ next_sequence[c] <= available_sequence[c]
              /\ next_sequence' = [next_sequence EXCEPT ![c] = @ + 1]
    BY <1>1, <1>3, StepHandlesAvailable, Zenon
  <2> QED BY <1>2, <2>1, <2>2 DEF ConsumerInv
<1>4. CASE AwaitStep(c)
  <2>1. /\ Progress(c)' /\ UNCHANGED <<consumer_sequence, next_sequence, cursor>>
        /\ pc'[c] \in {"await", "loop", "resolve"}
        /\ pc'[c] = "resolve" =>
              \/ available_sequence'[c] = cursor
              \/ \E d \in Consumers : available_sequence'[c] <= consumer_sequence[d]
    BY <1>1, <1>4, WaitKeepsProgress DEF AwaitStep
  <2>2. \A d \in Consumers : consumer_sequence[d] <= cursor
    BY HandledIsPublished DEF IInv
  <2>3. pc'[c] = "resolve" => scan_at'[c] = next_sequence[c] /\ next_sequence[c] <= available_sequence'[c]
    BY <1>4, <2>1 DEF IInv, TypeOK, AwaitStep, Progress
  <2> QED BY <1>2, <2>1, <2>2, <2>3 DEF ConsumerInv
<1>5. CASE ResolvePublished(c)
  BY <1>5, ResolveKeepsConsumer DEF ConsumerNext
<1> QED BY <1>3, <1>4, <1>5 DEF ConsumerNext

-----------------------------------------------------------------------------
(* The other threads, as a consumer or the handle's thread steps.          *)

\* What is said of claims, gating, ring and flags survives any step that leaves
\* the producers' state alone, moves no sequence back and gates nobody anew.
LEMMA ProducerFrame ==
    ASSUME TypeOK, TypeOK', CursorInv, GateInv, RingInv, FlagInv,
           UNCHANGED <<producerVars, cursor, ring>>, Gated' => Gated,
           \A d \in Consumers : consumer_sequence'[d] >= consumer_sequence[d]
    PROVE  CursorInv' /\ GateInv' /\ RingInv' /\ FlagInv'
<1> USE DEF producerVars, callVars, scanVars
<1>1. /\ \A d \in Consumers : consumer_sequence[d] \in Int /\ consumer_sequence'[d] \in Int
      /\ cached_gating_sequence \in Int /\ cursor - Size \in Int
      /\ \A p \in Producers : min_sequence[p] \in Int /\ wrap_point(p) \in Int
      /\ Terminal \subseteq Consumers
  BY DEF TypeOK, PipelineTypeOK, wrap_point, Terminal
<1>2. \A p \in Producers : /\ Claimed(p)' = Claimed(p) /\ end_sequence(p)' = end_sequence(p)
                           /\ wrap_point(p)' = wrap_point(p)
  BY DEF Claimed, end_sequence, wrap_point
<1>3. CursorInv'
  BY <1>2, Zenon DEF CursorInv, ClaimInv
<1>4. GateInv'
  BY <1>1, <1>2 DEF GateInv
<1>5. RingInv'
  BY <1>2, Zenon DEF RingInv
<1>6. FlagInv'
  BY Zenon DEF FlagInv
<1> QED BY <1>3, <1>4, <1>5, <1>6

\* The steps of a consumer thread keep the invariant.
LEMMA ConsumerKeepsIInv ==
    ASSUME IInv, NEW c \in Consumers, ConsumerNext(c)
    PROVE  IInv'
<1>1. TypeOK /\ TypeOK' /\ \A e \in Consumers : ConsumerInv(e)
  BY ConsumerKeepsTypes DEF IInv
<1>2. /\ MovesAlone(c) /\ UNCHANGED producerVars
      /\ \A e \in Consumers \ {c} : scan_at'[e] = scan_at[e]
  BY <1>1, ConsumerMovesAlone
<1>3. cursor' >= cursor /\ published \subseteq published'
  BY <1>1, <1>2 DEF TypeOK, PipelineTypeOK, MovesAlone, producerVars
<1>4. \A e \in Consumers : ConsumerInv(e)'
  <2> TAKE e \in Consumers
  <2>1. CASE e = c
    BY <1>1, <2>1, ConsumerKeepsItself
  <2>2. CASE e # c
    BY <1>1, <1>2, <1>3, <2>2, ConsumerFrame DEF MovesAlone
  <2> QED BY <2>1, <2>2
<1>5. Gated' = Gated /\ GatingInv'
  <2>1. /\ pc[c] # "done" /\ UNCHANGED coreVars
        /\ \A e \in Consumers \ {c} : pc'[e] = pc[e]
    BY <1>2, Zenon DEF MovesAlone
  <2>2. core' = core /\ gating_sequences' = gating_sequences
    BY <2>1 DEF coreVars
  <2>3. Gated
    BY <2>1, Zenon DEF IInv, GatingInv
  <2> QED BY <2>2, <2>3, Zenon DEF IInv, GatingInv, Gated
<1>6. CursorInv' /\ GateInv' /\ RingInv' /\ FlagInv'
  BY <1>1, <1>2, <1>5, ProducerFrame DEF IInv, MovesAlone
<1> QED BY <1>1, <1>4, <1>5, <1>6 DEF IInv

\* The steps of the handle's thread keep the invariant.
LEMMA CoreKeepsIInv ==
    ASSUME IInv, CoreNext
    PROVE  IInv'
<1>1. TypeOK /\ TypeOK'
  BY CoreKeepsTypes DEF IInv
<1>2. /\ UNCHANGED <<producerVars, consumerVars, cursor, ring, scan_at>>
      /\ \/ /\ core \notin {"ungate", "stopped"} /\ gating_sequences' = gating_sequences
            /\ core' \in {"ungate", "stopped"} => \A c \in Consumers : pc[c] = "done"
         \/ core = "ungate" /\ core' \in {"ungate", "stopped"}
  BY CoreStepFrame, Zenon DEF CoreNext
<1>3. \A d \in Consumers : consumer_sequence'[d] >= consumer_sequence[d]
  <2>1. consumer_sequence' = consumer_sequence
    BY <1>2 DEF consumerVars
  <2>2. \A d \in Consumers : consumer_sequence[d] \in Int
    BY <1>1 DEF TypeOK, PipelineTypeOK
  <2> QED BY <2>1, <2>2
<1>4. cursor' >= cursor /\ published \subseteq published'
  BY <1>1, <1>2 DEF TypeOK, PipelineTypeOK, producerVars
<1>5. \A c \in Consumers : ConsumerInv(c)'
  BY <1>1, <1>2, <1>3, <1>4, ConsumerFrame, Zenon DEF IInv, consumerVars
<1>6. GatingInv' /\ (Gated' => Gated)
  BY <1>2 DEF IInv, GatingInv, Gated, consumerVars
<1>7. CursorInv' /\ GateInv' /\ RingInv' /\ FlagInv'
  BY <1>1, <1>2, <1>3, <1>6, ProducerFrame DEF IInv
<1> QED BY <1>1, <1>5, <1>6, <1>7 DEF IInv

-----------------------------------------------------------------------------
(* What a producer's step changes.                                         *)

\* A producer's step leaves the locals of the other producers alone.
OthersStay(p) ==
    \A q \in Producers \ {p} :
        /\ producer'[q] = producer[q] /\ current'[q] = current[q] /\ n'[q] = n[q]
        /\ at'[q] = at[q] /\ min_sequence'[q] = min_sequence[q] /\ unscanned'[q] = unscanned[q]

\* The claim that p wins with its compare-and-set.
Claims(p) == CompareAndSet(p) /\ cursor = current[p]

\* A step that neither claims, writes nor publishes, and so gives p no slot.
QuietStep(p) ==
    /\ UNCHANGED <<cursor, ring, available, published>>
    /\ producer'[p] \notin {"write", "publish"}
    /\ current'[p] \in {current[p], cursor, -1}
    /\ producer'[p] = "poison" => producer[p] = "write" /\ current'[p] = current[p] /\ n'[p] = n[p]

\* A producer's locals are sequence numbers, and so is the end of its claim.
LEMMA LocalsAreTyped ==
    ASSUME TypeOK, NEW p \in Producers
    PROVE  /\ current[p] \in Int /\ n[p] \in 1 .. Size /\ at[p] \in Int
           /\ end_sequence(p) \in Int /\ wrap_point(p) \in Int
BY DEF TypeOK, end_sequence, wrap_point

\* A return leaves the producer idle, its locals reset.
LEMMA ReturnIsQuiet ==
    ASSUME TypeOK, NEW p \in Producers, NEW result, Return(p, result)
    PROVE  /\ OthersStay(p) /\ producer'[p] = "idle" /\ current'[p] = -1
           /\ min_sequence'[p] = -1 /\ unscanned'[p] = {}
BY DEF TypeOK, Return, PGoTo, OthersStay, INITIAL_CURSOR_VALUE

\* Every step of a producer is of this kind, or claims, writes or publishes.
LEMMA StepsAreQuiet ==
    ASSUME TypeOK, NEW p \in Producers, Call(p) \/ ProducerStep(p)
    PROVE  /\ OthersStay(p)
           /\ QuietStep(p) \/ Claims(p) \/ WriteSlot(p) \/ Publish(p)
<1> USE DEF callVars, scanVars
<1>0. /\ DOMAIN producer = Producers /\ DOMAIN n = Producers /\ DOMAIN current = Producers
      /\ DOMAIN at = Producers /\ DOMAIN min_sequence = Producers /\ DOMAIN unscanned = Producers
  BY Zenon DEF TypeOK
<1>1. CASE Call(p)
  BY <1>0, <1>1, Zenon DEF Call, PGoTo, OthersStay, QuietStep
<1>2. CASE CheckClosed(p)
  BY <1>0, <1>2, ReturnIsQuiet, Zenon DEF CheckClosed, Refuse, Stay, PGoTo, OthersStay, QuietStep
<1>3. CASE CheckPoisoned(p)
  BY <1>0, <1>3, ReturnIsQuiet, Zenon DEF CheckPoisoned, Refuse, Stay, PGoTo, OthersStay, QuietStep
<1>4. CASE ReadClaimed(p)
  BY <1>0, <1>4, Zenon DEF ReadClaimed, PGoTo, OthersStay, QuietStep
<1>5. CASE CheckCached(p)
  BY <1>0, <1>5, Zenon DEF CheckCached, PGoTo, OthersStay, QuietStep
<1>6. CASE LoadGating(p)
  BY <1>0, <1>6, Zenon DEF LoadGating, PGoTo, OthersStay, QuietStep
<1>7. CASE ScanGating(p)
  BY <1>0, <1>7, Zenon DEF ScanGating, OthersStay, QuietStep
<1>8. CASE EndScan(p)
  BY <1>0, <1>8, Zenon DEF EndScan, Retry, PGoTo, OthersStay, QuietStep
<1>9. CASE CompareAndSet(p)
  BY <1>0, <1>9, Zenon DEF CompareAndSet, Retry, PGoTo, OthersStay, QuietStep, Claims
<1>10. CASE ClassifyRefusal(p)
  BY <1>10, ReturnIsQuiet, Zenon DEF ClassifyRefusal, QuietStep
<1>11. CASE WriteSlot(p)
  BY <1>0, <1>11, Zenon DEF WriteSlot, PGoTo, OthersStay
<1>12. CASE Publish(p)
  <2>1. CASE Return(p, "Ok")
    BY <1>12, <2>1, ReturnIsQuiet, Zenon
  <2>2. CASE ~Return(p, "Ok")
    BY <1>0, <1>12, <2>2, Zenon DEF Publish, OthersStay
  <2> QED BY <2>1, <2>2
<1>13. CASE UpdatePanics(p)
  BY <1>0, <1>13, Zenon DEF UpdatePanics, PGoTo, OthersStay, QuietStep
<1>14. CASE PoisonOnPanic(p)
  BY <1>14, ReturnIsQuiet, Zenon DEF PoisonOnPanic, QuietStep
<1> QED
  BY <1>1, <1>2, <1>3, <1>4, <1>5, <1>6, <1>7, <1>8, <1>9, <1>10, <1>11, <1>12, <1>13, <1>14
  DEF ProducerStep

\* A producer's step leaves the consumers and the handle's thread alone, and
\* takes back neither a claim nor a publication.
LEMMA ProducerMovesForward ==
    ASSUME TypeOK, TypeOK', NEW p \in Producers, Call(p) \/ ProducerStep(p)
    PROVE  /\ UNCHANGED <<consumerVars, coreVars, scan_at>>
           /\ cursor' >= cursor /\ published \subseteq published'
<1>1. cursor \in Int /\ current[p] \in Int /\ n[p] \in Nat
  BY DEF TypeOK, PipelineTypeOK
<1>2. UNCHANGED <<consumerVars, coreVars, scan_at>>
  <2> USE DEF sharedVars
  <2>1. CASE Call(p) \/ CheckClosed(p) \/ CheckPoisoned(p) \/ ReadClaimed(p)
    BY <2>1, Zenon DEF Call, CheckClosed, CheckPoisoned, ReadClaimed
  <2>2. CASE CheckCached(p) \/ LoadGating(p) \/ ScanGating(p) \/ EndScan(p)
    BY <2>2, Zenon DEF CheckCached, LoadGating, ScanGating, EndScan
  <2>3. CASE CompareAndSet(p) \/ ClassifyRefusal(p) \/ WriteSlot(p)
    BY <2>3, Zenon DEF CompareAndSet, ClassifyRefusal, WriteSlot
  <2>4. CASE Publish(p) \/ UpdatePanics(p) \/ PoisonOnPanic(p)
    BY <2>4, Zenon DEF Publish, UpdatePanics, PoisonOnPanic
  <2> QED BY <2>1, <2>2, <2>3, <2>4, Zenon DEF ProducerStep
<1>3. \/ cursor' = cursor \/ cursor' = cursor + n[p]
  <2>1. CASE QuietStep(p) \/ WriteSlot(p) \/ Publish(p)
    BY <2>1, Zenon DEF QuietStep, WriteSlot, Publish
  <2>2. CASE Claims(p)
    BY <2>2, Zenon DEF Claims, CompareAndSet
  <2> QED BY <2>1, <2>2, StepsAreQuiet, Zenon
<1>4. published \subseteq published'
  <2>1. CASE QuietStep(p) \/ WriteSlot(p) \/ Publish(p)
    BY <2>1, Zenon DEF QuietStep, WriteSlot, Publish
  <2>2. CASE Claims(p)
    BY <2>2, Zenon DEF Claims, CompareAndSet
  <2> QED BY <2>1, <2>2, StepsAreQuiet, Zenon
<1>5. cursor' >= cursor
  BY <1>1, <1>3
<1> QED BY <1>2, <1>4, <1>5, Zenon

-----------------------------------------------------------------------------
(* Gating.                                                                 *)

\* What a producer relies on when it claims bounds every gating sequence from
\* below: the cached minimum, its scan so far, and the room it found.
LEMMA BoundsAreKept ==
    ASSUME IInv, Gated, NEW p \in Producers, Call(p) \/ ProducerStep(p), NEW g \in Terminal
    PROVE  /\ cached_gating_sequence' <= consumer_sequence[g]
           /\ g \notin unscanned'[p] => min_sequence'[p] <= consumer_sequence[g]
           /\ producer'[p] = "cas" => wrap_point(p)' <= consumer_sequence[g]
           /\ cursor' - Size <= consumer_sequence[g]
<1> USE DEF callVars, scanVars, PGoTo
<1>1. /\ cached_gating_sequence <= consumer_sequence[g]
      /\ g \notin unscanned[p] => min_sequence[p] <= consumer_sequence[g]
      /\ producer[p] = "cas" => wrap_point(p) <= consumer_sequence[g]
      /\ cursor - Size <= consumer_sequence[g]
  BY DEF IInv, GateInv
<1>2. /\ TypeOK /\ DOMAIN producer = Producers /\ DOMAIN min_sequence = Producers
      /\ DOMAIN unscanned = Producers
  BY Zenon DEF IInv, TypeOK
<1>3. /\ -1 <= consumer_sequence[g] /\ consumer_sequence[g] \in Int /\ g \in Consumers
      /\ gating_sequences = Terminal
  BY Zenon DEF IInv, TypeOK, PipelineTypeOK, ConsumerInv, Progress, Terminal, GatingInv
<1>4. /\ current[p] \in Int /\ n[p] \in Int /\ cursor \in Int /\ min_sequence[p] \in Int
      /\ cached_gating_sequence \in Int
  BY DEF IInv, TypeOK, PipelineTypeOK
<1>5. ASSUME NEW result, Return(p, result), UNCHANGED <<cached_gating_sequence, cursor>>
      PROVE  /\ cached_gating_sequence' <= consumer_sequence[g]
             /\ g \notin unscanned'[p] => min_sequence'[p] <= consumer_sequence[g]
             /\ producer'[p] = "cas" => wrap_point(p)' <= consumer_sequence[g]
             /\ cursor' - Size <= consumer_sequence[g]
  BY <1>1, <1>2, <1>3, <1>5, ReturnIsQuiet
<1>6. CASE CheckCached(p)
  <2>1. CASE NeedsScan(p)
    BY <1>1, <1>2, <1>6, <2>1, Zenon DEF CheckCached
  <2>2. CASE ~NeedsScan(p)
    <3>1. wrap_point(p)' = wrap_point(p) /\ wrap_point(p) <= cached_gating_sequence
      BY <1>4, <1>6, <2>2 DEF CheckCached, NeedsScan, wrap_point
    <3>2. min_sequence'[p] = -1 /\ UNCHANGED <<cached_gating_sequence, cursor>>
      BY <1>2, <1>6, <2>2 DEF CheckCached, INITIAL_CURSOR_VALUE
    <3>3. wrap_point(p) \in Int
      BY <1>4 DEF wrap_point
    <3> QED BY <1>1, <1>3, <1>4, <3>1, <3>2, <3>3
  <2> QED BY <2>1, <2>2
<1>7. CASE LoadGating(p)
  BY <1>1, <1>2, <1>3, <1>7, Zenon DEF LoadGating
<1>8. CASE ScanGating(p)
  <2>1. PICK h \in unscanned[p] :
              /\ min_sequence' = [min_sequence EXCEPT ![p] = Min2(@, consumer_sequence[h])]
              /\ unscanned' = [unscanned EXCEPT ![p] = @ \ {h}]
    BY <1>8, Zenon DEF ScanGating
  <2>2. consumer_sequence[h] \in Int
    BY <1>2, <2>1 DEF TypeOK, PipelineTypeOK
  <2>3. producer'[p] # "cas" /\ UNCHANGED <<cached_gating_sequence, cursor>>
    BY <1>8 DEF ScanGating
  <2> QED BY <1>1, <1>2, <1>3, <1>4, <2>1, <2>2, <2>3 DEF Min2
<1>9. CASE EndScan(p)
  <2>1. min_sequence[p] <= consumer_sequence[g] /\ min_sequence'[p] = -1
    BY <1>1, <1>2, <1>9 DEF EndScan, INITIAL_CURSOR_VALUE
  <2>2. cached_gating_sequence' \in {cached_gating_sequence, min_sequence[p]} /\ UNCHANGED cursor
    BY <1>9, Zenon DEF EndScan
  <2>3. producer'[p] = "cas" => wrap_point(p) <= min_sequence[p]
    BY <1>2, <1>9, Zenon DEF EndScan, Retry
  <2>4. wrap_point(p)' = wrap_point(p) /\ wrap_point(p) \in Int
    BY <1>4, <1>9 DEF EndScan, Retry, wrap_point
  <2> QED BY <1>1, <1>3, <1>4, <2>1, <2>2, <2>3, <2>4
<1>10. CASE CompareAndSet(p)
  <2>1. /\ producer'[p] # "cas" /\ cursor' \in {cursor, current[p] + n[p]} /\ producer[p] = "cas"
        /\ UNCHANGED <<cached_gating_sequence, min_sequence, unscanned>>
    BY <1>2, <1>10, Zenon DEF CompareAndSet, Retry
  <2> QED BY <1>1, <1>4, <2>1 DEF wrap_point
<1>11. CASE Publish(p)
  <2>1. CASE Return(p, "Ok")
    BY <1>5, <1>11, <2>1 DEF Publish
  <2>2. CASE ~Return(p, "Ok")
    BY <1>1, <1>11, <2>2, Zenon DEF Publish
  <2> QED BY <2>1, <2>2
<1>12. CASE ClassifyRefusal(p) \/ PoisonOnPanic(p)
  BY <1>5, <1>12, Zenon DEF ClassifyRefusal, PoisonOnPanic
<1>13. CASE CheckClosed(p) \/ CheckPoisoned(p)
  <2>1. \/ \E result : Return(p, result)
        \/ \E place \in {"refused", "poisoned", "current"} : Stay(p, place)
    BY <1>13, Zenon DEF CheckClosed, CheckPoisoned, Refuse
  <2>2. UNCHANGED <<cached_gating_sequence, cursor>>
    BY <1>13 DEF CheckClosed, CheckPoisoned
  <2>3. ASSUME NEW place \in {"refused", "poisoned", "current"}, Stay(p, place)
        PROVE  producer'[p] # "cas" /\ UNCHANGED <<min_sequence, unscanned>>
    BY <1>2, <2>3 DEF Stay
  <2> QED BY <1>1, <1>5, <2>1, <2>2, <2>3, Zenon
<1>14. CASE Call(p) \/ ReadClaimed(p) \/ WriteSlot(p) \/ UpdatePanics(p)
  <2>1. /\ producer'[p] # "cas"
        /\ UNCHANGED <<cached_gating_sequence, min_sequence, unscanned, cursor>>
    BY <1>2, <1>14, Zenon DEF Call, ReadClaimed, WriteSlot, UpdatePanics
  <2> QED BY <1>1, <2>1
<1> QED
  BY <1>6, <1>7, <1>8, <1>9, <1>10, <1>11, <1>12, <1>13, <1>14, Zenon DEF ProducerStep

\* So the bounds of every producer are kept.
LEMMA ProducerKeepsGate ==
    ASSUME IInv, TypeOK', NEW p \in Producers, Call(p) \/ ProducerStep(p)
    PROVE  GateInv'
<1> SUFFICES ASSUME Gated', NEW g \in Terminal
             PROVE  /\ (cached_gating_sequence <= consumer_sequence[g])'
                    /\ (cursor - Size <= consumer_sequence[g])'
                    /\ \A q \in Producers :
                          /\ (g \notin unscanned[q] => min_sequence[q] <= consumer_sequence[g])'
                          /\ (producer[q] = "cas" => wrap_point(q) <= consumer_sequence[g])'
  BY DEF GateInv
<1>1. Gated /\ consumer_sequence' = consumer_sequence
  BY ProducerMovesForward DEF IInv, Gated, coreVars, consumerVars
<1>2. /\ cached_gating_sequence' <= consumer_sequence[g]
      /\ g \notin unscanned'[p] => min_sequence'[p] <= consumer_sequence[g]
      /\ producer'[p] = "cas" => wrap_point(p)' <= consumer_sequence[g]
      /\ cursor' - Size <= consumer_sequence[g]
  BY <1>1, BoundsAreKept
<1>3. ASSUME NEW q \in Producers \ {p}
      PROVE  /\ (g \notin unscanned[q] => min_sequence[q] <= consumer_sequence[g])'
             /\ (producer[q] = "cas" => wrap_point(q) <= consumer_sequence[g])'
  <2>1. OthersStay(p)
    BY StepsAreQuiet DEF IInv
  <2>2. /\ g \notin unscanned[q] => min_sequence[q] <= consumer_sequence[g]
        /\ producer[q] = "cas" => wrap_point(q) <= consumer_sequence[g]
    BY <1>1 DEF IInv, GateInv
  <2> QED BY <1>1, <1>3, <2>1, <2>2, Zenon DEF OthersStay, wrap_point
<1> QED BY <1>1, <1>2, <1>3

-----------------------------------------------------------------------------
(* Claims, ring and flags.                                                 *)

\* What another producer has claimed does not change.
LEMMA OthersKeepClaims ==
    ASSUME NEW p \in Producers, OthersStay(p), NEW q \in Producers \ {p}
    PROVE  Claimed(q)' = Claimed(q) /\ end_sequence(q)' = end_sequence(q)
BY DEF OthersStay, Claimed, end_sequence

\* Claims stay disjoint from one another and from what is published when p's
\* claim shrinks, or grows above the cursor.
LEMMA ClaimsStayDisjoint ==
    ASSUME CursorInv, TypeOK, TypeOK', NEW p \in Producers, OthersStay(p), cursor' >= cursor,
           NEW fresh, published' = published \cup fresh,
           fresh \subseteq Claimed(p), fresh \cap Claimed(p)' = {},
           \/ Claimed(p)' \subseteq Claimed(p)
           \/ Claimed(p)' \subseteq cursor + 1 .. cursor',
           -1 <= current'[p], current'[p] <= cursor',
           producer'[p] \in {"write", "publish"} =>
              current'[p] < at'[p] /\ at'[p] <= end_sequence(p)'
    PROVE  CursorInv'
<1>1. /\ cursor \in Int /\ cursor' \in Int /\ -1 <= cursor /\ published \subseteq 0 .. cursor
      /\ \A q \in Producers : Claimed(q) \subseteq (0 .. cursor) \ published
      /\ \A q, r \in Producers : q # r => Claimed(q) \cap Claimed(r) = {}
  BY Zenon DEF TypeOK, PipelineTypeOK, CursorInv, ClaimInv
<1>2. \A q \in Producers \ {p} : Claimed(q)' = Claimed(q) /\ end_sequence(q)' = end_sequence(q)
  BY OthersKeepClaims
<1>3. Claimed(p)' \subseteq (0 .. cursor') \ published'
  BY <1>1
<1>4. ASSUME NEW q \in Producers \ {p} PROVE ClaimInv(q)'
  <2>1. /\ current[q] \in Int /\ -1 <= current[q] /\ current[q] <= cursor
        /\ producer[q] \in {"write", "publish"} => current[q] < at[q] /\ at[q] <= end_sequence(q)
    BY DEF CursorInv, ClaimInv, TypeOK
  <2>2. Claimed(q)' \subseteq (0 .. cursor') \ published'
    BY <1>1, <1>2
  <2> QED BY <1>1, <1>2, <2>1, <2>2 DEF ClaimInv, OthersStay
<1>5. ClaimInv(p)'
  BY <1>3 DEF ClaimInv
<1>6. \A q \in Producers \ {p} : Claimed(q)' \cap Claimed(p)' = {}
  BY <1>1, <1>2
<1>7. published' \subseteq 0 .. cursor'
  <2>1. published' \subseteq 0 .. cursor
    BY <1>1, Zenon
  <2>2. 0 .. cursor \subseteq 0 .. cursor'
    BY <1>1
  <2> QED BY <2>1, <2>2, Zenon
<1>8. ASSUME NEW q \in Producers, NEW r \in Producers, q # r
      PROVE  Claimed(q)' \cap Claimed(r)' = {}
  <2>1. CASE q # p /\ r # p
    BY <1>1, <1>2, <1>8, <2>1
  <2>2. CASE q = p \/ r = p
    BY <1>6, <1>8, <2>2
  <2> QED BY <2>1, <2>2
<1>9. -1 <= cursor'
  BY <1>1
<1> QED BY <1>4, <1>5, <1>7, <1>8, <1>9 DEF CursorInv

\* A step without a slot keeps claims, ring and flags.
LEMMA QuietKeepsSlots ==
    ASSUME IInv, TypeOK', NEW p \in Producers, OthersStay(p), QuietStep(p), Gated' = Gated
    PROVE  CursorInv' /\ RingInv' /\ FlagInv'
<1>1. Claimed(p)' \subseteq Claimed(p)
  BY DEF QuietStep, Claimed, end_sequence
<1>2. CursorInv'
  <2>1. /\ TypeOK /\ CursorInv /\ cursor \in Int /\ -1 <= cursor
        /\ current[p] \in Int /\ -1 <= current[p] /\ current[p] <= cursor
    BY Zenon DEF IInv, TypeOK, PipelineTypeOK, CursorInv, ClaimInv
  <2>2. -1 <= current'[p] /\ current'[p] <= cursor' /\ cursor' >= cursor
    BY <2>1 DEF QuietStep
  <2>3. published' = published \cup {} /\ producer'[p] \notin {"write", "publish"}
    BY DEF QuietStep
  <2>4. {} \subseteq Claimed(p) /\ {} \cap Claimed(p)' = {}
    OBVIOUS
  <2> QED BY <1>1, <2>1, <2>2, <2>3, <2>4, ClaimsStayDisjoint, Zenon
<1>3. RingInv'
  <2>1. \A q \in Producers \ {p} : /\ Claimed(q)' = Claimed(q) /\ producer'[q] = producer[q]
                                   /\ current'[q] = current[q] /\ at'[q] = at[q]
    BY OthersKeepClaims, Zenon DEF OthersStay
  <2>2. /\ UNCHANGED <<cursor, ring, published>>
        /\ producer'[p] # "write" /\ producer'[p] # "publish"
    BY DEF QuietStep
  <2> QED BY <2>1, <2>2, Zenon DEF IInv, RingInv
<1>4. FlagInv'
  BY Zenon DEF IInv, FlagInv, QuietStep
<1> QED BY <1>2, <1>3, <1>4
=============================================================================
