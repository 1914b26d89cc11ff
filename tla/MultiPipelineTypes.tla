------------------------- MODULE MultiPipelineTypes --------------------------
(***************************************************************************)
(* The arithmetic of laps, availability flags and chunks, and the types of *)
(* MultiPipeline.  Unlike SinglePipeline's, they need the invariant: a     *)
(* scan of the flags has a first gap because it starts at a sequence.      *)
(***************************************************************************)
EXTENDS MultiPipeline, PipelineProofs

USE SizeAssumption, MultiAssumption

-----------------------------------------------------------------------------
(* Laps, flags and chunks.                                                 *)

\* A number is divided in one way only.
LEMMA DivisionIsUnique ==
    ASSUME NEW N \in Nat \ {0}, NEW k \in Int, NEW r \in 0 .. N - 1
    PROVE  (N * k + r) \div N = k /\ (N * k + r) % N = r
<1> DEFINE a == N * k + r
           q == a \div N
           b == a % N
           j == q - k
<1>1. a \in Int /\ q \in Int /\ b \in 0 .. N - 1 /\ a = N * q + b
  BY DivMod
<1>2. a = N * k + r
  OBVIOUS
<1> HIDE DEF a, q, b
<1>3. j \in Int /\ N * j = N * q - N * k /\ N * q \in Int /\ N * k \in Int
  BY <1>1
<1>4. N * j = r - b
  BY <1>1, <1>2, <1>3
<1> HIDE DEF j
<1>5. j = 0
  <2>1. CASE j >= 1
    <3>1. N * j >= N
      BY <1>3, <2>1, WholeLaps
    <3> QED BY <1>1, <1>4, <3>1
  <2>2. CASE -j >= 1
    <3>1. N * (-j) >= N /\ N * (-j) = -(N * j)
      BY <1>3, <2>2, WholeLaps
    <3> QED BY <1>1, <1>3, <1>4, <3>1
  <2> QED BY <1>3, <2>1, <2>2
<1>6. q = k /\ b = r
  BY <1>1, <1>4, <1>5 DEF j
<1> QED BY <1>6 DEF a, q, b

\* One lap back is the same slot with the other flag (calculate_round_flag).
LEMMA OneLapBack ==
    ASSUME NEW s \in Int
    PROVE  /\ slot_index(s - Size) = slot_index(s)
           /\ round_flag(s) \in 0 .. 1
           /\ round_flag(s - Size) = 1 - round_flag(s)
<1> DEFINE q == s \div Size
           r == s % Size
<1>1. q \in Int /\ r \in 0 .. Size - 1 /\ s = Size * q + r
  BY DivMod
<1>2. s - Size = Size * (q - 1) + r
  <2>1. Size * (q - 1) = Size * q - Size /\ Size * q \in Int
    BY <1>1
  <2> HIDE DEF q, r
  <2> QED BY <1>1, <2>1
<1> HIDE DEF q, r
<1>3. (s - Size) \div Size = q - 1 /\ (s - Size) % Size = r
  BY <1>1, <1>2, DivisionIsUnique
<1>4. q % 2 \in 0 .. 1 /\ (q - 1) % 2 = 1 - (q % 2)
  BY <1>1
<1> QED BY <1>3, <1>4 DEF q, r, slot_index, round_flag

\* The slots of the lap before the first carry the initial flag.
LEMMA FirstLapFlag ==
    ASSUME NEW s \in -Size .. -1
    PROVE  round_flag(s) = 1
<1>1. s + Size \in 0 .. Size - 1 /\ s = Size * (-1) + (s + Size)
  OBVIOUS
<1>2. s \div Size = -1
  <2> DEFINE r == s + Size
  <2>1. r \in 0 .. Size - 1 /\ s = Size * (-1) + r
    BY <1>1
  <2> HIDE DEF r
  <2>2. (Size * (-1) + r) \div Size = -1
    BY <2>1, DivisionIsUnique
  <2> QED BY <2>1, <2>2
<1> DEFINE z == s \div Size
<1>3. z \in Int /\ z + 1 = 0
  BY <1>2
<1> HIDE DEF z
<1>4. z % 2 = 1
  BY <1>3
<1> QED BY <1>4 DEF round_flag, z

\* The extremes of an interval.
LEMMA MaxOfInterval ==
    ASSUME NEW lo \in Int, NEW hi \in Int, lo <= hi
    PROVE  Max(lo .. hi) = hi
<1>1. hi \in lo .. hi /\ \A y \in lo .. hi : hi >= y
  OBVIOUS
<1>2. \A x \in lo .. hi : (\A y \in lo .. hi : x >= y) => x = hi
  BY <1>1
<1> QED BY <1>1, <1>2 DEF Max

\* The least element of a set of sequences.
LEMMA MinOfSequences ==
    ASSUME NEW S \in SUBSET Nat, S # {}
    PROVE  Min(S) \in S /\ \A y \in S : Min(S) <= y
<1>1. \E x \in S : \A y \in S : x =< y
  BY LeastNatural
<1> QED BY <1>1, Zenon DEF Min

\* A chunk is a run of sequences that starts with the first one asked for.
LEMMA ChunkIsARun ==
    ASSUME NEW lo \in Int, NEW hi \in Int, lo <= hi
    PROVE  \E m \in lo .. hi : Chunk(lo, hi) = lo .. m /\ Max(Chunk(lo, hi)) = m
<1> DEFINE x == slot_index(lo)
           m == IF Bitmap THEN Min2(hi, lo + Word - 1 - (x % Word)) ELSE lo
<1>1. x % Word \in 0 .. Word - 1
  BY SlotInRing, DivMod
<1> HIDE DEF x
<1>2. m \in lo .. hi
  BY <1>1 DEF Min2
<1>3. Chunk(lo, hi) = lo .. m
  <2>1. lo .. lo = {lo}
    OBVIOUS
  <2> QED BY <2>1, Zenon DEF Chunk, x
<1> HIDE DEF m
<1> QED BY <1>2, <1>3, MaxOfInterval

-----------------------------------------------------------------------------
(* Type correctness.                                                       *)

\* The sequences a scan of the flags looks at, and where it stops.
LEMMA ScanStops ==
    ASSUME TypeOK, NEW c \in Consumers, ConsumerInv(c), pc[c] = "resolve"
    PROVE  LET chunk == Chunk(scan_at[c], available_sequence[c])
               gaps  == {s \in chunk : ~is_available(s)}
           IN  /\ \E m \in scan_at[c] .. available_sequence[c] :
                     chunk = scan_at[c] .. m /\ Max(chunk) = m
               /\ gaps # {} => /\ Min(gaps) \in gaps /\ \A y \in gaps : Min(gaps) <= y
               /\ gaps \subseteq Nat
<1> DEFINE chunk == Chunk(scan_at[c], available_sequence[c])
           gaps  == {s \in chunk : ~is_available(s)}
<1>1. /\ scan_at[c] \in Int /\ available_sequence[c] \in Int /\ next_sequence[c] \in Int
      /\ consumer_sequence[c] \in Int
  BY DEF TypeOK, PipelineTypeOK
<1>2. 0 <= scan_at[c] /\ scan_at[c] <= available_sequence[c]
  BY <1>1 DEF ConsumerInv, Progress
<1>3. \E m \in scan_at[c] .. available_sequence[c] : chunk = scan_at[c] .. m /\ Max(chunk) = m
  BY <1>1, <1>2, ChunkIsARun
<1>4. gaps \subseteq Nat
  BY <1>1, <1>2, <1>3
<1> HIDE DEF gaps, chunk
<1>5. gaps # {} => /\ Min(gaps) \in gaps /\ \A y \in gaps : Min(gaps) <= y
  BY <1>4, MinOfSequences
<1> QED BY <1>3, <1>4, <1>5 DEF gaps, chunk

\* The steps of a consumer thread keep the types.
LEMMA ConsumerKeepsTypes ==
    ASSUME TypeOK, NEW c \in Consumers, ConsumerInv(c), ConsumerNext(c)
    PROVE  TypeOK'
<1>1. PipelineTypeOK /\ UNCHANGED producerVars /\ scan_at \in [Consumers -> Int]
  BY DEF TypeOK, ConsumerNext
<1>2. "resolve" \in Places /\ "batch" \in Places /\ "loop" \in Places
  BY DEF Places
<1>3. PipelineTypeOK' /\ scan_at' \in [Consumers -> Int]
  <2>1. CASE ConsumerStep(c) /\ UNCHANGED scan_at
    BY <1>1, <2>1, ConsumerStepKeepsTypes
  <2>2. CASE AwaitStep(c)
    <3>1. next_sequence[c] \in Int
      BY <1>1 DEF PipelineTypeOK
    <3>2. scan_at' \in [Consumers -> Int]
      BY <1>1, <2>2, <3>1 DEF AwaitStep
    <3> QED BY <1>1, <1>2, <2>2, <3>2, WaitKeepsTypes DEF AwaitStep
  <2>3. CASE ResolvePublished(c)
    <3> DEFINE chunk == Chunk(scan_at[c], available_sequence[c])
               gaps  == {s \in chunk : ~is_available(s)}
    <3>1. /\ gaps # {} => Min(gaps) \in Int
          /\ Max(chunk) \in Int
      BY <2>3, ScanStops DEF ResolvePublished
    <3>2. /\ \/ available_sequence' = available_sequence
             \/ gaps # {} /\ available_sequence' = [available_sequence EXCEPT ![c] = Min(gaps) - 1]
          /\ \/ pc' = pc \/ pc' = [pc EXCEPT ![c] = "batch"] \/ pc' = [pc EXCEPT ![c] = "loop"]
          /\ \/ scan_at' = [scan_at EXCEPT ![c] = 0]
             \/ scan_at' = [scan_at EXCEPT ![c] = Max(chunk) + 1]
          /\ UNCHANGED <<consumer_sequence, next_sequence, unread, dying>>
          /\ UNCHANGED <<cursor, ring, flagVars, coreVars>>
      BY <2>3, Zenon DEF ResolvePublished, GoTo
    <3> HIDE DEF chunk, gaps
    <3>3. available_sequence' \in [Consumers -> Int] /\ scan_at' \in [Consumers -> Int]
      BY <1>1, <3>1, <3>2 DEF PipelineTypeOK
    <3>4. pc' \in [Consumers -> Places]
      BY <1>1, <1>2, <3>2, Zenon DEF PipelineTypeOK
    <3> QED BY <1>1, <3>2, <3>3, <3>4 DEF PipelineTypeOK, flagVars, coreVars
  <2> QED BY <2>1, <2>2, <2>3 DEF ConsumerNext
<1> QED BY <1>1, <1>3 DEF TypeOK, producerVars, scanVars, callVars

\* The types of what a producer keeps of its call.
LocalsOK ==
    /\ producer \in [Producers -> ProducerPlaces]
    /\ call \in [Producers -> {"none", "publish", "try_publish"}]
    /\ n \in [Producers -> 1 .. MaxBatch]
    /\ current \in [Producers -> Int] /\ min_sequence \in [Producers -> Int]
    /\ unscanned \in [Producers -> SUBSET Consumers]
    /\ at \in [Producers -> Int]
    /\ terminal_call \in [Producers -> BOOLEAN] /\ misreported \in BOOLEAN

\* A return resets the locals of the call.
LEMMA ReturnKeepsLocals ==
    ASSUME LocalsOK, NEW p \in Producers, NEW result, Return(p, result)
    PROVE  LocalsOK'
<1> USE DEF LocalsOK, Return, PGoTo, INITIAL_CURSOR_VALUE
<1>1. /\ producer' \in [Producers -> ProducerPlaces]
      /\ call' \in [Producers -> {"none", "publish", "try_publish"}]
  BY DEF ProducerPlaces
<1>2. n' \in [Producers -> 1 .. MaxBatch] /\ at' \in [Producers -> Int]
  OBVIOUS
<1>3. current' \in [Producers -> Int] /\ min_sequence' \in [Producers -> Int]
  OBVIOUS
<1>4. unscanned' \in [Producers -> SUBSET Consumers]
  OBVIOUS
<1>5. terminal_call' \in [Producers -> BOOLEAN] /\ misreported' \in BOOLEAN
  BY Zenon
<1> QED BY <1>1, <1>2, <1>3, <1>4, <1>5, Zenon

\* A producer that only moves to another place keeps its locals.
LEMMA MoveKeepsLocals ==
    ASSUME LocalsOK, NEW p \in Producers, NEW place \in ProducerPlaces,
           PGoTo(p, place), UNCHANGED <<callVars, scanVars, at>>
    PROVE  LocalsOK'
BY DEF LocalsOK, PGoTo, callVars, scanVars

\* A producer that leaves consumers, core and cursor alone keeps their types.
LEMMA ProducerLeavesTypes ==
    ASSUME TypeOK, LocalsOK', cursor' \in Int, ring' \in [0 .. Size - 1 -> Int],
           UNCHANGED <<sharedVars, available, published>>, cached_gating_sequence' \in Int
    PROVE  TypeOK'
<1>1. PipelineTypeOK'
  BY DEF TypeOK, PipelineTypeOK, sharedVars, flagVars, consumerVars, coreVars
<1> QED BY <1>1 DEF TypeOK, LocalsOK, sharedVars

\* The steps of a producer keep the types.
LEMMA ProducerKeepsTypes ==
    ASSUME TypeOK, NEW p \in Producers, ClaimInv(p), Call(p) \/ ProducerStep(p)
    PROVE  TypeOK'
<1>1. /\ LocalsOK /\ cursor \in Int /\ ring \in [0 .. Size - 1 -> Int]
      /\ cached_gating_sequence \in Int
  BY Zenon DEF TypeOK, PipelineTypeOK, LocalsOK
<1>2. {"idle", "closed", "poisoned", "current", "cached", "gating", "scan", "cas", "refused",
       "recount", "tally", "write", "publish", "poison"} \subseteq ProducerPlaces
  BY DEF ProducerPlaces
<1>3. /\ current[p] \in Int /\ n[p] \in Int /\ at[p] \in Int /\ min_sequence[p] \in Int
      /\ producer[p] \in ProducerPlaces
  BY <1>1 DEF LocalsOK
<1>4. CASE Call(p)
  <2>1. PICK kind \in Methods[p], k \in 1 .. MaxBatch :
              call' = [call EXCEPT ![p] = kind] /\ n' = [n EXCEPT ![p] = k]
    BY <1>4, Zenon DEF Call
  <2>2. kind \in {"none", "publish", "try_publish"} /\ closed \in BOOLEAN /\ poisoned \in BOOLEAN
    BY MultiAssumption, Zenon DEF TypeOK, PipelineTypeOK
  <2>3. terminal_call' \in [Producers -> BOOLEAN]
    BY <1>1, <1>4, <2>2, Zenon DEF Call, LocalsOK
  <2>4. LocalsOK'
    BY <1>1, <1>2, <1>4, <2>1, <2>2, <2>3 DEF Call, LocalsOK, PGoTo, scanVars
  <2> QED BY <1>1, <1>4, <2>4, ProducerLeavesTypes DEF Call
<1>5. CASE CheckClosed(p) \/ CheckPoisoned(p)
  <2>1. LocalsOK'
    BY <1>1, <1>2, <1>5, ReturnKeepsLocals, MoveKeepsLocals, Zenon
    DEF CheckClosed, CheckPoisoned, Refuse, Stay
  <2> QED BY <1>1, <1>5, <2>1, ProducerLeavesTypes DEF CheckClosed, CheckPoisoned
<1>6. CASE ReadClaimed(p)
  <2>1. LocalsOK'
    BY <1>1, <1>2, <1>3, <1>6 DEF ReadClaimed, LocalsOK, PGoTo, callVars
  <2> QED BY <1>1, <1>6, <2>1, ProducerLeavesTypes DEF ReadClaimed
<1>7. CASE CheckCached(p)
  <2>1. /\ min_sequence' \in {min_sequence, [min_sequence EXCEPT ![p] = INITIAL_CURSOR_VALUE]}
        /\ unscanned' \in {unscanned, [unscanned EXCEPT ![p] = {}]}
        /\ \E place \in {"gating", "scan", "cas"} : producer' = [producer EXCEPT ![p] = place]
    BY <1>7, Zenon DEF CheckCached, PGoTo
  <2>2. producer' \in [Producers -> ProducerPlaces]
    BY <1>1, <1>2, <2>1 DEF LocalsOK
  <2>3. /\ min_sequence' \in [Producers -> Int]
        /\ unscanned' \in [Producers -> SUBSET Consumers]
    <3>1. INITIAL_CURSOR_VALUE \in Int /\ {} \in SUBSET Consumers
      BY DEF INITIAL_CURSOR_VALUE
    <3>2. min_sequence' \in [Producers -> Int]
      BY <1>1, <2>1, <3>1, Zenon DEF LocalsOK
    <3>3. unscanned' \in [Producers -> SUBSET Consumers]
      BY <1>1, <2>1, <3>1, Zenon DEF LocalsOK
    <3> QED BY <3>2, <3>3
  <2>4. LocalsOK'
    BY <1>1, <1>7, <2>2, <2>3, Zenon DEF CheckCached, LocalsOK, callVars
  <2> QED BY <1>1, <1>7, <2>4, ProducerLeavesTypes DEF CheckCached
<1>8. CASE LoadGating(p)
  <2>1. gating_sequences \in SUBSET Consumers
    BY DEF TypeOK, PipelineTypeOK
  <2>2. LocalsOK'
    BY <1>1, <1>2, <1>3, <1>8, <2>1 DEF LoadGating, LocalsOK, PGoTo, callVars
  <2> QED BY <1>1, <1>8, <2>2, ProducerLeavesTypes DEF LoadGating
<1>9. CASE ScanGating(p)
  <2>1. PICK g \in unscanned[p] :
              /\ min_sequence' = [min_sequence EXCEPT ![p] = Min2(@, consumer_sequence[g])]
              /\ unscanned' = [unscanned EXCEPT ![p] = @ \ {g}]
    BY <1>9, Zenon DEF ScanGating
  <2>2. consumer_sequence[g] \in Int
    BY <1>1, <2>1 DEF LocalsOK, TypeOK, PipelineTypeOK
  <2>3. LocalsOK'
    BY <1>1, <1>9, <2>1, <2>2 DEF ScanGating, LocalsOK, callVars, Min2
  <2> QED BY <1>1, <1>9, <2>3, ProducerLeavesTypes DEF ScanGating
<1>10. CASE EndScan(p)
  <2>1. /\ \E place \in {"cas", "closed", "refused"} : producer' = [producer EXCEPT ![p] = place]
        /\ UNCHANGED callVars
    BY <1>10, Zenon DEF EndScan, PGoTo, Retry
  <2>2. LocalsOK'
    BY <1>1, <1>2, <1>10, <2>1 DEF EndScan, LocalsOK, callVars, INITIAL_CURSOR_VALUE
  <2> QED BY <1>1, <1>3, <1>10, <2>2, ProducerLeavesTypes DEF EndScan
<1>11. CASE CompareAndSet(p)
  <2>1. /\ \E place \in {"write", "closed", "refused"} : producer' = [producer EXCEPT ![p] = place]
        /\ cursor' \in {cursor, current[p] + n[p]}
        /\ at' \in {at, [at EXCEPT ![p] = current[p] + 1]}
        /\ UNCHANGED callVars
    BY <1>11, Zenon DEF CompareAndSet, PGoTo, Retry
  <2>2. producer' \in [Producers -> ProducerPlaces] /\ at' \in [Producers -> Int]
    BY <1>1, <1>2, <1>3, <2>1 DEF LocalsOK
  <2>3. LocalsOK'
    BY <1>1, <1>11, <2>1, <2>2, Zenon DEF CompareAndSet, LocalsOK, callVars, scanVars
  <2> QED BY <1>1, <1>3, <1>11, <2>1, <2>3, ProducerLeavesTypes DEF CompareAndSet
<1>12. CASE ClassifyRefusal(p)
  <2>1. LocalsOK'
    BY <1>1, <1>12, ReturnKeepsLocals, Zenon DEF ClassifyRefusal
  <2> QED BY <1>1, <1>12, <2>1, ProducerLeavesTypes DEF ClassifyRefusal
<1>13. CASE WriteSlot(p)
  <2>1. /\ producer' \in {producer, [producer EXCEPT ![p] = "publish"]}
        /\ at' \in {[at EXCEPT ![p] = current[p] + 1], [at EXCEPT ![p] = at[p] + 1]}
    BY <1>13, Zenon DEF WriteSlot, PGoTo
  <2>2. current[p] + 1 \in Int /\ at[p] + 1 \in Int
    BY <1>3
  <2>3. producer' \in [Producers -> ProducerPlaces] /\ at' \in [Producers -> Int]
    <3>1. producer' \in [Producers -> ProducerPlaces]
      BY <1>1, <1>2, <2>1, Zenon DEF LocalsOK
    <3>2. at' \in [Producers -> Int]
      BY <1>1, <2>1, <2>2, Zenon DEF LocalsOK
    <3> QED BY <3>1, <3>2
  <2>4. LocalsOK'
    BY <1>1, <1>13, <2>3, Zenon DEF WriteSlot, LocalsOK, callVars, scanVars
  <2>5. ring' \in [0 .. Size - 1 -> Int]
    BY <1>1, <1>3, <1>13, Zenon DEF WriteSlot
  <2> QED BY <1>1, <1>13, <2>4, <2>5, ProducerLeavesTypes DEF WriteSlot
<1>14. CASE Publish(p)
  <2>1. current[p] < at[p] /\ at[p] <= end_sequence(p) /\ -1 <= current[p]
    BY <1>14 DEF Publish, ClaimInv
  <2>2. end_sequence(p) \in Int
    BY <1>3 DEF end_sequence
  <2> DEFINE chunk == Chunk(at[p], end_sequence(p))
  <2>3. PICK m \in at[p] .. end_sequence(p) : chunk = at[p] .. m /\ Max(chunk) = m
    BY <1>3, <2>1, <2>2, ChunkIsARun
  <2> HIDE DEF chunk
  <2>4. LocalsOK'
    <3>1. CASE Return(p, "Ok")
      BY <1>1, <3>1, ReturnKeepsLocals
    <3>2. CASE at' = [at EXCEPT ![p] = m + 1] /\ UNCHANGED <<producer, callVars, scanVars>>
      BY <1>1, <1>3, <2>2, <2>3, <3>2 DEF LocalsOK, callVars, scanVars
    <3> QED BY <1>14, <2>3, <3>1, <3>2 DEF Publish, chunk
  <2>5. published' \subseteq Nat
    <3>1. published' = published \cup chunk /\ published \subseteq Nat
      BY <1>14 DEF Publish, chunk, TypeOK
    <3>2. chunk \subseteq Nat
      <4>1. at[p] \in Nat /\ m \in Int /\ chunk = at[p] .. m
        BY <1>3, <2>1, <2>2, <2>3
      <4> QED BY <4>1
    <3> QED BY <3>1, <3>2
  <2>6. available' \in [0 .. Size - 1 -> IF Bitmap THEN 0 .. 1 ELSE -1 .. 1]
    <3>1. ASSUME NEW i \in 0 .. Size - 1, \E s \in chunk : slot_index(s) = i
          PROVE  round_flag(CHOOSE s \in chunk : slot_index(s) = i) \in 0 .. 1
      <4>1. (CHOOSE s \in chunk : slot_index(s) = i) \in chunk
        BY <3>1
      <4> QED BY <1>3, <2>2, <2>3, <4>1, OneLapBack
    <3>2. available' = set_available(chunk)
      BY <1>14 DEF Publish, chunk
    <3>3. available \in [0 .. Size - 1 -> IF Bitmap THEN 0 .. 1 ELSE -1 .. 1]
      BY DEF TypeOK
    <3>4. CASE Bitmap
      BY <3>2, <3>3, <3>4 DEF set_available
    <3>5. CASE ~Bitmap
      BY <3>1, <3>2, <3>3, <3>5 DEF set_available
    <3> QED BY <3>4, <3>5
  <2>7. PipelineTypeOK'
    BY <1>14 DEF Publish, TypeOK, PipelineTypeOK, sharedVars, flagVars, consumerVars, coreVars
  <2> QED BY <1>1, <1>14, <2>4, <2>5, <2>6, <2>7, Zenon DEF Publish, TypeOK, LocalsOK, sharedVars
<1>15. CASE UpdatePanics(p)
  <2>1. LocalsOK'
    BY <1>1, <1>2, <1>15, MoveKeepsLocals DEF UpdatePanics
  <2>2. PipelineTypeOK'
    BY <1>15 DEF UpdatePanics, FirstFailure, TypeOK, PipelineTypeOK, FailurePhase, consumerVars,
                 coreVars
  <2> QED BY <1>15, <2>1, <2>2 DEF UpdatePanics, TypeOK, LocalsOK
<1>16. CASE PoisonOnPanic(p)
  <2>1. LocalsOK'
    BY <1>1, <1>16, ReturnKeepsLocals DEF PoisonOnPanic
  <2>2. PipelineTypeOK'
    BY <1>16 DEF PoisonOnPanic, TypeOK, PipelineTypeOK, consumerVars, coreVars
  <2> QED BY <1>16, <2>1, <2>2 DEF PoisonOnPanic, TypeOK, LocalsOK
<1> QED
  BY <1>4, <1>5, <1>6, <1>7, <1>8, <1>9, <1>10, <1>11, <1>12, <1>13, <1>14, <1>15, <1>16, Zenon
  DEF ProducerStep

\* The steps of the handle's thread keep the types.
LEMMA CoreKeepsTypes ==
    ASSUME TypeOK, CoreNext
    PROVE  TypeOK'
<1>1. PipelineTypeOK' /\ UNCHANGED <<producerVars, scan_at>>
  BY CoreStepKeepsTypes DEF TypeOK, CoreNext
<1> QED BY <1>1 DEF TypeOK, producerVars, scanVars, callVars

\* A step that changes nothing keeps the types.
LEMMA StutteringKeepsTypes ==
    ASSUME TypeOK, UNCHANGED vars
    PROVE  TypeOK'
<1>1. PipelineTypeOK'
  BY DEF TypeOK, PipelineTypeOK, vars, sharedVars, flagVars, consumerVars, coreVars
<1> QED BY <1>1 DEF TypeOK, vars, sharedVars, producerVars, scanVars, callVars

\* The initial state is well typed.
LEMMA InitIsTyped == Init => TypeOK
<1> SUFFICES ASSUME Init PROVE TypeOK
  OBVIOUS
<1>1. PipelineTypeOK
  BY PipelineInitIsTyped DEF Init
<1>2. /\ producer \in [Producers -> ProducerPlaces]
      /\ call \in [Producers -> {"none", "publish", "try_publish"}]
  BY DEF Init, ProducerPlaces
<1>3. /\ n \in [Producers -> 1 .. MaxBatch] /\ at \in [Producers -> Int]
      /\ current \in [Producers -> Int] /\ min_sequence \in [Producers -> Int]
      /\ cached_gating_sequence \in Int /\ scan_at \in [Consumers -> Int]
  BY DEF Init, INITIAL_CURSOR_VALUE
<1>4. /\ unscanned \in [Producers -> SUBSET Consumers]
      /\ terminal_call \in [Producers -> BOOLEAN] /\ misreported \in BOOLEAN
      /\ published \subseteq Nat
  BY Zenon DEF Init
<1>5. available \in [0 .. Size - 1 -> IF Bitmap THEN 0 .. 1 ELSE -1 .. 1]
  <2>1. CASE Bitmap
    BY <2>1 DEF Init
  <2>2. CASE ~Bitmap
    BY <2>2 DEF Init
  <2> QED BY <2>1, <2>2
<1> QED BY <1>1, <1>2, <1>3, <1>4, <1>5, Zenon DEF TypeOK

-----------------------------------------------------------------------------
(* The published prefix.                                                   *)

\* A set of sequences up to m has one contiguous prefix, possibly empty.
LEMMA PrefixExists ==
    ASSUME NEW P \in SUBSET Nat, NEW m \in Int, -1 <= m, P \subseteq 0 .. m
    PROVE  LET pre == CHOOSE s \in -1 .. m : 0 .. s \subseteq P /\ s + 1 \notin P
           IN  pre \in -1 .. m /\ 0 .. pre \subseteq P /\ pre + 1 \notin P
<1>1. m + 1 \in Nat \ P
  OBVIOUS
<1>2. PICK x \in Nat \ P : \A y \in Nat \ P : x <= y
  BY <1>1, LeastNatural, Zenon
<1>3. x - 1 \in -1 .. m /\ 0 .. x - 1 \subseteq P /\ (x - 1) + 1 \notin P
  BY <1>1, <1>2
<1> QED BY <1>3, Zenon

\* Publications only lengthen the prefix, to below the cursor; it ends after
\* whatever is contiguously published.
LEMMA PrefixGrows ==
    ASSUME TypeOK, TypeOK', CursorInv, CursorInv', published \subseteq published'
    PROVE  /\ Prefix \in Int /\ Prefix' \in Int /\ Prefix <= Prefix' /\ Prefix' <= cursor'
           /\ published' = published => Prefix' = Prefix
           /\ \A k \in Nat : 0 .. k \subseteq published => k <= Prefix
<1>1. /\ cursor \in Int /\ -1 <= cursor /\ published \in SUBSET Nat
      /\ published \subseteq 0 .. cursor
      /\ cursor' \in Int /\ -1 <= cursor' /\ published' \in SUBSET Nat
      /\ published' \subseteq 0 .. cursor'
  BY Zenon DEF TypeOK, PipelineTypeOK, CursorInv
<1>2. Prefix \in -1 .. cursor /\ 0 .. Prefix \subseteq published /\ Prefix + 1 \notin published
  BY <1>1, PrefixExists, Zenon DEF Prefix
<1>3. /\ Prefix' \in -1 .. cursor' /\ 0 .. Prefix' \subseteq published'
      /\ Prefix' + 1 \notin published'
  BY <1>1, PrefixExists, Zenon DEF Prefix
<1> HIDE DEF Prefix
<1> DEFINE pre == Prefix  post == Prefix'
<1>4. pre \in Int /\ post \in Int /\ -1 <= pre /\ -1 <= post /\ post <= cursor'
  BY <1>1, <1>2, <1>3
<1>5. pre <= post
  BY <1>2, <1>3, <1>4
<1>6. published' = published => post <= pre
  BY <1>2, <1>3, <1>4
<1>7. ASSUME NEW k \in Nat, 0 .. k \subseteq published PROVE k <= pre
  BY <1>2, <1>4, <1>7
<1> QED BY <1>4, <1>5, <1>6, <1>7

-----------------------------------------------------------------------------
(* The terminal flags and the drain.                                       *)

\* A return ends the call; it misreports only what the call has to report.
LEMMA ReturnIsHonest ==
    ASSUME TypeOK, ~misreported, NEW p \in Producers, NEW result, Return(p, result),
           terminal_call[p] => result \notin {"Ok", "Contended", "Full"}
    PROVE  /\ ~misreported' /\ ~terminal_call'[p]
           /\ \A q \in Producers \ {p} : terminal_call'[q] = terminal_call[q]
BY DEF TypeOK, Return

\* A producer's step keeps what is known of a call that began under a terminal
\* flag: both checks are passed again on every retry, and a refused try claim
\* is classified by the flags first (classify_try_rejection).
LEMMA ProducerKeepsCallInv ==
    ASSUME TypeOK, CallInv, NEW p \in Producers, Call(p) \/ ProducerStep(p)
    PROVE  /\ ~misreported'
           /\ \A q \in Producers \ {p} : terminal_call'[q] = terminal_call[q]
           /\ terminal_call'[p] =>
                 \/ closed /\ producer'[p] \in {"closed", "refused", "recount", "tally"}
                 \/ poisoned /\ producer'[p] \in {"closed", "poisoned", "refused",
                                                  "recount", "tally"}
<1> USE DEF callVars, PGoTo
<1>0. /\ DOMAIN producer = Producers /\ DOMAIN terminal_call = Producers /\ ~misreported
      /\ terminal_call[p] =>
            \/ closed /\ producer[p] \in {"idle", "closed", "refused", "recount", "tally"}
            \/ poisoned /\ producer[p] \in {"idle", "closed", "poisoned", "refused",
                                             "recount", "tally"}
  BY DEF TypeOK, CallInv
<1>1. CASE Call(p)
  BY <1>0, <1>1, Zenon DEF Call
<1>2. CASE CheckClosed(p)
  BY <1>0, <1>2, ReturnIsHonest DEF CheckClosed, Refuse, Stay
<1>3. CASE CheckPoisoned(p)
  BY <1>0, <1>3, ReturnIsHonest DEF CheckPoisoned, Refuse, Stay
<1>4. CASE ReadClaimed(p) \/ CheckCached(p) \/ LoadGating(p)
  <2>1. UNCHANGED <<terminal_call, misreported>>
    BY <1>4, Zenon DEF ReadClaimed, CheckCached, LoadGating
  <2>2. \/ producer[p] \in {"current", "cached", "gating"}
        \/ producer[p] = "refused" /\ producer'[p] = "recount"
        \/ producer[p] = "recount" /\ producer'[p] = "tally"
    BY <1>0, <1>4 DEF ReadClaimed, CheckCached, LoadGating
  <2> QED BY <1>0, <2>1, <2>2
<1>5. CASE ScanGating(p) \/ EndScan(p)
  <2>1. UNCHANGED <<terminal_call, misreported>>
    BY <1>5, Zenon DEF ScanGating, EndScan, Retry
  <2>2. producer[p] = "scan" \/ (producer[p] = "tally" /\ producer' = producer)
    BY <1>5, Zenon DEF ScanGating, EndScan
  <2> QED BY <1>0, <2>1, <2>2
<1>6. CASE CompareAndSet(p) \/ WriteSlot(p) \/ UpdatePanics(p)
  <2>1. UNCHANGED <<terminal_call, misreported>>
    BY <1>6, Zenon DEF CompareAndSet, Retry, WriteSlot, UpdatePanics
  <2>2. producer[p] \in {"cas", "write"}
    BY <1>6, Zenon DEF CompareAndSet, WriteSlot, UpdatePanics
  <2> QED BY <1>0, <2>1, <2>2
<1>7. CASE ClassifyRefusal(p)
  BY <1>0, <1>7, ReturnIsHonest, Zenon DEF ClassifyRefusal
<1>8. CASE Publish(p)
  <2>1. producer[p] = "publish" /\ (Return(p, "Ok") \/ UNCHANGED <<producer, callVars>>)
    BY <1>8, Zenon DEF Publish
  <2> QED BY <1>0, <2>1, ReturnIsHonest
<1>9. CASE PoisonOnPanic(p)
  BY <1>0, <1>9, ReturnIsHonest, Zenon DEF PoisonOnPanic
<1> QED
  BY <1>1, <1>2, <1>3, <1>4, <1>5, <1>6, <1>7, <1>8, <1>9, Zenon DEF ProducerStep

\* The terminal flags are raised and never lowered.
LEMMA FlagsLast ==
    ASSUME TypeOK, Next
    PROVE  (poisoned => poisoned') /\ (closed => closed')
<1> DEFINE Raised(flag) == flag' = flag \/ flag' = TRUE
<1> USE DEF flagVars, sharedVars
<1>1. ASSUME NEW c \in Consumers, ConsumerNext(c) PROVE Raised(poisoned) /\ closed' = closed
  BY <1>1, Zenon DEF ConsumerNext, ConsumerStep, AwaitStep, StartThread, PollShutdown, BatchStart,
              HandleEvent, HandlerFails, HandlerPanics, CommitBatch, OnShutdown, RecordFailure,
              PoisonProducers, ReadCursor, ReadDependent, ResolvePublished
<1>2. ASSUME NEW p \in Producers, Call(p) \/ ProducerStep(p)
      PROVE  Raised(poisoned) /\ closed' = closed
  BY <1>2, Zenon DEF ProducerStep, Call, CheckClosed, CheckPoisoned, ReadClaimed, CheckCached,
              LoadGating, ScanGating, EndScan, CompareAndSet, ClassifyRefusal, WriteSlot, Publish,
              UpdatePanics, PoisonOnPanic
<1>3. ASSUME CoreNext PROVE poisoned' = poisoned /\ Raised(closed)
  BY <1>3, Zenon DEF CoreNext, BeginStop, BeginShutdown, BeginHalt, IntoProducer, CoreStep,
              DrainSnapshot, DrainChecksPoison, DrainChecksThreads, DrainChecksBacklog,
              DrainReturns, DrainGoesOn, StopConsumers, JoinConsumers, RemoveGatingSequence
<1>4. Raised(poisoned) /\ Raised(closed)
  BY <1>1, <1>2, <1>3, Zenon DEF Next
<1>5. poisoned \in BOOLEAN /\ closed \in BOOLEAN
  BY Zenon DEF TypeOK, PipelineTypeOK
<1> HIDE DEF Next
<1> QED BY <1>4, <1>5

\* The steps of a stop keep the drain's promise: what the last stage has
\* committed every stage has.
LEMMA CoreKeepsDrainInv ==
    ASSUME IInv, DrainInv, CoreNext
    PROVE  DrainInv'
<1>1. UNCHANGED consumer_sequence
  BY CoreStepFrame, Zenon DEF CoreNext, consumerVars
<1> USE DEF DrainInv
<1>2. CASE BeginStop \/ DrainSnapshot
  BY <1>1, <1>2 DEF BeginStop, BeginShutdown, BeginHalt, IntoProducer, DrainSnapshot
<1>3. CASE DrainChecksPoison \/ DrainChecksThreads
  BY <1>1, <1>3, Zenon DEF DrainChecksPoison, DrainChecksThreads, DrainReturns, DrainGoesOn
<1>4. CASE DrainChecksBacklog
  <2>1. CASE Consumed(drain_target)
    <3>1. PipelineTypeOK /\ drain_target \in Int /\ \A e \in Consumers : Progress(e)
      BY DEF IInv, TypeOK, PipelineTypeOK, ConsumerInv
    <3>2. gating_sequences = Terminal /\ Terminal \subseteq Consumers
      BY <1>4 DEF IInv, GatingInv, Gated, DrainChecksBacklog, Terminal
    <3>3. \A g \in Terminal : drain_target <= consumer_sequence[g]
      BY <2>1, <3>1, <3>2 DEF Consumed, PipelineTypeOK
    <3>4. \A c \in Consumers : drain_target <= consumer_sequence[c]
      BY <3>1, <3>3, LastStageIsLast, Zenon
    <3>5. \A c \in Consumers : consumer_sequence[c] >= drain_target
      BY <3>1, <3>4, Zenon DEF PipelineTypeOK
    <3> QED BY <1>1, <1>4, <2>1, <3>5, Zenon DEF DrainChecksBacklog, DrainReturns
  <2>2. CASE ~Consumed(drain_target)
    BY <1>1, <1>4, <2>2, Zenon DEF DrainChecksBacklog, DrainReturns, DrainGoesOn
  <2> QED BY <2>1, <2>2
<1>5. CASE StopConsumers \/ JoinConsumers \/ RemoveGatingSequence
  BY <1>1, <1>5, Zenon DEF StopConsumers, JoinConsumers, RemoveGatingSequence
<1> QED BY <1>2, <1>3, <1>4, <1>5, Zenon DEF CoreNext, CoreStep
=============================================================================
