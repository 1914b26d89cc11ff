------------------------ MODULE MultiPipelineProofs ------------------------
(***************************************************************************)
(* The safety of MultiPipeline, and that it implements EventLog, for every *)
(* number of producers, topology, ring size and bound: claiming, writing   *)
(* and publishing keep the invariant IInv, which is therefore inductive,   *)
(* and what follows from it.                                               *)
(***************************************************************************)
EXTENDS MultiPipelineSteps

USE SizeAssumption, MultiAssumption

-----------------------------------------------------------------------------
(* Claiming, writing and publishing.                                       *)

\* While a consumer gates the producers, a claimed sequence is of the last lap:
\* it is not handled, and the cursor is within a lap of what is.
LEMMA ClaimsAreInTheLastLap ==
    ASSUME IInv, Gated, NEW p \in Producers, NEW s \in Claimed(p)
    PROVE  s \in Nat /\ s \notin published /\ cursor - Size < s /\ s <= cursor
<1>1. s \in 0 .. cursor /\ s \notin published /\ cursor \in Int
  BY DEF IInv, CursorInv, ClaimInv, TypeOK, PipelineTypeOK
<1>2. PICK c \in Consumers : c \in Terminal
  BY StageAssumption DEF Terminal
<1>3. /\ cursor - Size <= consumer_sequence[c] /\ consumer_sequence[c] \in Int
      /\ 0 .. consumer_sequence[c] \subseteq published
  BY <1>2, HandledIsPublished, Zenon DEF IInv, GateInv, TypeOK, PipelineTypeOK
<1> QED BY <1>1, <1>3

\* Two sequences of the last lap have different slots.
LEMMA LastLapIsInjective ==
    ASSUME TypeOK, NEW s \in Int, NEW t \in Int, slot_index(s) = slot_index(t),
           cursor - Size < s, s <= cursor, cursor - Size < t, t <= cursor
    PROVE  s = t
<1>1. cursor \in Int
  BY DEF TypeOK, PipelineTypeOK
<1>2. ~ (s < t) /\ ~ (t < s)
  BY <1>1, SameSlotIsALapApart
<1> QED BY <1>2

\* Winning a claim keeps claims, ring and flags: what the new claim overwrites
\* is handled, so published in its own lap.
LEMMA ClaimKeepsSlots ==
    ASSUME IInv, TypeOK', NEW p \in Producers, OthersStay(p), Claims(p), Gated' = Gated
    PROVE  CursorInv' /\ RingInv' /\ FlagInv'
<1>0. /\ TypeOK /\ cursor \in Int /\ n[p] \in 1 .. MaxBatch /\ current[p] \in Int
      /\ DOMAIN producer = Producers /\ at \in [Producers -> Int]
  BY Zenon DEF IInv, TypeOK, PipelineTypeOK
<1>1. /\ n[p] \in 1 .. Size /\ cursor = current[p] /\ -1 <= cursor
      /\ producer[p] = "cas" /\ published \subseteq 0 .. cursor
  BY <1>0 DEF IInv, CursorInv, Claims, CompareAndSet
<1> USE <1>0
<1>2. /\ cursor' = cursor + n[p] /\ producer'[p] = "write" /\ at'[p] = cursor + 1
      /\ UNCHANGED <<current, n, ring, available, published>>
  BY <1>1 DEF Claims, CompareAndSet, PGoTo, scanVars, callVars
<1>3. CursorInv'
  <2>1. Claimed(p)' = cursor + 1 .. cursor' /\ end_sequence(p)' = cursor'
    BY <1>1, <1>2 DEF Claimed, end_sequence
  <2>2. cursor' >= cursor /\ published' = published \cup {}
    BY <1>1, <1>2
  <2>3. {} \subseteq Claimed(p) /\ {} \cap Claimed(p)' = {}
    OBVIOUS
  <2>4. /\ -1 <= current'[p] /\ current'[p] <= cursor'
        /\ current'[p] < at'[p] /\ at'[p] <= end_sequence(p)'
    BY <1>1, <1>2, <2>1
  <2>5. CursorInv /\ Claimed(p)' \subseteq cursor + 1 .. cursor'
    BY <2>1 DEF IInv
  <2> QED BY <1>1, <2>2, <2>3, <2>4, <2>5, ClaimsStayDisjoint, Zenon
<1>4. RingInv'
  <2>1. \A q \in Producers \ {p} : /\ Claimed(q)' = Claimed(q) /\ producer'[q] = producer[q]
                                   /\ current'[q] = current[q] /\ at'[q] = at[q]
    BY OthersKeepClaims, Zenon DEF OthersStay
  <2>2. current'[p] + 1 .. at'[p] - 1 = {}
    BY <1>1, <1>2
  <2>3. \A s \in published : s > cursor' - Size => s > cursor - Size
    BY <1>1, <1>2
  <2> QED BY <1>2, <2>1, <2>2, <2>3 DEF IInv, RingInv
<1>5. FlagInv'
  <2> SUFFICES ASSUME Gated, NEW s \in cursor' - Size + 1 .. cursor'
               PROVE  available[slot_index(s)] =
                         IF s < 0 \/ s \in published THEN LapFlag(s) ELSE LapFlag(s - Size)
    BY <1>2 DEF FlagInv, LapFlag, round_flag
  <2>1. s \in Int
    BY <1>1, <1>2
  <2>2. CASE s <= cursor
    <3>1. s \in cursor - Size + 1 .. cursor
      BY <1>1, <1>2, <2>1, <2>2
    <3> QED BY <3>1 DEF IInv, FlagInv
  <2>3. CASE s > cursor
    <3>1. /\ s - Size \in cursor - Size + 1 .. cursor /\ s - Size <= wrap_point(p)
          /\ s \notin published /\ ~(s < 0) /\ s - Size \in Int /\ wrap_point(p) \in Int
      BY <1>1, <1>2, <2>1, <2>3 DEF wrap_point
    <3>2. PICK c \in Consumers : c \in Terminal
      BY StageAssumption DEF Terminal
    <3>3. /\ wrap_point(p) <= consumer_sequence[c] /\ consumer_sequence[c] \in Int
          /\ 0 .. consumer_sequence[c] \subseteq published
      BY <1>1, <3>2, HandledIsPublished, Zenon DEF IInv, GateInv, TypeOK, PipelineTypeOK
    <3>4. s - Size < 0 \/ s - Size \in published
      BY <3>1, <3>3
    <3>5. available[slot_index(s - Size)] = LapFlag(s - Size)
      BY <3>1, <3>4, Zenon DEF IInv, FlagInv
    <3> QED BY <2>1, <3>1, <3>5, OneLapBack
  <2> QED BY <1>1, <2>1, <2>2, <2>3
<1> QED BY <1>3, <1>4, <1>5

\* Writing a claimed slot keeps claims, ring and flags: no published event of
\* the last lap and no other claim lies in it.
LEMMA WriteKeepsSlots ==
    ASSUME IInv, TypeOK', NEW p \in Producers, OthersStay(p), WriteSlot(p), Gated' = Gated
    PROVE  CursorInv' /\ RingInv' /\ FlagInv'
<1>1. /\ TypeOK /\ DOMAIN producer = Producers /\ at \in [Producers -> Int]
      /\ current[p] \in Int /\ at[p] \in Int /\ cursor \in Int
      /\ DOMAIN ring = 0 .. Size - 1 /\ end_sequence(p) \in Int
  BY LocalsAreTyped, Zenon DEF IInv, TypeOK, PipelineTypeOK
<1>2. /\ producer[p] = "write" /\ ring' = [ring EXCEPT ![slot_index(at[p])] = at[p]]
      /\ UNCHANGED <<cursor, available, published, current, n>>
  BY DEF WriteSlot, scanVars, callVars
<1>3. \/ /\ at[p] = end_sequence(p) /\ producer'[p] = "publish" /\ at'[p] = current[p] + 1
      \/ /\ at[p] # end_sequence(p) /\ producer'[p] = "write" /\ at'[p] = at[p] + 1
  BY <1>1, <1>2 DEF WriteSlot, PGoTo
<1>4. /\ -1 <= current[p] /\ current[p] <= cursor /\ current[p] < at[p] /\ at[p] <= end_sequence(p)
      /\ CursorInv
  BY <1>2 DEF IInv, CursorInv, ClaimInv
<1>5. /\ Claimed(p) = current[p] + 1 .. end_sequence(p) /\ Claimed(p)' = Claimed(p)
      /\ end_sequence(p)' = end_sequence(p)
  <2>1. end_sequence(p)' = end_sequence(p) /\ current'[p] = current[p]
    BY <1>2 DEF end_sequence
  <2>2. Claimed(p) = current[p] + 1 .. end_sequence(p)
    BY <1>2 DEF Claimed
  <2>3. Claimed(p)' = current[p] + 1 .. end_sequence(p)
    BY <1>3, <2>1 DEF Claimed
  <2> QED BY <2>1, <2>2, <2>3
<1>6. CursorInv'
  <2>1. {} \subseteq Claimed(p) /\ {} \cap Claimed(p)' = {} /\ Claimed(p)' \subseteq Claimed(p)
    BY <1>5
  <2>2. /\ -1 <= current'[p] /\ current'[p] <= cursor' /\ cursor' >= cursor
        /\ current'[p] < at'[p] /\ at'[p] <= end_sequence(p)' /\ published' = published \cup {}
    BY <1>1, <1>2, <1>3, <1>4, <1>5
  <2> QED BY <1>1, <1>4, <2>1, <2>2, ClaimsStayDisjoint, Zenon
<1>7. ASSUME Gated PROVE RingInv'
  <2>1. at[p] \in Claimed(p)
    BY <1>1, <1>4, <1>5
  <2>2. /\ at[p] \notin published /\ cursor - Size < at[p] /\ at[p] <= cursor
        /\ slot_index(at[p]) \in 0 .. Size - 1
    BY <1>1, <1>7, <2>1, ClaimsAreInTheLastLap, SlotInRing
  <2>3. ASSUME NEW s \in Int, s # at[p], cursor - Size < s, s <= cursor
        PROVE  ring'[slot_index(s)] = ring[slot_index(s)]
    <3>1. slot_index(s) # slot_index(at[p]) /\ slot_index(s) \in 0 .. Size - 1
      BY <1>1, <2>2, <2>3, LastLapIsInjective, SlotInRing
    <3> QED BY <1>1, <1>2, <3>1, Zenon
  <2>4. ring'[slot_index(at[p])] = at[p]
    BY <1>1, <1>2, <2>2, Zenon
  <2>5. ASSUME NEW s \in published, s > cursor - Size PROVE ring'[slot_index(s)] = s
    <3>1. s \in Int /\ s <= cursor /\ s # at[p]
      BY <1>1, <1>4, <2>2 DEF CursorInv
    <3> QED BY <1>1, <1>7, <2>3, <2>5, <3>1 DEF IInv, RingInv
  <2>6. ASSUME NEW q \in Producers \ {p}, NEW s \in Claimed(q)
        PROVE  ring'[slot_index(s)] = ring[slot_index(s)]
    <3>1. s # at[p]
      BY <1>4, <2>1 DEF CursorInv
    <3>2. s \in Int /\ cursor - Size < s /\ s <= cursor
      BY <1>7, ClaimsAreInTheLastLap
    <3> QED BY <2>3, <3>1, <3>2
  <2>7. ASSUME NEW q \in Producers \ {p}, producer'[q] = "publish", NEW s \in Claimed(q)'
        PROVE  ring'[slot_index(s)] = s
    <3>1. producer[q] = "publish" /\ s \in Claimed(q)
      BY <2>7, OthersKeepClaims, Zenon DEF OthersStay
    <3> QED BY <1>7, <2>6, <3>1 DEF IInv, RingInv
  <2>8. ASSUME NEW q \in Producers \ {p}, producer'[q] = "write",
               NEW s \in current'[q] + 1 .. at'[q] - 1
        PROVE  ring'[slot_index(s)] = s
    <3>1. producer[q] = "write" /\ s \in current[q] + 1 .. at[q] - 1
      BY <2>8, Zenon DEF OthersStay
    <3>2. at[q] <= end_sequence(q) /\ Claimed(q) = current[q] + 1 .. end_sequence(q)
      BY <1>4, <3>1 DEF CursorInv, ClaimInv, Claimed
    <3>3. current[q] \in Int /\ at[q] \in Int /\ end_sequence(q) \in Int
      BY <1>1, LocalsAreTyped, Zenon
    <3>4. s \in Claimed(q)
      BY <3>1, <3>2, <3>3
    <3> QED BY <1>7, <2>6, <3>1, <3>4, Zenon DEF IInv, RingInv
  <2>9. \A s \in current[p] + 1 .. at[p] : ring'[slot_index(s)] = s
    <3> TAKE s \in current[p] + 1 .. at[p]
    <3>1. CASE s = at[p]
      BY <2>4, <3>1
    <3>2. CASE s # at[p]
      <4>1. s \in Claimed(p) /\ s \in current[p] + 1 .. at[p] - 1
        BY <1>1, <1>4, <1>5, <3>2
      <4>2. s \in Int /\ cursor - Size < s /\ s <= cursor
        BY <1>7, <4>1, ClaimsAreInTheLastLap
      <4> QED BY <1>2, <1>7, <2>3, <3>2, <4>1, <4>2 DEF IInv, RingInv
    <3> QED BY <3>1, <3>2
  <2>10. producer'[p] = "write" => \A s \in current'[p] + 1 .. at'[p] - 1 : ring'[slot_index(s)] = s
    BY <1>1, <1>2, <1>3, <2>9
  <2>11. producer'[p] = "publish" => \A s \in Claimed(p)' : ring'[slot_index(s)] = s
    BY <1>2, <1>3, <1>5, <2>9, Zenon
  <2> QED BY <1>2, <2>5, <2>7, <2>8, <2>10, <2>11 DEF RingInv
<1>8. FlagInv' /\ (~Gated => RingInv')
  BY <1>2, Zenon DEF IInv, FlagInv, RingInv
<1> QED BY <1>6, <1>7, <1>8

\* A chunk that p publishes is part of its claim, and leaves it.
LEMMA PublishedChunk ==
    ASSUME TypeOK, NEW p \in Producers, ClaimInv(p), Publish(p)
    PROVE  LET chunk == Chunk(at[p], end_sequence(p))
           IN  /\ chunk \subseteq Claimed(p) /\ chunk \subseteq Nat
               /\ published' = published \cup chunk /\ available' = set_available(chunk)
               /\ chunk \cap Claimed(p)' = {} /\ Claimed(p)' \subseteq Claimed(p)
               /\ UNCHANGED <<cursor, ring>>
               /\ producer'[p] # "write" /\ (producer'[p] = "publish" => producer[p] = "publish")
               /\ current'[p] \in {current[p], -1}
               /\ producer'[p] = "publish" =>
                     current'[p] < at'[p] /\ at'[p] <= end_sequence(p)'
<1> DEFINE chunk == Chunk(at[p], end_sequence(p))
<1>1. /\ producer[p] = "publish" /\ published' = published \cup chunk
      /\ available' = set_available(chunk) /\ UNCHANGED <<cursor, ring>>
  BY DEF Publish
<1>2. /\ current[p] \in Int /\ at[p] \in Int /\ end_sequence(p) \in Int
      /\ DOMAIN at = Producers
  BY LocalsAreTyped DEF TypeOK
<1>3. /\ -1 <= current[p] /\ current[p] < at[p] /\ at[p] <= end_sequence(p)
      /\ Claimed(p) = at[p] .. end_sequence(p)
  BY <1>1 DEF ClaimInv, Claimed
<1>4. PICK m \in at[p] .. end_sequence(p) : chunk = at[p] .. m /\ Max(chunk) = m
  BY <1>2, <1>3, ChunkIsARun, Zenon
<1>5. m = end_sequence(p) => Return(p, "Ok")
  BY <1>4 DEF Publish
<1>6. m # end_sequence(p) => /\ at' = [at EXCEPT ![p] = m + 1]
                            /\ UNCHANGED <<producer, callVars, scanVars>>
  BY <1>4 DEF Publish
<1> HIDE DEF chunk
<1>7. chunk \subseteq Claimed(p) /\ chunk \subseteq Nat
  BY <1>2, <1>3, <1>4
<1>8. CASE m = end_sequence(p)
  <2>1. producer'[p] = "idle" /\ current'[p] = -1
    BY <1>5, <1>8, ReturnIsQuiet
  <2>2. Claimed(p)' = {}
    BY <2>1 DEF Claimed
  <2> QED BY <1>1, <1>7, <2>1, <2>2 DEF chunk
<1>9. CASE m # end_sequence(p)
  <2>1. /\ at'[p] = m + 1 /\ producer'[p] = "publish" /\ current'[p] = current[p]
        /\ end_sequence(p)' = end_sequence(p)
    BY <1>1, <1>2, <1>6, <1>9 DEF callVars, scanVars, end_sequence
  <2>2. Claimed(p)' = m + 1 .. end_sequence(p)
    BY <2>1 DEF Claimed
  <2>3. chunk \cap Claimed(p)' = {} /\ Claimed(p)' \subseteq Claimed(p)
    BY <1>2, <1>3, <1>4, <2>2
  <2>4. current'[p] < at'[p] /\ at'[p] <= end_sequence(p)'
    BY <1>2, <1>3, <1>4, <1>9, <2>1
  <2> QED BY <1>1, <1>7, <2>1, <2>3, <2>4 DEF chunk
<1> QED BY <1>8, <1>9

\* Publishing a chunk keeps claims, ring and flags: it flips the flags of its
\* own slots only, each from the lap before to this one.
LEMMA PublishKeepsSlots ==
    ASSUME IInv, TypeOK', NEW p \in Producers, OthersStay(p), Publish(p), Gated' = Gated
    PROVE  CursorInv' /\ RingInv' /\ FlagInv'
<1> DEFINE chunk == Chunk(at[p], end_sequence(p))
<1>1. /\ TypeOK /\ CursorInv /\ ClaimInv(p) /\ cursor \in Int /\ producer[p] = "publish"
      /\ -1 <= current[p] /\ current[p] <= cursor /\ current[p] \in Int /\ -1 <= cursor
  BY LocalsAreTyped, Zenon DEF IInv, TypeOK, PipelineTypeOK, CursorInv, ClaimInv, Publish
<1>2. /\ chunk \subseteq Claimed(p) /\ chunk \subseteq Nat
      /\ published' = published \cup chunk /\ available' = set_available(chunk)
      /\ chunk \cap Claimed(p)' = {} /\ Claimed(p)' \subseteq Claimed(p)
      /\ UNCHANGED <<cursor, ring>>
      /\ producer'[p] # "write" /\ (producer'[p] = "publish" => producer[p] = "publish")
      /\ current'[p] \in {current[p], -1}
      /\ producer'[p] = "publish" =>
            current'[p] < at'[p] /\ at'[p] <= end_sequence(p)'
  BY <1>1, PublishedChunk, Zenon
<1> HIDE DEF chunk
<1>3. CursorInv'
  <2>1. -1 <= current'[p] /\ current'[p] <= cursor' /\ cursor' >= cursor
    BY <1>1, <1>2
  <2> QED BY <1>1, <1>2, <2>1, ClaimsStayDisjoint, Zenon
<1>4. RingInv'
  <2>1. \A q \in Producers \ {p} : /\ Claimed(q)' = Claimed(q) /\ producer'[q] = producer[q]
                                   /\ current'[q] = current[q] /\ at'[q] = at[q]
    BY OthersKeepClaims, Zenon DEF OthersStay
  <2>2. Gated => \A s \in Claimed(p) : ring[slot_index(s)] = s
    BY <1>1 DEF IInv, RingInv
  <2>3. Gated => \A s \in published' : s > cursor - Size => ring[slot_index(s)] = s
    BY <1>2, <2>2, Zenon DEF IInv, RingInv
  <2>4. ASSUME NEW q \in Producers, Gated, producer'[q] = "publish", NEW s \in Claimed(q)'
        PROVE  ring[slot_index(s)] = s
    <3>1. CASE q = p
      BY <1>2, <2>2, <2>4, <3>1
    <3>2. CASE q # p
      BY <2>1, <2>4, <3>2 DEF IInv, RingInv
    <3> QED BY <3>1, <3>2
  <2>5. \A q \in Producers : Gated /\ producer'[q] = "write" =>
                                \A s \in current'[q] + 1 .. at'[q] - 1 : ring[slot_index(s)] = s
    BY <1>2, <2>1, Zenon DEF IInv, RingInv
  <2> QED BY <1>2, <2>3, <2>4, <2>5, Zenon DEF RingInv
<1>5. FlagInv'
  <2> SUFFICES ASSUME Gated, NEW s \in cursor - Size + 1 .. cursor
               PROVE  available'[slot_index(s)] =
                         IF s < 0 \/ s \in published' THEN LapFlag(s) ELSE LapFlag(s - Size)
    BY <1>2 DEF FlagInv, LapFlag, round_flag
  <2>1. s \in Int /\ cursor - Size < s /\ s <= cursor /\ slot_index(s) \in 0 .. Size - 1
    BY <1>1, SlotInRing
  <2>2. ASSUME NEW x \in chunk, slot_index(x) = slot_index(s) PROVE x = s
    <3>1. x \in Int /\ cursor - Size < x /\ x <= cursor
      BY <1>2, ClaimsAreInTheLastLap
    <3> QED BY <1>1, <2>1, <2>2, <3>1, LastLapIsInjective
  <2>3. available[slot_index(s)] = IF s < 0 \/ s \in published THEN LapFlag(s) ELSE LapFlag(s - Size)
    BY DEF IInv, FlagInv
  <2>4. CASE s \in chunk
    <3>1. s \in Nat /\ s \notin published /\ s \in published' /\ ~(s < 0)
      BY <1>2, <2>4, ClaimsAreInTheLastLap
    <3>2. /\ round_flag(s) \in 0 .. 1 /\ round_flag(s - Size) = 1 - round_flag(s)
      BY <2>1, OneLapBack
    <3>3. CASE Bitmap
      <4>1. available'[slot_index(s)] = 1 - available[slot_index(s)]
        BY <1>2, <2>1, <2>4, <3>3 DEF set_available
      <4> QED BY <2>3, <3>1, <3>2, <3>3, <4>1 DEF LapFlag
    <3>4. CASE ~Bitmap
      <4>1. available'[slot_index(s)] = round_flag(CHOOSE x \in chunk : slot_index(x) = slot_index(s))
        BY <1>2, <2>1, <2>4, <3>4, Zenon DEF set_available
      <4>2. (CHOOSE x \in chunk : slot_index(x) = slot_index(s)) = s
        BY <2>2, <2>4, Zenon
      <4> QED BY <3>1, <4>1, <4>2, Zenon DEF LapFlag
    <3> QED BY <3>3, <3>4
  <2>5. CASE s \notin chunk
    <3>1. available'[slot_index(s)] = available[slot_index(s)]
      BY <1>2, <2>1, <2>2, <2>5, Zenon DEF set_available
    <3>2. s \in published' <=> s \in published
      BY <1>2, <2>5
    <3> QED BY <2>3, <3>1, <3>2
  <2> QED BY <2>4, <2>5
<1> QED BY <1>3, <1>4, <1>5

\* The steps of a producer keep the invariant.
LEMMA ProducerKeepsIInv ==
    ASSUME IInv, NEW p \in Producers, Call(p) \/ ProducerStep(p)
    PROVE  IInv'
<1>1. TypeOK /\ TypeOK'
  BY ProducerKeepsTypes, Zenon DEF IInv, CursorInv
<1>2. /\ UNCHANGED <<consumerVars, coreVars, scan_at>>
      /\ cursor' >= cursor /\ published \subseteq published'
  BY <1>1, ProducerMovesForward, Zenon
<1>3. /\ Gated' = Gated /\ GatingInv'
      /\ \A d \in Consumers : consumer_sequence'[d] >= consumer_sequence[d]
  <2>1. Gated' = Gated /\ GatingInv' /\ consumer_sequence' = consumer_sequence
    BY <1>2, Zenon DEF IInv, GatingInv, Gated, consumerVars, coreVars
  <2>2. \A d \in Consumers : consumer_sequence[d] \in Int
    BY <1>1 DEF TypeOK, PipelineTypeOK
  <2> QED BY <2>1, <2>2
<1>4. \A c \in Consumers : ConsumerInv(c)'
  BY <1>1, <1>2, <1>3, ConsumerFrame, Zenon DEF IInv, consumerVars
<1>5. CursorInv' /\ RingInv' /\ FlagInv'
  BY <1>1, <1>3, StepsAreQuiet, QuietKeepsSlots, ClaimKeepsSlots, WriteKeepsSlots,
     PublishKeepsSlots, Zenon
<1>6. GateInv'
  BY <1>1, ProducerKeepsGate, Zenon
<1> QED BY <1>1, <1>3, <1>4, <1>5, <1>6 DEF IInv

\* A step that changes nothing keeps the invariant.
LEMMA StutteringKeepsIInv ==
    ASSUME IInv, UNCHANGED vars
    PROVE  IInv'
<1>1. TypeOK /\ TypeOK'
  BY StutteringKeepsTypes DEF IInv
<1>2. /\ UNCHANGED <<consumerVars, coreVars, scan_at, producerVars, cursor, ring>>
  BY Zenon DEF vars, sharedVars
<1>3. /\ Gated' = Gated /\ GatingInv'
      /\ cursor' >= cursor /\ published \subseteq published'
      /\ \A d \in Consumers : consumer_sequence'[d] >= consumer_sequence[d]
  <2>1. /\ Gated' = Gated /\ GatingInv' /\ consumer_sequence' = consumer_sequence
        /\ cursor' = cursor /\ published' = published
    BY <1>2, Zenon DEF IInv, GatingInv, Gated, consumerVars, coreVars, producerVars
  <2>2. cursor \in Int /\ \A d \in Consumers : consumer_sequence[d] \in Int
    BY <1>1 DEF TypeOK, PipelineTypeOK
  <2> QED BY <2>1, <2>2
<1>4. \A c \in Consumers : ConsumerInv(c)'
  BY <1>1, <1>2, <1>3, ConsumerFrame, Zenon DEF IInv, consumerVars
<1>5. CursorInv' /\ GateInv' /\ RingInv' /\ FlagInv'
  BY <1>1, <1>2, <1>3, ProducerFrame, Zenon DEF IInv
<1> QED BY <1>1, <1>3, <1>4, <1>5 DEF IInv

\* The initial state satisfies the invariant: the initial flag of every slot is
\* the one that the lap before the first would have left.
LEMMA InitEstablishesIInv ==
    ASSUME Init
    PROVE  IInv
<1>1. TypeOK
  BY InitIsTyped
<1>2. \A c \in Consumers : ConsumerInv(c)
  <2>1. \A c \in Consumers : /\ pc[c] = "start" /\ consumer_sequence[c] = INITIAL_CURSOR_VALUE
                              /\ next_sequence[c] = INITIAL_CURSOR_VALUE + 1
    BY Zenon DEF Init, PipelineInit
  <2> USE DEF INITIAL_CURSOR_VALUE
  <2> TAKE c \in Consumers
  <2>2. Progress(c)
    BY <2>1 DEF Progress, Committed
  <2>3. 0 .. next_sequence[c] - 1 = {}
    BY <2>1
  <2> QED BY <2>1, <2>2, <2>3 DEF ConsumerInv
<1>3. GatingInv
  BY DEF Init, PipelineInit, GatingInv, Gated
<1>4. CursorInv
  <2>1. /\ cursor = -1 /\ published = {}
        /\ \A p \in Producers : producer[p] = "idle" /\ current[p] = -1
    BY DEF Init, PipelineInit, INITIAL_CURSOR_VALUE
  <2>2. \A p \in Producers : Claimed(p) = {}
    BY <2>1 DEF Claimed
  <2> QED BY <2>1, <2>2 DEF CursorInv, ClaimInv
<1>5. GateInv
  <2>1. /\ cursor = -1 /\ cached_gating_sequence = -1
        /\ \A p \in Producers : producer[p] = "idle" /\ min_sequence[p] = -1
        /\ \A g \in Terminal : consumer_sequence[g] = -1
    BY DEF Init, PipelineInit, INITIAL_CURSOR_VALUE, Terminal
  <2> QED BY <2>1 DEF GateInv
<1>6. RingInv
  BY DEF Init, RingInv
<1>7. FlagInv
  <2> SUFFICES ASSUME NEW s \in cursor - Size + 1 .. cursor
               PROVE  available[slot_index(s)] = LapFlag(s) /\ s < 0
    BY DEF FlagInv
  <2>1. s \in -Size .. -1 /\ s < 0
    BY DEF Init, PipelineInit, INITIAL_CURSOR_VALUE
  <2>2. available[slot_index(s)] = IF Bitmap THEN 1 ELSE -1
    BY <2>1, SlotInRing DEF Init
  <2> QED BY <2>1, <2>2, FirstLapFlag DEF LapFlag
<1> QED BY <1>1, <1>2, <1>3, <1>4, <1>5, <1>6, <1>7 DEF IInv

\* The invariant holds always: types, progress of the consumers, disjoint claims
\* below the cursor, gating bounds, ring contents and availability flags.
THEOREM Invariance == Spec => []IInv
<1>1. Init => IInv
  BY InitEstablishesIInv
<1>2. ASSUME IInv, [Next]_vars PROVE IInv'
  BY <1>2, CoreKeepsIInv, ProducerKeepsIInv, ConsumerKeepsIInv, StutteringKeepsIInv DEF Next
<1> QED BY <1>1, <1>2, PTL DEF Spec

-----------------------------------------------------------------------------
(* What the invariant is for.                                              *)

\* A handler works on a published event of the last lap, after the stages
\* before its own.
LEMMA HandlersAreInTheLastLap ==
    ASSUME IInv, NEW c \in Consumers, pc[c] = "event"
    PROVE  /\ next_sequence[c] \in Nat /\ 0 .. next_sequence[c] \subseteq published
           /\ cursor - Size < next_sequence[c] /\ next_sequence[c] <= cursor /\ Gated
           /\ \A d \in Consumers : Stage[d] < Stage[c] => next_sequence[c] < next_sequence[d]
<1>1. /\ \A e \in Consumers : /\ consumer_sequence[e] \in Int /\ next_sequence[e] \in Int
                              /\ available_sequence[e] \in Int
      /\ cursor \in Int
  BY DEF IInv, TypeOK, PipelineTypeOK
<1>2. /\ consumer_sequence[c] < next_sequence[c] /\ 0 <= next_sequence[c]
      /\ next_sequence[c] <= available_sequence[c]
      /\ Committed(c, available_sequence[c]) /\ 0 .. available_sequence[c] \subseteq published
      /\ \A d \in Consumers : consumer_sequence[d] < next_sequence[d]
      /\ published \subseteq 0 .. cursor
  <2>1. ConsumerInv(c) /\ published \subseteq 0 .. cursor /\ \A d \in Consumers : Progress(d)
    BY Zenon DEF IInv, ConsumerInv, CursorInv
  <2>2. \A d \in Consumers : consumer_sequence[d] < next_sequence[d]
    BY <2>1, Zenon DEF Progress
  <2>3. 0 .. available_sequence[c] \subseteq published
    BY <2>1, Zenon DEF ConsumerInv
  <2>4. /\ 0 <= next_sequence[c] /\ next_sequence[c] <= available_sequence[c]
        /\ Committed(c, available_sequence[c])
    BY <1>1, <2>1 DEF Progress
  <2> QED BY <2>1, <2>2, <2>3, <2>4
<1>3. Gated
  BY DEF IInv, GatingInv
<1>4. cursor - Size <= consumer_sequence[c]
  BY <1>3, CursorIsWithinALap, Zenon DEF IInv
<1>5. next_sequence[c] \in Nat /\ 0 .. next_sequence[c] \subseteq published
  BY <1>1, <1>2
<1>6. next_sequence[c] \in published
  BY <1>5
<1> QED BY <1>1, <1>2, <1>3, <1>4, <1>5, <1>6 DEF Committed

\* With any number of producers no handler of any stage reads a slot that holds
\* another event than the one its sequence names.
THEOREM HandlersAreSafe == Spec => []HandlersSeeTheirEvent
<1>1. IInv => HandlersSeeTheirEvent
  <2> SUFFICES ASSUME IInv, NEW c \in Consumers, pc[c] = "event"
               PROVE  ring[slot_index(next_sequence[c])] = next_sequence[c]
    BY DEF HandlersSeeTheirEvent
  <2>1. next_sequence[c] \in 0 .. next_sequence[c]
    BY HandlersAreInTheLastLap
  <2> QED BY <2>1, HandlersAreInTheLastLap DEF IInv, RingInv
<1> QED BY <1>1, Invariance, PTL

\* The slots a producer owns are those of the sequences it has claimed.
LEMMA OwnedSlotsAreClaimed ==
    ASSUME NEW p \in Producers, NEW i \in Owned(p)
    PROVE  \E s \in Claimed(p) : slot_index(s) = i
BY DEF Owned, Claimed

\* While a consumer gates the producers, a claim won by the compare-and-set
\* gives its producer slots that no other producer owns and no handler holds.
THEOREM ClaimsAreExclusive == Spec => []GatedClaimsAreExclusive
<1>1. ASSUME IInv, Gated PROVE ExclusiveClaims
  <2>0. TypeOK
    BY <1>1 DEF IInv
  <2>1. ASSUME NEW p \in Producers, NEW q \in Producers, p # q,
               NEW i, i \in Owned(p), i \in Owned(q)
        PROVE  FALSE
    <3>1. PICK s \in Claimed(p) : slot_index(s) = i
      BY <2>1, OwnedSlotsAreClaimed, Zenon
    <3>2. PICK t \in Claimed(q) : slot_index(t) = i
      BY <2>1, OwnedSlotsAreClaimed, Zenon
    <3>3. /\ s \in Nat /\ cursor - Size < s /\ s <= cursor
          /\ t \in Nat /\ cursor - Size < t /\ t <= cursor
      BY <1>1, ClaimsAreInTheLastLap, Zenon
    <3>4. s = t
      BY <2>0, <3>1, <3>2, <3>3, LastLapIsInjective
    <3>5. Claimed(p) \cap Claimed(q) = {}
      BY <1>1, <2>1, Zenon DEF IInv, CursorInv
    <3> QED BY <3>4, <3>5
  <2>2. ASSUME NEW p \in Producers, NEW c \in Consumers, pc[c] = "event",
               slot_index(next_sequence[c]) \in Owned(p)
        PROVE  FALSE
    <3>1. PICK s \in Claimed(p) : slot_index(s) = slot_index(next_sequence[c])
      BY <2>2, OwnedSlotsAreClaimed, Zenon
    <3>2. s \in Nat /\ s \notin published /\ cursor - Size < s /\ s <= cursor
      BY <1>1, ClaimsAreInTheLastLap, Zenon
    <3>3. /\ next_sequence[c] \in Nat /\ cursor - Size < next_sequence[c]
          /\ next_sequence[c] <= cursor /\ next_sequence[c] \in published
      BY <1>1, <2>2, HandlersAreInTheLastLap
    <3> QED BY <2>0, <3>1, <3>2, <3>3, LastLapIsInjective
  <2> QED BY <2>1, <2>2, Zenon DEF ExclusiveClaims
<1>2. IInv => GatedClaimsAreExclusive
  BY <1>1, Zenon DEF GatedClaimsAreExclusive, Gated
<1> QED BY <1>2, Invariance, PTL

\* One parity bit per slot is enough, for every ring size and in both layouts:
\* is_available answers truthfully for whatever a consumer may still ask about.
THEOREM FlagsAreTrue == Spec => []FlagsTellPublished
<1>1. ASSUME IInv, Gated, NEW c \in Consumers, NEW s \in next_sequence[c] .. cursor
      PROVE  is_available(s) <=> s \in published
  <2>1. /\ consumer_sequence[c] \in Int /\ next_sequence[c] \in Int /\ cursor \in Int
        /\ -1 <= consumer_sequence[c] /\ consumer_sequence[c] < next_sequence[c]
    BY <1>1 DEF IInv, TypeOK, PipelineTypeOK, ConsumerInv, Progress
  <2>2. cursor - Size <= consumer_sequence[c]
    BY <1>1, CursorIsWithinALap, Zenon DEF IInv
  <2>3. s \in Nat /\ s > cursor - Size /\ s <= cursor
    BY <1>1, <2>1, <2>2
  <2> QED BY <1>1, <2>3, FlagTellsPublished, Zenon DEF IInv
<1>2. IInv => FlagsTellPublished
  BY <1>1, Zenon DEF FlagsTellPublished, Gated
<1> QED BY <1>2, Invariance, PTL

-----------------------------------------------------------------------------
(* The terminal flags.                                                     *)

\* Every step keeps what is known of a call that began under a terminal flag.
LEMMA NextKeepsCallInv ==
    ASSUME TypeOK, CallInv, [Next]_vars
    PROVE  CallInv'
<1>1. ASSUME NEW p \in Producers, Call(p) \/ ProducerStep(p) PROVE CallInv'
  <2>1. (poisoned => poisoned') /\ (closed => closed')
    BY <1>1, FlagsLast, Zenon DEF Next
  <2>2. \A q \in Producers \ {p} : producer'[q] = producer[q]
    BY <1>1, StepsAreQuiet, Zenon DEF OthersStay
  <2> QED BY <1>1, <2>1, <2>2, ProducerKeepsCallInv DEF CallInv
<1>2. CASE UNCHANGED producerVars /\ Next
  BY <1>2, FlagsLast, Zenon DEF CallInv, producerVars, callVars
<1>3. CASE UNCHANGED vars
  BY <1>3, Zenon DEF CallInv, vars, sharedVars, flagVars, producerVars, callVars
<1> QED BY <1>1, <1>2, <1>3, Zenon DEF Next, ConsumerNext, CoreNext

\* However the flags race with the retries of a claim, a call that began after
\* the poison or the close is never granted and never told to try again.
THEOREM RefusalsAreTerminal == Spec => []TerminalIsNotTransient
<1>1. Init => CallInv
  BY Zenon DEF Init, CallInv
<1>2. IInv /\ CallInv /\ [Next]_vars => CallInv'
  BY NextKeepsCallInv, Zenon DEF IInv
<1>3. CallInv => TerminalIsNotTransient
  BY Zenon DEF CallInv, TerminalIsNotTransient
<1> QED BY <1>1, <1>2, <1>3, Invariance, PTL DEF Spec

-----------------------------------------------------------------------------
(* The drain.                                                              *)

\* A shutdown that reports Ok left nothing below the cursor it read unhandled
\* at any stage, although drain() compares it with the last stage only and
\* producers may still publish what they had claimed.
THEOREM DrainsAreComplete == Spec => []DrainReachesItsTarget
<1>1. Init => DrainInv
  BY DEF Init, PipelineInit, DrainInv
<1>2. ASSUME IInv, DrainInv, [Next]_vars PROVE DrainInv'
  <2>1. ASSUME NEW c \in Consumers, ConsumerNext(c) PROVE DrainInv'
    <3>1. UNCHANGED coreVars /\ \A e \in Consumers : consumer_sequence'[e] >= consumer_sequence[e]
      BY <1>2, <2>1, ConsumerMovesAlone, Zenon DEF IInv, MovesAlone
    <3>2. TypeOK /\ TypeOK'
      BY <1>2, <2>1, ConsumerKeepsTypes, Zenon DEF IInv
    <3>3. /\ drain_target \in Int
          /\ \A e \in Consumers : consumer_sequence[e] \in Int /\ consumer_sequence'[e] \in Int
      BY <3>2 DEF TypeOK, PipelineTypeOK
    <3> QED BY <1>2, <3>1, <3>3 DEF DrainInv, coreVars
  <2>2. CASE UNCHANGED <<coreVars, consumerVars>>
    BY <1>2, <2>2, Zenon DEF DrainInv, coreVars, consumerVars
  <2>3. ASSUME NEW p \in Producers, Call(p) \/ ProducerStep(p)
        PROVE  UNCHANGED <<coreVars, consumerVars>>
    BY <1>2, <2>3, ProducerKeepsTypes, ProducerMovesForward, Zenon DEF IInv, CursorInv
  <2> QED BY <1>2, <2>1, <2>2, <2>3, CoreKeepsDrainInv, Zenon DEF Next, vars, sharedVars
<1>3. DrainInv => DrainReachesItsTarget
  BY Zenon DEF DrainInv, DrainReachesItsTarget
<1> QED BY <1>1, <1>2, <1>3, Invariance, PTL DEF Spec

-----------------------------------------------------------------------------
(* The pipeline implements the bounded log.                                *)

\* A producer step lengthens the published prefix, or does not show: a claim
\* is invisible, and so is a publication behind a hole.
LEMMA ProducerImplementsLog ==
    ASSUME IInv, NEW p \in Producers, Call(p) \/ ProducerStep(p)
    PROVE  [Log!Next]_(Log!vars)
<1>1. IInv'
  BY ProducerKeepsIInv, Zenon
<1>2. UNCHANGED <<pc, next_sequence>> /\ published \subseteq published'
  BY <1>1, ProducerMovesForward, Zenon DEF IInv, consumerVars
<1>3. /\ Prefix \in Int /\ Prefix' \in Int /\ Prefix <= Prefix' /\ Prefix' <= cursor'
      /\ published' = published => Prefix' = Prefix
  BY <1>1, <1>2, PrefixGrows, Zenon DEF IInv
<1> HIDE DEF Prefix
<1>4. CASE Prefix' = Prefix
  BY <1>2, <1>4, Zenon DEF Log!vars
<1>5. CASE Prefix' # Prefix
  <2>1. cursor' = cursor
    BY <1>3, <1>5, StepsAreQuiet, Zenon DEF IInv, QuietStep, Claims, CompareAndSet, WriteSlot, Publish
  <2>2. ASSUME NEW c \in Consumers, pc[c] # "done"
        PROVE  Prefix' - (next_sequence[c] - 1) <= Size
    <3>1. Gated
      BY <2>2, Zenon DEF IInv, GatingInv
    <3>2. cursor - Size <= consumer_sequence[c]
      BY <3>1, CursorIsWithinALap, Zenon DEF IInv
    <3>3. /\ consumer_sequence[c] \in Int /\ next_sequence[c] \in Int /\ cursor \in Int
          /\ consumer_sequence[c] < next_sequence[c]
      BY DEF IInv, TypeOK, PipelineTypeOK, ConsumerInv, Progress
    <3> QED BY <1>3, <2>1, <3>2, <3>3
  <2>3. Log!Append
    BY <1>2, <1>3, <1>5, <2>2 DEF Log!Append
  <2> QED BY <2>3, Zenon DEF Log!Next
<1> QED BY <1>4, <1>5

\* A consumer step handles the next event of the prefix, retires the thread, or
\* does not show.
LEMMA ConsumerImplementsLog ==
    ASSUME IInv, NEW c \in Consumers, ConsumerNext(c)
    PROVE  [Log!Next]_(Log!vars)
<1> USE DEF Log!vars
<1>1. /\ pc \in [Consumers -> Places] /\ next_sequence \in [Consumers -> Int]
      /\ TypeOK /\ TypeOK' /\ CursorInv /\ CursorInv'
  BY ConsumerKeepsIInv, Zenon DEF IInv, TypeOK, PipelineTypeOK
<1>2. /\ pc[c] # "done" /\ UNCHANGED <<cursor, published>>
      /\ \A e \in Consumers \ {c} : pc'[e] = pc[e]
  BY <1>1, ConsumerMovesAlone, Zenon DEF IInv, MovesAlone, producerVars
<1>3. /\ Prefix' = Prefix /\ Prefix \in Int
      /\ \A k \in Nat : 0 .. k \subseteq published => k <= Prefix
  BY <1>1, <1>2, PrefixGrows, Zenon
<1> HIDE DEF Prefix
<1>4. CASE HandleEvent(c)
  <2>1. /\ pc[c] = "event" /\ pc'[c] # "done"
        /\ next_sequence' = [next_sequence EXCEPT ![c] = @ + 1]
    BY <1>1, <1>4, Zenon DEF HandleEvent, GoTo
  <2>2. {e \in Consumers : pc'[e] = "done"} = {e \in Consumers : pc[e] = "done"}
    BY <1>2, <2>1
  <2>3. /\ next_sequence[c] <= Prefix /\ next_sequence[c] \in Int
        /\ \A d \in Consumers : Stage[d] < Stage[c] => next_sequence[c] < next_sequence[d]
    <3>1. /\ next_sequence[c] \in Nat /\ 0 .. next_sequence[c] \subseteq published
          /\ \A d \in Consumers : Stage[d] < Stage[c] => next_sequence[c] < next_sequence[d]
      BY <2>1, HandlersAreInTheLastLap, Zenon
    <3> QED BY <1>3, <3>1
  <2>4. [e \in Consumers |-> next_sequence'[e] - 1]
          = [[e \in Consumers |-> next_sequence[e] - 1] EXCEPT ![c] = @ + 1]
    BY <1>1, <2>1, HandledMovesByOne, Zenon
  <2>5. Log!Handle(c)
    BY <1>1, <1>2, <1>3, <2>1, <2>2, <2>3, <2>4 DEF Log!Handle
  <2> QED BY <2>5, Zenon DEF Log!Next
<1>5. CASE ~HandleEvent(c)
  <2>1. next_sequence' = next_sequence
    BY <1>5, Zenon DEF ConsumerNext, ConsumerStep, AwaitStep, StartThread, PollShutdown, BatchStart,
                HandlerFails, HandlerPanics, CommitBatch, OnShutdown, RecordFailure,
                PoisonProducers, ReadCursor, ReadDependent, ResolvePublished
  <2>2. CASE pc'[c] = "done"
    <3>1. {e \in Consumers : pc'[e] = "done"} = {e \in Consumers : pc[e] = "done"} \cup {c}
      BY <1>2, <2>2
    <3>2. Log!Retire(c)
      BY <1>3, <2>1, <3>1, Zenon DEF Log!Retire
    <3> QED BY <3>2, Zenon DEF Log!Next
  <2>3. CASE pc'[c] # "done"
    <3>1. {e \in Consumers : pc'[e] = "done"} = {e \in Consumers : pc[e] = "done"}
      BY <1>2, <2>3, Zenon
    <3> QED BY <1>3, <2>1, <3>1, Zenon
  <2> QED BY <2>2, <2>3, Zenon
<1> QED BY <1>4, <1>5, Zenon

\* With any number of producers the pipeline implements EventLog: every consumer
\* handles every event of the published prefix in order and once, after the
\* stages before it, and the prefix never runs a lap ahead of a live consumer.
THEOREM PipelineIsALog == Spec => ImplementsLog
<1>1. Init => Log!Init
  <2> SUFFICES ASSUME Init PROVE Log!Init
    OBVIOUS
  <2>1. /\ published = {} /\ cursor = -1 /\ published \in SUBSET Nat
        /\ cursor \in Int /\ -1 <= cursor /\ published \subseteq 0 .. cursor
    BY DEF Init, PipelineInit, INITIAL_CURSOR_VALUE
  <2>2. Prefix \in -1 .. cursor
    BY <2>1, PrefixExists, Zenon DEF Prefix
  <2>3. Prefix = -1
    BY <2>1, <2>2
  <2> QED BY <2>3 DEF Init, PipelineInit, Log!Init, INITIAL_CURSOR_VALUE
<1>2. IInv /\ [Next]_vars => [Log!Next]_(Log!vars)
  <2> SUFFICES ASSUME IInv, [Next]_vars PROVE [Log!Next]_(Log!vars)
    OBVIOUS
  <2>1. CASE UNCHANGED <<cursor, published, pc, next_sequence>>
    BY <2>1, Zenon DEF Log!vars, Prefix
  <2>2. CoreNext \/ UNCHANGED vars => UNCHANGED <<cursor, published, pc, next_sequence>>
    BY CoreStepFrame, Zenon DEF CoreNext, vars, sharedVars, producerVars, consumerVars
  <2> QED BY <2>1, <2>2, ProducerImplementsLog, ConsumerImplementsLog, Zenon DEF Next
<1> QED
  BY <1>1, <1>2, Invariance, PTL DEF Spec, ImplementsLog, Log!Spec
=============================================================================
