------------------------------ MODULE DslProofs ------------------------------
(***************************************************************************)
(* The safety of the Disruptor DSL.  Its life cycle, for any processors,   *)
(* ring size and number of starts: a stop leaves threads behind only where *)
(* a failing spawn unwinds start(), a shutdown that answers Ok is          *)
(* complete, and the processors of a chain hold different slots.  Its      *)
(* publish calls, for any number of threads, Disruptors and nested calls:  *)
(* they cannot deadlock on the claim locks.  The builder, for any          *)
(* consumers and cores: what it builds is what was declared.               *)
(***************************************************************************)
EXTENDS DslLifecycle, DslPublish, BuilderAssembly, TLAPS

USE SMTT(20), ZenonT(20)

-----------------------------------------------------------------------------
(* publish_event: what a step may do to a thread's stack of calls.         *)

\* Editing one call leaves the others.
LEMMA EditedStack ==
    ASSUME NEW S, NEW seq \in Seq(S), NEW n \in 1 .. Len(seq), NEW e \in S
    PROVE  /\ [seq EXCEPT ![n] = e] \in Seq(S)
           /\ Len([seq EXCEPT ![n] = e]) = Len(seq)
           /\ \A i \in 1 .. Len(seq) : [seq EXCEPT ![n] = e][i] = IF i = n THEN e ELSE seq[i]
OBVIOUS

\* A pushed call is on top of the others.
LEMMA PushedStack ==
    ASSUME NEW S, NEW seq \in Seq(S), NEW e \in S
    PROVE  /\ Append(seq, e) \in Seq(S) /\ Len(Append(seq, e)) = Len(seq) + 1
           /\ \A i \in 1 .. Len(seq) : Append(seq, e)[i] = seq[i]
           /\ Append(seq, e)[Len(seq) + 1] = e
OBVIOUS

\* Popping leaves the calls below the top.
LEMMA PoppedStack ==
    ASSUME NEW S, NEW seq \in Seq(S), Len(seq) > 0
    PROVE  /\ SubSeq(seq, 1, Len(seq) - 1) \in Seq(S)
           /\ Len(SubSeq(seq, 1, Len(seq) - 1)) = Len(seq) - 1
           /\ \A i \in 1 .. Len(seq) - 1 : SubSeq(seq, 1, Len(seq) - 1)[i] = seq[i]
<1>1. PICK n \in Nat : n = Len(seq) - 1 /\ n <= Len(seq)
  <2>1. Len(seq) \in Nat
    OBVIOUS
  <2>2. Len(seq) - 1 \in Nat /\ Len(seq) - 1 <= Len(seq)
    BY <2>1
  <2> QED BY <2>2, Zenon
<1>2. Len(SubSeq(seq, 1, n)) = n
  BY <1>1
<1>3. \A i \in 1 .. n : SubSeq(seq, 1, n)[i] = seq[i]
  BY <1>1
<1>4. SubSeq(seq, 1, n) \in Seq(S)
  BY <1>1
<1> QED BY <1>1, <1>2, <1>3, <1>4

\* publish_event, from outside or from a translator: a new call on top.
Pushes(t) ==
    /\ Depth(t) = 0 \/ In(t, "translate")
    /\ UNCHANGED <<claim_lock, claim_held>>
    /\ \E c \in PublishCall : c.pc = "guard" /\ c.guard = FALSE /\ calls'[t] = Append(calls[t], c)

\* The call on top becomes c.
Edits(t, c) ==
    /\ Depth(t) > 0 /\ c \in PublishCall /\ c.d = Top(t).d
    /\ calls'[t] = [calls[t] EXCEPT ![Depth(t)] = c]

\* The call on top goes on, to the lock only without a claim of the thread.
GoesOn(t) ==
    /\ UNCHANGED <<claim_lock, claim_held>>
    /\ \E c \in PublishCall : /\ Edits(t, c) /\ c.guard = Top(t).guard
                              /\ c.pc = "lock" => claim_held[t] = FALSE

\* The call on top takes the claim lock of its Disruptor.
Locks(t) ==
    /\ In(t, "lock") /\ claim_lock[Top(t).d] = Nobody
    /\ claim_lock' = [claim_lock EXCEPT ![Top(t).d] = t]
    /\ claim_held' = [claim_held EXCEPT ![t] = TRUE]
    /\ \E c \in PublishCall : Edits(t, c) /\ c.guard = TRUE /\ c.pc = "claim"

\* The call on top returns or unwinds, and its guard, if any, is dropped.
Pops(t) ==
    /\ Depth(t) > 0
    /\ claim_lock' = [claim_lock EXCEPT ![Top(t).d] = IF @ = t /\ Top(t).guard
                                                      THEN Nobody ELSE @]
    /\ claim_held' = [claim_held EXCEPT ![t] = @ /\ ~Top(t).guard]
    /\ calls'[t] \in Seq(PublishCall) /\ Len(calls'[t]) = Depth(t) - 1
    /\ \A i \in 1 .. Depth(t) - 1 : /\ calls'[t][i].d = calls[t][i].d
                                    /\ calls'[t][i].guard = calls[t][i].guard
                                    /\ calls'[t][i].pc \in {calls[t][i].pc, "unwind"}
    /\ \A i \in 1 .. Depth(t) - 2 : calls'[t][i].pc = calls[t][i].pc

\* A step of a publish call touches the stack of its own thread, in one of
\* these four ways.
LEMMA ThreadsMoveAlone ==
    ASSUME PublishTypeOK, NEW t \in Threads,
           CarryOn(t) \/ \E d \in Disruptors : publish_event(t, d)
    PROVE  /\ calls' = [calls EXCEPT ![t] = calls'[t]]
           /\ \/ Pushes(t) \/ GoesOn(t) \/ Locks(t) \/ Pops(t)
<1>1. /\ calls \in [Threads -> Seq(PublishCall)] /\ calls[t] \in Seq(PublishCall)
      /\ claimed \in [Disruptors -> Int] /\ Depth(t) \in Nat
  BY DEF PublishTypeOK, Depth
<1>2. ASSUME Depth(t) > 0
      PROVE  Top(t) \in PublishCall /\ Depth(t) \in 1 .. Depth(t)
  BY <1>1, <1>2 DEF Depth, Top
<1>3. ASSUME NEW place \in {"guard", "lock", "claim", "store", "translate", "unwind"},
             Depth(t) > 0, To(t, place)
      PROVE  /\ calls' = [calls EXCEPT ![t] = calls'[t]]
             /\ \E c \in PublishCall : /\ Edits(t, c) /\ c.guard = Top(t).guard /\ c.pc = place
  <2>1. PICK c \in PublishCall : c = [Top(t) EXCEPT !.pc = place]
    BY <1>2, <1>3, Zenon DEF PublishCall
  <2>2. c.guard = Top(t).guard /\ c.pc = place /\ c.d = Top(t).d
    BY <1>2, <1>3, <2>1 DEF PublishCall
  <2>3. calls' = [calls EXCEPT ![t] = [calls[t] EXCEPT ![Depth(t)] = c]]
    BY <1>3, <2>1 DEF To, Top
  <2>4. calls'[t] = [calls[t] EXCEPT ![Depth(t)] = c]
    BY <1>1, <2>3
  <2> QED BY <1>3, <2>2, <2>3, <2>4, Zenon DEF Edits
<1>4. ASSUME Depth(t) > 0, Return(t)
      PROVE  calls' = [calls EXCEPT ![t] = calls'[t]] /\ Pops(t)
  <2>1. calls' = [calls EXCEPT ![t] = SubSeq(calls[t], 1, Depth(t) - 1)]
    BY <1>4 DEF Return
  <2>2. calls'[t] = SubSeq(calls[t], 1, Depth(t) - 1)
    BY <1>1, <2>1
  <2>3. /\ calls'[t] \in Seq(PublishCall) /\ Len(calls'[t]) = Depth(t) - 1
        /\ \A i \in 1 .. Depth(t) - 1 : calls'[t][i] = calls[t][i]
    BY <1>1, <1>4, <2>2, PoppedStack DEF Depth
  <2>4. \A i \in 1 .. Depth(t) - 2 : i \in 1 .. Depth(t) - 1
    BY <1>1
  <2> QED BY <1>4, <2>1, <2>2, <2>3, <2>4, Zenon DEF Pops, Return
<1>5. ASSUME NEW d \in Disruptors, publish_event(t, d)
      PROVE  calls' = [calls EXCEPT ![t] = calls'[t]] /\ Pushes(t)
  <2>1. PICK blocking \in BOOLEAN : calls' = [calls EXCEPT ![t] =
              Append(@, [d |-> d, pc |-> "guard", blocking |-> blocking,
                         guard |-> FALSE, sequence |-> -1])]
    BY <1>5, Zenon DEF publish_event
  <2>2. PICK c \in PublishCall : c = [d |-> d, pc |-> "guard", blocking |-> blocking,
                                      guard |-> FALSE, sequence |-> -1]
    <3>1. -1 \in Int /\ FALSE \in BOOLEAN
      OBVIOUS
    <3>2. [d |-> d, pc |-> "guard", blocking |-> blocking, guard |-> FALSE,
           sequence |-> -1] \in PublishCall
      BY <3>1, Zenon DEF PublishCall
    <3> QED BY <3>2
  <2>3. c.pc = "guard" /\ c.guard = FALSE
    BY <2>2
  <2>4. calls' = [calls EXCEPT ![t] = Append(calls[t], c)] /\ calls'[t] = Append(calls[t], c)
    BY <1>1, <2>1, <2>2
  <2> QED BY <1>5, <2>3, <2>4, Zenon DEF Pushes, publish_event
<1>6. CASE claim_guard(t)
  <2>1. Depth(t) > 0
    BY <1>6 DEF claim_guard, In
  <2>2. CASE Return(t)
    BY <1>4, <2>1, <2>2
  <2>3. CASE To(t, "lock") /\ ~claim_held[t] /\ UNCHANGED <<claim_lock, claim_held>>
    <3>1. claim_held[t] = FALSE
      BY <2>3, Zenon DEF PublishTypeOK
    <3> QED BY <1>3, <2>1, <2>3, <3>1, Zenon DEF GoesOn
  <2>4. CASE To(t, "claim") /\ UNCHANGED <<claim_lock, claim_held>>
    <3>1. "claim" # "lock"
      OBVIOUS
    <3> QED BY <1>3, <2>1, <2>4, <3>1, Zenon DEF GoesOn
  <2> QED BY <1>6, <2>2, <2>3, <2>4, Zenon DEF claim_guard
<1>7. CASE Lock(t)
  <2>1. Depth(t) > 0 /\ In(t, "lock") /\ claim_lock[Top(t).d] = Nobody
    BY <1>7 DEF Lock, In
  <2>2. PICK c \in PublishCall : c = [[Top(t) EXCEPT !.pc = "claim"] EXCEPT !.guard = TRUE]
    BY <1>2, <2>1, Zenon DEF PublishCall
  <2>3. c.guard = TRUE /\ c.pc = "claim" /\ c.d = Top(t).d
    BY <1>2, <2>1, <2>2 DEF PublishCall
  <2>4. calls' = [calls EXCEPT ![t] = [calls[t] EXCEPT ![Depth(t)] = c]]
    BY <1>1, <1>2, <1>7, <2>1, <2>2, Zenon DEF Lock, Top
  <2>5. calls'[t] = [calls[t] EXCEPT ![Depth(t)] = c]
    BY <1>1, <2>4
  <2> QED BY <1>7, <2>1, <2>3, <2>4, <2>5, Zenon DEF Edits, Locks, Lock
<1>8. CASE ClaimSequence(t)
  <2>1. Depth(t) > 0
    BY <1>8 DEF ClaimSequence, In
  <2>2. CASE Return(t)
    BY <1>4, <2>1, <2>2
  <2>3. CASE ~Return(t)
    <3>1. PICK place \in {"store", "translate"} :
             /\ calls' = [calls EXCEPT ![t][Depth(t)].sequence = claimed[Top(t).d] + 1,
                                       ![t][Depth(t)].pc = place]
             /\ UNCHANGED <<claim_lock, claim_held>>
      BY <1>8, <2>3 DEF ClaimSequence
    <3>2. PICK c \in PublishCall :
             c = [[Top(t) EXCEPT !.sequence = claimed[Top(t).d] + 1] EXCEPT !.pc = place]
      <4>1. claimed[Top(t).d] + 1 \in Int
        BY <1>1, <1>2, <2>1 DEF PublishCall
      <4> QED BY <1>2, <2>1, <3>1, <4>1, Zenon DEF PublishCall
    <3>3. c.guard = Top(t).guard /\ c.pc = place /\ c.pc # "lock" /\ c.d = Top(t).d
      BY <1>2, <2>1, <3>1, <3>2 DEF PublishCall
    <3>4. calls' = [calls EXCEPT ![t] = [calls[t] EXCEPT ![Depth(t)] = c]]
      BY <1>1, <1>2, <2>1, <3>1, <3>2, Zenon DEF Top
    <3>5. calls'[t] = [calls[t] EXCEPT ![Depth(t)] = c]
      BY <1>1, <3>4
    <3> QED BY <2>1, <3>1, <3>3, <3>4, <3>5, Zenon DEF Edits, GoesOn
  <2> QED BY <2>2, <2>3
<1>9. CASE StoreNextValue(t) \/ (Translated(t) /\ ~Return(t))
  <2>1. /\ Depth(t) > 0 /\ UNCHANGED <<claim_lock, claim_held>>
        /\ To(t, "translate") \/ To(t, "unwind")
    BY <1>9, Zenon DEF StoreNextValue, Translated, In
  <2>2. "translate" # "lock" /\ "unwind" # "lock"
    OBVIOUS
  <2> QED BY <1>3, <2>1, <2>2, Zenon DEF GoesOn
<1>10. CASE Translated(t) /\ Return(t)
  <2>1. Depth(t) > 0
    BY <1>10 DEF Translated, In
  <2> QED BY <1>4, <1>10, <2>1
<1>11. CASE UnwindCall(t)
  <2>1. Depth(t) > 0
    BY <1>11 DEF UnwindCall, In
  <2>2. PICK rest \in Seq(PublishCall) :
           /\ rest = SubSeq(calls[t], 1, Depth(t) - 1) /\ Len(rest) = Depth(t) - 1
           /\ \A i \in 1 .. Depth(t) - 1 : rest[i] = calls[t][i]
    <3>1. /\ SubSeq(calls[t], 1, Depth(t) - 1) \in Seq(PublishCall)
          /\ Len(SubSeq(calls[t], 1, Depth(t) - 1)) = Depth(t) - 1
          /\ \A i \in 1 .. Depth(t) - 1 : SubSeq(calls[t], 1, Depth(t) - 1)[i] = calls[t][i]
      BY <1>1, <2>1, PoppedStack DEF Depth
    <3> QED BY <3>1, Zenon
  <2>3. calls' = [calls EXCEPT ![t] = IF rest = <<>> THEN rest
                                      ELSE [rest EXCEPT ![Len(rest)].pc = "unwind"]]
    BY <1>11, <2>2 DEF UnwindCall
  <2>4. calls'[t] = IF rest = <<>> THEN rest ELSE [rest EXCEPT ![Len(rest)].pc = "unwind"]
    BY <1>1, <2>3
  <2>5. calls' = [calls EXCEPT ![t] = calls'[t]]
    BY <2>3, <2>4, Zenon
  <2>6. CASE rest = <<>>
    <3>1. \A i \in 1 .. Depth(t) - 2 : i \in 1 .. Depth(t) - 1
      BY <1>1
    <3>2. calls'[t] = rest
      BY <2>4, <2>6
    <3>3. Pops(t)
      BY <1>11, <2>1, <2>2, <3>1, <3>2, Zenon DEF Pops, UnwindCall
    <3> QED BY <2>5, <3>3
  <2>7. CASE rest # <<>>
    <3>1. Len(rest) \in 1 .. Len(rest) /\ rest[Len(rest)] \in PublishCall
      BY <1>1, <2>2, <2>7
    <3>2. PICK c \in PublishCall : c = [rest[Len(rest)] EXCEPT !.pc = "unwind"]
      BY <3>1, Zenon DEF PublishCall
    <3>3. /\ c.d = rest[Len(rest)].d /\ c.guard = rest[Len(rest)].guard /\ c.pc = "unwind"
      BY <3>1, <3>2 DEF PublishCall
    <3>4. calls'[t] = [rest EXCEPT ![Len(rest)] = c]
      BY <2>4, <2>7, <3>2
    <3>5. /\ calls'[t] \in Seq(PublishCall) /\ Len(calls'[t]) = Len(rest)
          /\ \A i \in 1 .. Len(rest) : calls'[t][i] = IF i = Len(rest) THEN c ELSE rest[i]
      BY <3>1, <3>4, EditedStack
    <3>6. \A i \in 1 .. Depth(t) - 1 : /\ calls'[t][i].d = calls[t][i].d
                                       /\ calls'[t][i].guard = calls[t][i].guard
                                       /\ calls'[t][i].pc \in {calls[t][i].pc, "unwind"}
      BY <2>2, <3>3, <3>5
    <3>7. \A i \in 1 .. Depth(t) - 2 : calls'[t][i].pc = calls[t][i].pc
      <4>1. \A i \in 1 .. Depth(t) - 2 : i \in 1 .. Depth(t) - 1 /\ i \in 1 .. Len(rest) /\ i # Len(rest)
        BY <1>1, <2>2
      <4> QED BY <2>2, <3>5, <4>1, Zenon
    <3>8. Pops(t)
      BY <1>11, <2>1, <2>2, <3>5, <3>6, <3>7, Zenon DEF Pops, UnwindCall
    <3> QED BY <2>5, <3>8
  <2> QED BY <2>6, <2>7
<1> QED BY <1>5, <1>6, <1>7, <1>8, <1>9, <1>10, <1>11, Zenon DEF CarryOn

\* Another thread's calls, and the locks that are its own, are left alone.
LEMMA OthersKeepGuards ==
    ASSUME PublishInv, NEW t \in Threads, NEW u \in Threads, u # t,
           CarryOn(t) \/ \E d \in Disruptors : publish_event(t, d)
    PROVE  GuardInv(u)'
<1>1. /\ PublishTypeOK /\ GuardInv(u) /\ u # Nobody /\ t # Nobody
      /\ claim_lock \in [Disruptors -> Threads \cup {Nobody}]
      /\ claim_held \in [Threads -> BOOLEAN]
  BY PublishAssumption DEF PublishInv, PublishTypeOK
<1>2. calls' = [calls EXCEPT ![t] = calls'[t]] /\ (Pushes(t) \/ GoesOn(t) \/ Locks(t) \/ Pops(t))
  BY <1>1, ThreadsMoveAlone, Zenon
<1>3. calls'[u] = calls[u]
  BY <1>1, <1>2 DEF PublishTypeOK
<1>4. claim_held'[u] = claim_held[u]
  BY <1>1, <1>2 DEF Pushes, GoesOn, Locks, Pops
<1>5. \A d \in Disruptors : claim_lock'[d] = u <=> claim_lock[d] = u
  BY <1>1, <1>2 DEF Pushes, GoesOn, Locks, Pops
<1>6. ASSUME NEW i \in 1 .. Depth(u)
      PROVE  calls[u][i].d \in Disruptors
  <2>1. calls[u] \in Seq(PublishCall)
    BY <1>1 DEF PublishTypeOK
  <2>2. calls[u][i] \in PublishCall
    BY <2>1 DEF Depth
  <2> QED BY <2>2 DEF PublishCall
<1>7. Depth(u)' = Depth(u) /\ (In(u, "lock")' <=> In(u, "lock"))
  BY <1>3 DEF In, Top, Depth
<1>8. \A i \in 1 .. Depth(u) : claim_lock[calls[u][i].d] = u => claim_lock'[calls[u][i].d] = u
  BY <1>5, <1>6, Zenon
<1>9. \A d \in Disruptors : claim_lock'[d] = u =>
        \E i \in 1 .. Depth(u) : calls[u][i].guard = TRUE /\ calls[u][i].d = d
  BY <1>1, <1>5, Zenon DEF GuardInv
<1> QED BY <1>1, <1>3, <1>4, <1>7, <1>8, <1>9 DEF GuardInv

\* The types of the stacks and of the locks survive.
LEMMA PublishingKeepsTypes ==
    ASSUME PublishInv, NEW t \in Threads,
           CarryOn(t) \/ \E d \in Disruptors : publish_event(t, d)
    PROVE  PublishTypeOK'
<1>1. /\ PublishTypeOK
      /\ claim_lock \in [Disruptors -> Threads \cup {Nobody}]
      /\ claim_held \in [Threads -> BOOLEAN] /\ calls[t] \in Seq(PublishCall)
      /\ claimed \in [Disruptors -> Int]
  BY DEF PublishInv, PublishTypeOK
<1>2. calls' = [calls EXCEPT ![t] = calls'[t]] /\ (Pushes(t) \/ GoesOn(t) \/ Locks(t) \/ Pops(t))
  BY <1>1, ThreadsMoveAlone, Zenon
<1>3. Depth(t) > 0 => Depth(t) \in 1 .. Len(calls[t])
  BY <1>1 DEF Depth
<1>4. calls'[t] \in Seq(PublishCall)
  <2>1. CASE Pushes(t)
    BY <1>1, <2>1, PushedStack DEF Pushes
  <2>2. CASE GoesOn(t) \/ Locks(t)
    <3>1. PICK c \in PublishCall : Depth(t) > 0 /\ calls'[t] = [calls[t] EXCEPT ![Depth(t)] = c]
      BY <2>2, Zenon DEF GoesOn, Locks, Edits
    <3> QED BY <1>1, <1>3, <3>1, EditedStack
  <2> QED BY <1>2, <2>1, <2>2 DEF Pops
<1>5. calls' \in [Threads -> Seq(PublishCall)]
  BY <1>1, <1>2, <1>4, Zenon DEF PublishTypeOK
<1>6. claim_lock' \in [Disruptors -> Threads \cup {Nobody}]
  BY <1>1, <1>2, Zenon DEF Pushes, GoesOn, Locks, Pops
<1>7. claim_held' \in [Threads -> BOOLEAN]
  BY <1>1, <1>2, Zenon DEF Pushes, GoesOn, Locks, Pops
<1>8. claimed' \in [Disruptors -> Int]
  <2>1. CASE StoreNextValue(t)
    <3>1. Top(t) \in PublishCall
      BY <1>1, <1>3, <2>1 DEF StoreNextValue, In, Top, Depth
    <3>2. Top(t).sequence \in Int
      BY <3>1 DEF PublishCall
    <3> QED BY <1>1, <2>1, <3>2, Zenon DEF StoreNextValue
  <2>2. CASE ClaimSequence(t)
    BY <1>1, <2>2 DEF ClaimSequence
  <2>3. CASE UNCHANGED claimed
    BY <1>1, <2>3
  <2> QED BY <2>1, <2>2, <2>3, Zenon
          DEF CarryOn, publish_event, claim_guard, Lock, Translated, UnwindCall
<1> QED BY <1>5, <1>6, <1>7, <1>8 DEF PublishTypeOK

\* The guards of a thread's own stack: a nested call finds the flag up and
\* never comes to the lock, so a second guard is never taken.
LEMMA ThreadKeepsGuards ==
    ASSUME PublishInv, NEW t \in Threads,
           CarryOn(t) \/ \E d \in Disruptors : publish_event(t, d)
    PROVE  GuardInv(t)'
<1> DEFINE n == Depth(t)
           st == calls[t]
<1>1. /\ PublishTypeOK /\ GuardInv(t) /\ t # Nobody
      /\ claim_lock \in [Disruptors -> Threads \cup {Nobody}]
      /\ claim_held \in [Threads -> BOOLEAN] /\ st \in Seq(PublishCall)
      /\ n \in Nat /\ n = Len(st)
  BY PublishAssumption DEF PublishInv, PublishTypeOK, Depth
<1>2. Pushes(t) \/ GoesOn(t) \/ Locks(t) \/ Pops(t)
  BY <1>1, ThreadsMoveAlone, Zenon
<1>3. \A i \in 1 .. n : st[i].d \in Disruptors /\ st[i].guard \in BOOLEAN
  <2> SUFFICES ASSUME NEW i \in 1 .. n PROVE st[i].d \in Disruptors /\ st[i].guard \in BOOLEAN
    OBVIOUS
  <2>1. st[i] \in PublishCall
    BY <1>1
  <2> QED BY <2>1 DEF PublishCall
<1>4. CASE Pushes(t)
  <2>1. PICK c \in PublishCall : c.pc = "guard" /\ c.guard = FALSE /\ calls'[t] = Append(st, c)
    BY <1>4 DEF Pushes
  <2>2. /\ Len(calls'[t]) = n + 1 /\ (\A i \in 1 .. n : calls'[t][i] = st[i])
        /\ calls'[t][n + 1] = c
    BY <1>1, <2>1, PushedStack
  <2>3. claim_lock' = claim_lock /\ claim_held' = claim_held
    BY <1>4 DEF Pushes
  <2>4. \A i \in 1 .. n : st[i].pc = "translate"
    BY <1>1, <1>4 DEF Pushes, GuardInv, In, Top
  <2>5. \A i \in 1 .. n + 1 : calls'[t][i].guard = TRUE => i \in 1 .. n
    BY <1>1, <2>1, <2>2
  <2>6. ~In(t, "lock")'
    BY <1>1, <2>1, <2>2 DEF In, Top, Depth
  <2>7. /\ Depth(t)' = n + 1 /\ Depth(t)' - 1 = n
        /\ \A i \in 1 .. n : i \in 1 .. n + 1
    BY <1>1, <2>2 DEF Depth
  <2>8. \A i \in 1 .. n + 1 : calls'[t][i].guard = TRUE =>
           claim_held'[t] = TRUE /\ claim_lock'[calls'[t][i].d] = t
    BY <1>1, <2>2, <2>3, <2>5, Zenon DEF GuardInv
  <2>9. \A i, j \in 1 .. n + 1 : calls'[t][i].guard = TRUE /\ calls'[t][j].guard = TRUE => i = j
    BY <1>1, <2>2, <2>5, Zenon DEF GuardInv
  <2>10. \A d \in Disruptors : claim_lock'[d] = t =>
            \E i \in 1 .. n + 1 : calls'[t][i].guard = TRUE /\ calls'[t][i].d = d
    <3> SUFFICES ASSUME NEW d \in Disruptors, claim_lock'[d] = t
                 PROVE  \E i \in 1 .. n + 1 : calls'[t][i].guard = TRUE /\ calls'[t][i].d = d
      BY Zenon
    <3>1. PICK i \in 1 .. n : st[i].guard = TRUE /\ st[i].d = d
      BY <1>1, <2>3, Zenon DEF GuardInv
    <3> QED BY <2>2, <2>7, <3>1, Zenon
  <2>11. \A i \in 1 .. n : calls'[t][i].pc = "translate"
    BY <2>2, <2>4, Zenon
  <2> QED BY <2>6, <2>7, <2>8, <2>9, <2>10, <2>11 DEF GuardInv
<1>5. ASSUME NEW c \in PublishCall, Edits(t, c)
      PROVE  /\ n \in 1 .. n /\ Depth(t)' = n /\ calls'[t][n] = c /\ c.d = st[n].d
             /\ \A i \in 1 .. n : i # n => calls'[t][i] = st[i]
             /\ \A i \in 1 .. n : calls'[t][i].d = st[i].d
             /\ \A i \in 1 .. n - 1 : i \in 1 .. n /\ calls'[t][i].pc = "translate"
             /\ In(t, "lock")' <=> c.pc = "lock"
  <2>1. /\ n \in 1 .. n /\ calls'[t] = [st EXCEPT ![n] = c] /\ c.d = st[n].d
    BY <1>1, <1>5 DEF Edits, Top
  <2>2. /\ Len(calls'[t]) = n
        /\ \A i \in 1 .. n : calls'[t][i] = IF i = n THEN c ELSE st[i]
    BY <1>1, <1>5, <2>1, EditedStack
  <2>3. \A i \in 1 .. n - 1 : i \in 1 .. n /\ i # n
    BY <1>1
  <2>4. \A i \in 1 .. n - 1 : calls'[t][i].pc = "translate"
    BY <1>1, <2>2, <2>3, Zenon DEF GuardInv
  <2>5. In(t, "lock")' <=> c.pc = "lock"
    BY <1>1, <2>1, <2>2 DEF In, Top, Depth
  <2> QED BY <2>1, <2>2, <2>3, <2>4, <2>5, Zenon DEF Depth
<1>6. CASE GoesOn(t)
  <2>1. PICK c \in PublishCall : /\ Edits(t, c) /\ c.guard = st[n].guard
                                 /\ c.pc = "lock" => claim_held[t] = FALSE
    BY <1>6 DEF GoesOn, Top
  <2>2. claim_lock' = claim_lock /\ claim_held' = claim_held
    BY <1>6 DEF GoesOn
  <2>3. \A i \in 1 .. n : calls'[t][i].guard = st[i].guard
    <3>1. calls'[t][n] = c /\ \A i \in 1 .. n : i # n => calls'[t][i] = st[i]
      BY <1>5, <2>1, Zenon
    <3> QED BY <2>1, <3>1
  <2>4. \A i \in 1 .. n : calls'[t][i].guard = TRUE =>
           claim_held'[t] = TRUE /\ claim_lock'[calls'[t][i].d] = t
    <3>1. \A i \in 1 .. n : calls'[t][i].d = st[i].d
      BY <1>5, <2>1, Zenon
    <3>2. \A i \in 1 .. n : st[i].guard = TRUE => claim_held[t] = TRUE /\ claim_lock[st[i].d] = t
      BY <1>1, Zenon DEF GuardInv
    <3> QED BY <2>2, <2>3, <3>1, <3>2
  <2>5. \A i, j \in 1 .. n : calls'[t][i].guard = TRUE /\ calls'[t][j].guard = TRUE => i = j
    BY <1>1, <2>3, Zenon DEF GuardInv
  <2>6. \A d \in Disruptors : claim_lock'[d] = t =>
           \E i \in 1 .. n : calls'[t][i].guard = TRUE /\ calls'[t][i].d = d
    <3> SUFFICES ASSUME NEW d \in Disruptors, claim_lock'[d] = t
                 PROVE  \E i \in 1 .. n : calls'[t][i].guard = TRUE /\ calls'[t][i].d = d
      BY Zenon
    <3>1. PICK i \in 1 .. n : st[i].guard = TRUE /\ st[i].d = d
      BY <1>1, <2>2, Zenon DEF GuardInv
    <3>2. calls'[t][i].guard = TRUE /\ calls'[t][i].d = d
      BY <1>5, <2>1, <2>3, <3>1
    <3> QED BY <3>2
  <2>7. In(t, "lock")' => claim_held'[t] = FALSE
    BY <1>5, <2>1, <2>2, Zenon
  <2> QED BY <1>5, <2>1, <2>4, <2>5, <2>6, <2>7 DEF GuardInv
<1>7. CASE Locks(t)
  <2>1. PICK c \in PublishCall : Edits(t, c) /\ c.guard = TRUE /\ c.pc = "claim"
    BY <1>7 DEF Locks
  <2>2. /\ claim_held[t] = FALSE /\ claim_held'[t] = TRUE
        /\ claim_lock[st[n].d] = Nobody /\ claim_lock'[st[n].d] = t
        /\ \A d \in Disruptors : d # st[n].d => claim_lock'[d] = claim_lock[d]
    BY <1>1, <1>3, <1>5, <1>7, <2>1, Zenon DEF Locks, GuardInv, Top
  <2>3. \A i \in 1 .. n : st[i].guard # TRUE
    BY <1>1, <2>2, Zenon DEF GuardInv
  <2>4. \A i \in 1 .. n : calls'[t][i].guard = TRUE <=> i = n
    BY <1>5, <2>1, <2>3, Zenon
  <2>5. \A d \in Disruptors : claim_lock[d] # t
    BY <1>1, <2>3, Zenon DEF GuardInv
  <2>6. c.pc # "lock"
    BY <2>1
  <2>7. \A i \in 1 .. n : calls'[t][i].guard = TRUE =>
           claim_held'[t] = TRUE /\ claim_lock'[calls'[t][i].d] = t
    <3>1. calls'[t][n].d = st[n].d
      BY <1>5, <2>1, Zenon
    <3> QED BY <2>2, <2>4, <3>1
  <2>8. \A i, j \in 1 .. n : calls'[t][i].guard = TRUE /\ calls'[t][j].guard = TRUE => i = j
    BY <2>4, Zenon
  <2>9. \A d \in Disruptors : claim_lock'[d] = t =>
           \E i \in 1 .. n : calls'[t][i].guard = TRUE /\ calls'[t][i].d = d
    <3> SUFFICES ASSUME NEW d \in Disruptors, claim_lock'[d] = t
                 PROVE  calls'[t][n].guard = TRUE /\ calls'[t][n].d = d /\ n \in 1 .. n
      BY Zenon
    <3>1. d = st[n].d
      BY <2>2, <2>5
    <3>2. n \in 1 .. n /\ calls'[t][n].d = st[n].d
      BY <1>5, <2>1, Zenon
    <3> QED BY <2>4, <3>1, <3>2
  <2> QED BY <1>5, <2>1, <2>6, <2>7, <2>8, <2>9 DEF GuardInv
<1>8. CASE Pops(t)
  <2>1. /\ n \in 1 .. n /\ Depth(t)' = n - 1
        /\ \A i \in 1 .. n - 1 : i \in 1 .. n /\ i # n
        /\ \A i \in 1 .. n : i # n => i \in 1 .. n - 1
    BY <1>1, <1>8 DEF Pops, Depth
  <2>2. \A i \in 1 .. n - 1 : calls'[t][i].d = st[i].d /\ calls'[t][i].guard = st[i].guard
    BY <1>8 DEF Pops
  <2>3. \A i \in 1 .. (n - 1) - 1 : calls'[t][i].pc = "translate"
    <3>1. \A i \in 1 .. (n - 1) - 1 : i \in 1 .. n - 2 /\ i \in 1 .. n - 1
      BY <1>1
    <3> QED BY <1>1, <1>8, <3>1, Zenon DEF Pops, GuardInv
  <2>4. ~In(t, "lock")'
    <3>1. CASE n - 1 > 0
      <4>1. n - 1 \in 1 .. n - 1
        BY <1>1, <3>1
      <4>2. calls'[t][n - 1].pc \in {"translate", "unwind"}
        BY <1>1, <1>8, <4>1, Zenon DEF Pops, GuardInv
      <4> QED BY <2>1, <4>2 DEF In, Top
    <3>2. CASE ~(n - 1 > 0)
      BY <2>1, <3>2, Zenon DEF In
    <3> QED BY <3>1, <3>2
  <2>5. CASE st[n].guard = TRUE
    <3>1. \A i \in 1 .. n - 1 : calls'[t][i].guard # TRUE
      BY <1>1, <2>1, <2>2, <2>5, Zenon DEF GuardInv
    <3>2. \A d \in Disruptors : claim_lock[d] = t => d = st[n].d
      BY <1>1, <2>1, <2>5, Zenon DEF GuardInv
    <3>3. \A d \in Disruptors : claim_lock'[d] # t
      <4>1. claim_lock' = [claim_lock EXCEPT ![st[n].d] = IF @ = t /\ st[n].guard
                                                         THEN Nobody ELSE @]
        BY <1>8, Zenon DEF Pops, Top
      <4> QED BY <1>1, <2>5, <3>2, <4>1
    <3> QED BY <2>1, <2>3, <2>4, <3>1, <3>3, Zenon DEF GuardInv
  <2>6. CASE st[n].guard # TRUE
    <3>1. st[n].guard = FALSE
      BY <1>3, <2>1, <2>6, Zenon
    <3>2. claim_lock' = claim_lock /\ claim_held'[t] = claim_held[t]
      BY <1>1, <1>3, <1>8, <2>1, <3>1, Zenon DEF Pops, Top
    <3>3. \A i \in 1 .. n : st[i].guard = TRUE => i \in 1 .. n - 1
      BY <2>1, <2>6, Zenon
    <3>4. \A i \in 1 .. n - 1 : calls'[t][i].guard = TRUE =>
             claim_held'[t] = TRUE /\ claim_lock'[calls'[t][i].d] = t
      <4>1. \A i \in 1 .. n - 1 : st[i].guard = TRUE => claim_held[t] = TRUE /\ claim_lock[st[i].d] = t
        BY <1>1, <2>1, Zenon DEF GuardInv
      <4> QED BY <2>2, <3>2, <4>1
    <3>5. \A i, j \in 1 .. n - 1 : calls'[t][i].guard = TRUE /\ calls'[t][j].guard = TRUE => i = j
      BY <1>1, <2>1, <2>2, Zenon DEF GuardInv
    <3>6. \A d \in Disruptors : claim_lock'[d] = t =>
             \E i \in 1 .. n - 1 : calls'[t][i].guard = TRUE /\ calls'[t][i].d = d
      <4> SUFFICES ASSUME NEW d \in Disruptors, claim_lock'[d] = t
                   PROVE  \E i \in 1 .. n - 1 : calls'[t][i].guard = TRUE /\ calls'[t][i].d = d
        BY Zenon
      <4>1. PICK i \in 1 .. n : st[i].guard = TRUE /\ st[i].d = d
        BY <1>1, <3>2, Zenon DEF GuardInv
      <4>2. i \in 1 .. n - 1
        BY <3>3, <4>1
      <4>3. calls'[t][i].guard = TRUE /\ calls'[t][i].d = d
        BY <2>2, <4>1, <4>2
      <4> QED BY <4>2, <4>3
    <3> QED BY <2>1, <2>3, <2>4, <3>4, <3>5, <3>6 DEF GuardInv
  <2> QED BY <2>5, <2>6, Zenon
<1> QED BY <1>2, <1>4, <1>6, <1>7, <1>8

\* The invariant of the publish calls holds always, for any number of threads
\* and Disruptors and any depth of nesting.
THEOREM PublishInvariance == PublishSpec => []PublishInv
<1>1. PublishInit => PublishInv
  <2> SUFFICES ASSUME PublishInit PROVE PublishInv
    OBVIOUS
  <2>1. PublishTypeOK
    BY DEF PublishInit, PublishTypeOK
  <2>2. ASSUME NEW t \in Threads
        PROVE  GuardInv(t)
    <3>1. Depth(t) = 0 /\ claim_held[t] = FALSE
      BY DEF PublishInit, Depth
    <3>2. \A d \in Disruptors : claim_lock[d] # t
      BY PublishAssumption, Zenon DEF PublishInit
    <3> QED BY <3>1, <3>2 DEF GuardInv, In
  <2> QED BY <2>1, <2>2 DEF PublishInv
<1>2. PublishInv /\ [PublishNext]_publishVars => PublishInv'
  <2> SUFFICES ASSUME PublishInv, [PublishNext]_publishVars PROVE PublishInv'
    OBVIOUS
  <2>1. ASSUME NEW t \in Threads, CarryOn(t) \/ \E d \in Disruptors : publish_event(t, d)
        PROVE  PublishInv'
    <3>1. \A u \in Threads : GuardInv(u)'
      BY <2>1, OthersKeepGuards, ThreadKeepsGuards, Zenon
    <3> QED BY <2>1, <3>1, PublishingKeepsTypes, Zenon DEF PublishInv
  <2>2. CASE UNCHANGED <<claim_lock, claim_held, calls, claimed>>
    <3>1. PublishTypeOK'
      BY <2>2, Zenon DEF PublishInv, PublishTypeOK
    <3>2. ASSUME NEW t \in Threads
          PROVE  GuardInv(t)'
      <4>1. Depth(t)' = Depth(t) /\ (In(t, "lock")' <=> In(t, "lock"))
        BY <2>2 DEF In, Top, Depth
      <4>2. GuardInv(t)
        BY DEF PublishInv
      <4> QED BY <2>2, <4>1, <4>2 DEF GuardInv
    <3> QED BY <3>1, <3>2 DEF PublishInv
  <2> QED BY <2>1, <2>2, Zenon DEF PublishNext, Consume, ProcessorFails, publishVars
<1> QED BY <1>1, <1>2, PTL DEF PublishSpec

\* claim_guard fails a nested publish before it comes to the lock, so translators
\* that publish into each other's Disruptors cannot deadlock on the claim locks,
\* for any number of threads and Disruptors.
THEOREM HoldersNeverWait == PublishSpec => []LockHoldersDoNotWait
<1>1. PublishInv => LockHoldersDoNotWait
  <2> SUFFICES ASSUME PublishInv, NEW t \in Threads, In(t, "lock"),
                      claim_lock[Top(t).d] # Nobody, In(claim_lock[Top(t).d], "lock")
               PROVE  FALSE
    BY DEF LockHoldersDoNotWait
  <2>1. Top(t).d \in Disruptors
    <3>1. calls[t] \in Seq(PublishCall)
      BY DEF PublishInv, PublishTypeOK
    <3>2. Depth(t) \in 1 .. Len(calls[t])
      BY <3>1 DEF In, Depth
    <3>3. Top(t) \in PublishCall
      BY <3>1, <3>2 DEF Top
    <3> QED BY <3>3 DEF PublishCall
  <2>2. PICK u \in Threads : u = claim_lock[Top(t).d]
    BY <2>1 DEF PublishInv, PublishTypeOK
  <2>3. claim_held[u] = TRUE
    <3>1. GuardInv(u)
      BY DEF PublishInv
    <3>2. \E i \in 1 .. Depth(u) : calls[u][i].guard = TRUE
      BY <2>1, <2>2, <3>1, Zenon DEF GuardInv
    <3> QED BY <3>1, <3>2, Zenon DEF GuardInv
  <2>4. claim_held[u] = FALSE
    BY <2>2, Zenon DEF PublishInv, GuardInv
  <2> QED BY <2>3, <2>4
<1> QED BY <1>1, PublishInvariance, PTL

-----------------------------------------------------------------------------
(* The life cycle.                                                         *)

\* There are processors, and the first one waits for nobody.
LEMMA ProcessorsAreNumbered ==
    /\ N \in Nat \ {0} /\ Processors = 1 .. N /\ 1 \in Processors
    /\ Size \in Nat \ {0} /\ Built[1] # "then"
BY DslAssumption DEF N, Processors

\* Whatever a processor waits for is published, and everybody it follows is
\* done with it.
LEMMA UpstreamIsDone ==
    ASSUME TypeOK, \A p \in Processors : Progress(p), NEW p \in Processors
    PROVE  /\ Upstream(p) \in Int /\ Upstream(p) <= cursor
           /\ \A q \in Processors : Follows(q, p) => Upstream(p) <= sequence[q]
<1> USE ProcessorsAreNumbered
<1>1. \A r \in Processors : sequence[r] \in Int /\ sequence[r] <= cursor /\ cursor \in Int
  BY DEF TypeOK, Progress
<1>2. CASE Built[p] = "then"
  <2>1. p - 1 \in Processors /\ Upstream(p) = sequence[p - 1]
    BY <1>2 DEF Upstream, then
  <2>2. ASSUME NEW q \in Processors, Follows(q, p) PROVE sequence[p - 1] <= sequence[q]
    <3>1. CASE q = p - 1
      BY <1>1, <2>1, <3>1
    <3>2. CASE q # p - 1
      <4>1. Follows(q, p - 1)
        BY <2>2, <3>2 DEF Follows
      <4> QED BY <2>1, <4>1 DEF Progress
    <3> QED BY <3>1, <3>2
  <2> QED BY <1>1, <2>1, <2>2
<1>3. CASE Built[p] # "then"
  <2>1. Upstream(p) = cursor
    BY <1>3 DEF Upstream, handle_events_with
  <2>2. \A q \in Processors : ~Follows(q, p)
    BY <1>3 DEF Follows
  <2> QED BY <1>1, <2>1, <2>2
<1> QED BY <1>2, <1>3

\* A step outside a batch.
QuietThread(p) ==
    /\ thread'[p] # "batch" /\ sequence'[p] = sequence[p]

\* The barrier's answer is the end of a new batch.
BeginsBatch(p) ==
    /\ Upstream(p) > sequence[p] /\ available'[p] = Upstream(p)
    /\ sequence'[p] = sequence[p]

\* The batch is handled, or its handler fails inside it.
EndsBatch(p) ==
    /\ thread[p] = "batch" /\ thread'[p] # "batch"
    /\ sequence'[p] \in sequence[p] .. available[p]

\* The steps of p's thread leave everybody else alone, and either move it
\* between places outside a batch, or begin or end one.
LEMMA ThreadFrame ==
    ASSUME TypeOK, NEW p \in Processors, Progress(p), ThreadStep(p)
    PROVE  /\ UNCHANGED <<ownerVars, cursor, closed>>
           /\ thread[p] # "none" /\ thread'[p] # "none" /\ thread' \in [Processors -> Places]
           /\ sequence' \in [Processors -> Int] /\ available' \in [Processors -> Int]
           /\ \A q \in Processors \ {p} :
                 /\ thread'[q] = thread[q] /\ sequence'[q] = sequence[q]
                 /\ available'[q] = available[q]
           /\ QuietThread(p) \/ BeginsBatch(p) \/ EndsBatch(p)
<1> USE ProcessorsAreNumbered
<1>0. /\ thread \in [Processors -> Places] /\ sequence \in [Processors -> Int]
      /\ available \in [Processors -> Int] /\ cursor \in Int
  BY DEF TypeOK
<1>1. UNCHANGED <<ownerVars, cursor>>
  BY Zenon DEF ThreadStep
<1>2. ASSUME \/ ClaimRun(p) \/ ResetStartup(p) \/ ClearAlert(p) \/ OnStart(p)
             \/ CompleteStartup(p) \/ PollRunning(p) \/ OnShutdown(p) \/ PoisonOnPanic(p)
             \/ LeaveRun(p)
      PROVE  /\ UNCHANGED <<closed, sequence, available>> /\ thread[p] # "none"
             /\ \E place \in Places \ {"batch", "none"} : thread' = [thread EXCEPT ![p] = place]
  <2> USE DEF GoTo, Places, Finished, flagVars, poison_with_failure, Unwind
  <2>1. CASE ClaimRun(p)
    BY <2>1, Zenon DEF ClaimRun
  <2>2. CASE ResetStartup(p) \/ ClearAlert(p)
    BY <2>2, Zenon DEF ResetStartup, ClearAlert
  <2>3. CASE OnStart(p) \/ PollRunning(p)
    BY <2>3 DEF OnStart, PollRunning
  <2>4. CASE CompleteStartup(p) \/ LeaveRun(p)
    BY <2>4, Zenon DEF CompleteStartup, LeaveRun
  <2>5. CASE OnShutdown(p) \/ PoisonOnPanic(p)
    BY <2>5 DEF OnShutdown, PoisonOnPanic
  <2> QED BY <1>2, <2>1, <2>2, <2>3, <2>4, <2>5
<1>3. ASSUME UNCHANGED <<closed, sequence, available>>, thread[p] # "none",
             \E place \in Places \ {"batch", "none"} : thread' = [thread EXCEPT ![p] = place]
      PROVE  /\ UNCHANGED closed
             /\ thread[p] # "none" /\ thread'[p] # "none" /\ thread' \in [Processors -> Places]
             /\ sequence' \in [Processors -> Int] /\ available' \in [Processors -> Int]
             /\ \A q \in Processors \ {p} :
                   /\ thread'[q] = thread[q] /\ sequence'[q] = sequence[q]
                   /\ available'[q] = available[q]
             /\ QuietThread(p)
  BY <1>0, <1>3 DEF QuietThread
<1>4. CASE WaitFor(p)
  <2>1. CASE alerted[p]
    <3>1. /\ UNCHANGED <<closed, sequence, available>> /\ thread[p] = "wait"
          /\ thread' = [thread EXCEPT ![p] = "on_shutdown"]
      BY <1>4, <2>1, Zenon DEF WaitFor, GoTo, flagVars
    <3>2. "on_shutdown" \in Places \ {"batch", "none"} /\ thread[p] # "none"
      BY <3>1 DEF Places
    <3> QED BY <1>1, <1>3, <3>1, <3>2, Zenon
  <2>2. CASE ~alerted[p]
    <3>1. /\ UNCHANGED <<closed, sequence>> /\ thread[p] = "wait" /\ Upstream(p) > sequence[p]
          /\ available' = [available EXCEPT ![p] = Upstream(p)]
          /\ thread' = [thread EXCEPT ![p] = "batch"]
      BY <1>4, <2>2, Zenon DEF WaitFor, GoTo, SetFlag, flagVars
    <3>2. Upstream(p) \in Int
      <4>1. Built[p] = "then" => p - 1 \in Processors
        OBVIOUS
      <4> QED BY <1>0, <4>1 DEF Upstream, then, handle_events_with
    <3> HIDE DEF Upstream
    <3>3. "batch" \in Places
      BY DEF Places
    <3> QED BY <1>0, <1>1, <3>1, <3>2, <3>3 DEF BeginsBatch
  <2> QED BY <2>1, <2>2
<1>5. CASE RunBatch(p)
  <2>1. thread[p] = "batch" /\ available' = [available EXCEPT ![p] = -1]
    BY <1>5 DEF RunBatch, SetFlag
  <2>2. /\ UNCHANGED closed
        /\ \E place \in {"loop", "on_shutdown", "unwind"} : thread' = [thread EXCEPT ![p] = place]
    BY <1>5, Zenon DEF RunBatch, GoTo, Unwind, flagVars, poison_with_failure
  <2>3. \/ UNCHANGED sequence
        \/ \E s \in sequence[p] .. available[p] : sequence' = [sequence EXCEPT ![p] = s]
    <3>1. sequence[p] < available[p] /\ sequence[p] \in Int /\ available[p] \in Int
      BY <1>0, <2>1 DEF Progress
    <3>2. available[p] \in sequence[p] .. available[p]
      BY <3>1
    <3>3. \A k \in sequence[p] + 1 .. available[p] : k - 1 \in sequence[p] .. available[p]
      BY <3>1
    <3> QED BY <1>5, <3>2, <3>3, Zenon DEF RunBatch, SetFlag
  <2>4. \A s \in sequence[p] .. available[p] : s \in Int
    BY <1>0
  <2>5. sequence[p] \in sequence[p] .. available[p]
    BY <1>0, <2>1 DEF Progress
  <2>6. /\ sequence' \in [Processors -> Int] /\ sequence'[p] \in sequence[p] .. available[p]
        /\ \A q \in Processors \ {p} : sequence'[q] = sequence[q]
    BY <1>0, <2>3, <2>4, <2>5
  <2>7. /\ thread' \in [Processors -> Places] /\ thread'[p] \notin {"batch", "none"}
        /\ \A q \in Processors \ {p} : thread'[q] = thread[q]
    BY <1>0, <2>2 DEF Places
  <2>8. /\ available' \in [Processors -> Int]
        /\ \A q \in Processors \ {p} : available'[q] = available[q]
    BY <1>0, <2>1
  <2> QED BY <1>1, <2>1, <2>2, <2>6, <2>7, <2>8 DEF EndsBatch
<1> QED BY <1>1, <1>2, <1>3, <1>4, <1>5 DEF ThreadStep

\* A thread's step keeps everybody's progress: nobody is ahead of those it
\* follows, and sequences only grow.
LEMMA ThreadKeepsProgress ==
    ASSUME TypeOK, \A p \in Processors : Progress(p), NEW p \in Processors, ThreadStep(p)
    PROVE  /\ \A q \in Processors : Progress(q)' /\ sequence'[q] >= sequence[q]
<1> USE ProcessorsAreNumbered
<1>1. /\ UNCHANGED <<ownerVars, cursor, closed>>
      /\ \A q \in Processors \ {p} :
            /\ thread'[q] = thread[q] /\ sequence'[q] = sequence[q] /\ available'[q] = available[q]
      /\ QuietThread(p) \/ BeginsBatch(p) \/ EndsBatch(p)
      /\ \A q \in Processors : sequence'[q] \in Int /\ available'[q] \in Int
  BY ThreadFrame
<1>2. /\ cursor \in Int /\ Upstream(p) \in Int /\ Upstream(p) <= cursor
      /\ \A q \in Processors : Follows(q, p) => Upstream(p) <= sequence[q]
      /\ \A q \in Processors : sequence[q] \in Int /\ available[q] \in Int
  BY UpstreamIsDone DEF TypeOK
<1>3. /\ sequence[p] <= sequence'[p] /\ sequence'[p] <= cursor
      /\ \A q \in Processors : Follows(q, p) => sequence'[p] <= sequence[q]
      /\ thread'[p] = "batch" =>
            /\ sequence'[p] < available'[p] /\ available'[p] <= cursor
            /\ \A q \in Processors : Follows(q, p) => available'[p] <= sequence[q]
  <2>1. CASE QuietThread(p)
    BY <1>2, <2>1 DEF QuietThread, Progress
  <2>2. CASE BeginsBatch(p)
    <3>1. sequence[p] <= cursor /\ \A q \in Processors : Follows(q, p) => sequence[p] <= sequence[q]
      BY DEF Progress
    <3> QED BY <1>2, <2>2, <3>1 DEF BeginsBatch
  <2>3. CASE EndsBatch(p)
    <3>1. /\ available[p] <= cursor
          /\ \A q \in Processors : Follows(q, p) => available[p] <= sequence[q]
      BY <2>3, Zenon DEF Progress, EndsBatch
    <3> QED BY <1>1, <1>2, <2>3, <3>1 DEF EndsBatch
  <2> QED BY <1>1, <2>1, <2>2, <2>3
<1>4. \A q \in Processors : ~Follows(q, q)
  BY DEF Follows
<1>5. ASSUME NEW q \in Processors PROVE sequence'[q] >= sequence[q]
  BY <1>1, <1>2, <1>3
<1>6. Progress(p)'
  <2>1. \A q \in Processors : Follows(q, p) => sequence'[q] = sequence[q]
    BY <1>1, <1>4
  <2>2. -1 <= sequence[p] /\ cursor - Size <= sequence[p]
    BY DEF Progress
  <2>3. -1 <= sequence'[p] /\ cursor - Size <= sequence'[p]
    BY <1>1, <1>2, <1>3, <2>2
  <2> QED BY <1>1, <1>3, <2>1, <2>3 DEF Progress, Follows
<1>7. ASSUME NEW q \in Processors, q # p PROVE Progress(q)'
  <2>1. ASSUME NEW r \in Processors, Follows(r, q)
        PROVE  sequence[q] <= sequence'[r] /\ (thread[q] = "batch" => available[q] <= sequence'[r])
    <3>1. sequence[q] <= sequence[r] /\ (thread[q] = "batch" => available[q] <= sequence[r])
      BY <2>1, Zenon DEF Progress
    <3>2. sequence[r] <= sequence'[r]
      BY <1>5
    <3>3. /\ sequence[q] \in Int /\ available[q] \in Int /\ sequence[r] \in Int
          /\ sequence'[r] \in Int
      BY <1>1, <1>2, Zenon
    <3> QED BY <3>1, <3>2, <3>3
  <2>2. /\ -1 <= sequence[q] /\ cursor - Size <= sequence[q] /\ sequence[q] <= cursor
        /\ thread[q] = "batch" => sequence[q] < available[q] /\ available[q] <= cursor
    BY Zenon DEF Progress
  <2>3. /\ thread'[q] = thread[q] /\ sequence'[q] = sequence[q] /\ available'[q] = available[q]
        /\ cursor' = cursor
    BY <1>1, <1>7
  <2> QED BY <2>1, <2>2, <2>3 DEF Progress, Follows
<1> QED BY <1>5, <1>6, <1>7

\* A thread's step keeps the invariant.
LEMMA ThreadKeepsDslInv ==
    ASSUME DslInv, NEW p \in Processors, ThreadStep(p)
    PROVE  DslInv'
<1>1. /\ TypeOK /\ StoppedThreadsAreJoined /\ SpawnedInv /\ ShutdownInv
      /\ \A q \in Processors : Progress(q)
  BY Zenon DEF DslInv
<1>2. /\ UNCHANGED <<ownerVars, cursor, closed>>
      /\ \A q \in Processors : thread'[q] # "none" <=> thread[q] # "none"
      /\ thread' \in [Processors -> Places]
      /\ sequence' \in [Processors -> Int] /\ available' \in [Processors -> Int]
  BY <1>1, ThreadFrame, Zenon
<1>3. \A q \in Processors : Progress(q)' /\ sequence'[q] >= sequence[q]
  BY <1>1, ThreadKeepsProgress, Zenon
<1>4. TypeOK'
  BY <1>1, <1>2, Zenon DEF TypeOK, ownerVars
<1>5. StoppedThreadsAreJoined' /\ SpawnedInv'
  BY <1>1, <1>2, Zenon DEF StoppedThreadsAreJoined, SpawnedInv, ownerVars
<1>6. ShutdownInv'
  <2>1. drain_target \in Int /\ \A q \in Processors : sequence[q] \in Int /\ sequence'[q] \in Int
    BY <1>1, <1>2 DEF TypeOK
  <2>2. \A q \in Processors : sequence[q] >= drain_target => sequence'[q] >= drain_target
    BY <1>3, <2>1
  <2> QED BY <1>1, <1>2, <2>2, Zenon DEF ShutdownInv, ownerVars
<1> QED BY <1>3, <1>4, <1>5, <1>6, Zenon DEF DslInv

\* The owner and the publishers hold no batch: what they do to the threads is
\* to spawn and to join them, and a publication is gated by every processor.
LEMMA OthersKeepProgress ==
    ASSUME TypeOK, \A p \in Processors : Progress(p), UNCHANGED <<sequence, available>>,
           \A p \in Processors : thread'[p] \in {thread[p], "spawned", "none"},
           \/ cursor' = cursor
           \/ cursor' = cursor + 1 /\ \A p \in Processors : cursor + 1 - Size <= sequence[p]
    PROVE  \A p \in Processors : Progress(p)'
<1> USE ProcessorsAreNumbered
<1> SUFFICES ASSUME NEW p \in Processors PROVE Progress(p)'
  OBVIOUS
<1>1. /\ -1 <= sequence[p] /\ cursor - Size <= sequence[p] /\ sequence[p] <= cursor
      /\ thread[p] = "batch" => sequence[p] < available[p] /\ available[p] <= cursor
      /\ \A q \in Processors : Follows(q, p) =>
            /\ sequence[p] <= sequence[q]
            /\ thread[p] = "batch" => available[p] <= sequence[q]
  BY Zenon DEF Progress
<1>2. thread'[p] = "batch" => thread[p] = "batch"
  OBVIOUS
<1>3. cursor' - Size <= sequence[p] /\ cursor <= cursor' /\ cursor' \in Int
  BY <1>1 DEF TypeOK
<1>4. sequence[p] \in Int /\ available[p] \in Int /\ cursor \in Int
  BY DEF TypeOK
<1> QED BY <1>1, <1>2, <1>3, <1>4 DEF Progress, Follows

\* What the owner and the publishers leave alone.
LEMMA OwnerFrame ==
    ASSUME TypeOK, \/ OwnerStep \/ DrainTimesOut \/ Start \/ Shutdown \/ Halt \/ PublishEvent
    PROVE  /\ UNCHANGED <<sequence, available>> /\ thread' \in [Processors -> Places]
           /\ \A p \in Processors : thread'[p] \in {thread[p], "spawned", "none"}
           /\ \/ cursor' = cursor
              \/ cursor' = cursor + 1 /\ \A p \in Processors : cursor + 1 - Size <= sequence[p]
<1>1. thread \in [Processors -> Places] /\ "spawned" \in Places /\ "none" \in Places
  BY DEF TypeOK, Places
<1>2. /\ UNCHANGED <<sequence, available>>
      /\ \/ cursor' = cursor
         \/ cursor' = cursor + 1 /\ \A p \in Processors : cursor + 1 - Size <= sequence[p]
  BY Zenon DEF OwnerStep, Spawn, AwaitStartup, StartVerdict, DrainSnapshot, DrainBacklog,
               HaltProcessor, AlertBarrier, Join, JoinReturns, DrainTimesOut, Start, Shutdown,
               Halt, PublishEvent
<1>3. \/ thread' = thread
      \/ \E p \in Processors, place \in {"spawned", "none"} : thread' = [thread EXCEPT ![p] = place]
  <2>1. CASE Spawn
    BY <2>1, Zenon DEF Spawn, GoTo, TypeOK
  <2>2. CASE Join
    BY <2>2, Zenon DEF Join, GoTo
  <2>3. CASE ~Spawn /\ ~Join
    BY <2>3, Zenon DEF OwnerStep, AwaitStartup, StartVerdict, DrainSnapshot, DrainBacklog,
               HaltProcessor, AlertBarrier, JoinReturns, DrainTimesOut, Start, Shutdown,
               Halt, PublishEvent
  <2> QED BY <2>1, <2>2, <2>3
<1>4. /\ thread' \in [Processors -> Places]
      /\ \A p \in Processors : thread'[p] \in {thread[p], "spawned", "none"}
  BY <1>1, <1>3
<1> QED BY <1>2, <1>4

\* The owner's calls keep the types.
LEMMA OwnerKeepsTypes ==
    ASSUME TypeOK, \/ OwnerStep \/ DrainTimesOut \/ Start \/ Shutdown \/ Halt \/ PublishEvent
    PROVE  TypeOK'
<1> USE ProcessorsAreNumbered
<1>1. UNCHANGED <<sequence, available>> /\ thread' \in [Processors -> Places]
  BY OwnerFrame
<1>2. at \in Processors /\ cursor \in Int /\ drain_target \in Int
  BY DEF TypeOK
<1>3. at' \in Processors
  <2>1. at' = at \/ at' = 1 \/ (at # N /\ at' = at + 1)
    BY Zenon DEF OwnerStep, Spawn, AwaitStartup, StartVerdict, DrainSnapshot, DrainBacklog,
                 HaltProcessor, AlertBarrier, Join, JoinReturns, DrainTimesOut, Start, Shutdown,
                 Halt, PublishEvent, Begin, ownerVars
  <2> QED BY <1>2, <2>1
<1>4. cursor' \in Int /\ drain_target' \in Int
  <2>1. drain_target' = drain_target \/ drain_target' = cursor
    BY Zenon DEF OwnerStep, Spawn, AwaitStartup, StartVerdict, DrainSnapshot, DrainBacklog,
                 HaltProcessor, AlertBarrier, Join, JoinReturns, DrainTimesOut, Start, Shutdown,
                 Halt, PublishEvent, Begin, ownerVars
  <2>2. cursor' = cursor \/ cursor' = cursor + 1
    BY OwnerFrame, Zenon
  <2> QED BY <1>2, <2>1, <2>2
<1>5. CASE Start \/ Shutdown \/ Halt \/ PublishEvent
  BY <1>1, <1>3, <1>4, <1>5, Zenon DEF Start, Shutdown, Halt, PublishEvent, Begin, TypeOK,
           ownerVars, flagVars, poison_with_failure
<1>6. CASE Spawn \/ AwaitStartup \/ StartVerdict
  BY <1>1, <1>3, <1>4, <1>6, Zenon DEF Spawn, AwaitStartup, StartVerdict, TypeOK, flagVars
<1>7. CASE DrainSnapshot \/ DrainBacklog \/ DrainTimesOut
  BY <1>1, <1>3, <1>4, <1>7 DEF DrainSnapshot, DrainBacklog, DrainTimesOut, TypeOK, flagVars
<1>8. CASE HaltProcessor \/ AlertBarrier \/ Join \/ JoinReturns
  BY <1>1, <1>3, <1>4, <1>8, Zenon DEF HaltProcessor, AlertBarrier, Join, JoinReturns, TypeOK,
           flagVars
<1> QED BY <1>5, <1>6, <1>7, <1>8 DEF OwnerStep

\* The owner's calls keep what is known of the threads that exist: a start()
\* adds them in order, and a stop or a failed start() ends with none, unless a
\* failing spawn unwinds.
LEMMA OwnerKeepsThreads ==
    ASSUME TypeOK, StoppedThreadsAreJoined, SpawnedInv,
           \/ OwnerStep \/ DrainTimesOut \/ Start \/ Shutdown \/ Halt \/ PublishEvent
    PROVE  StoppedThreadsAreJoined' /\ SpawnedInv'
<1> USE ProcessorsAreNumbered
<1>1. /\ at \in Processors /\ thread \in [Processors -> Places]
      /\ \A p \in Processors : ~(p < 1) /\ (p <= at <=> p < at + 1) /\ (p <= at <=> p < at \/ p = at)
  BY DEF TypeOK
<1>2. CASE Start
  BY <1>1, <1>2, Zenon DEF Start, Begin, StoppedThreadsAreJoined, SpawnedInv
<1>3. CASE Shutdown \/ Halt
  BY <1>3, Zenon DEF Shutdown, Halt, Begin, StoppedThreadsAreJoined, SpawnedInv
<1>4. CASE PublishEvent
  BY <1>4, Zenon DEF PublishEvent, ownerVars, StoppedThreadsAreJoined, SpawnedInv
<1>5. CASE Spawn
  <2>1. /\ owner = "spawn" /\ at' = at /\ started' = started /\ result # "Panicked"
        /\ \A p \in Processors : thread[p] # "none" <=> p < at
    BY <1>5, Zenon DEF Spawn, SpawnedInv
  <2>2. CASE thread' = [thread EXCEPT ![at] = "spawned"] /\ owner' = "startup" /\ result' = result
    <3>1. \A p \in Processors : thread'[p] # "none" <=> p <= at
      BY <1>1, <2>1, <2>2
    <3> QED BY <2>1, <2>2, <3>1, Zenon DEF StoppedThreadsAreJoined, SpawnedInv
  <2>3. CASE thread' = thread /\ owner' = "idle" /\ result' = "Panicked"
    BY <2>1, <2>3, Zenon DEF StoppedThreadsAreJoined, SpawnedInv
  <2> QED BY <1>5, <2>2, <2>3, Zenon DEF Spawn, GoTo
<1>6. CASE AwaitStartup
  BY <1>6, Zenon DEF AwaitStartup, StoppedThreadsAreJoined, SpawnedInv
<1>7. CASE StartVerdict
  <2>1. /\ owner = "verdict" /\ thread' = thread /\ result' # "Panicked"
        /\ \A p \in Processors : thread[p] # "none" <=> p <= at
    BY <1>7, Zenon DEF StartVerdict, SpawnedInv
  <2>2. \/ owner' = "halt"
        \/ owner' = "idle" /\ started' = TRUE
        \/ owner' = "spawn" /\ at' = at + 1
    BY <1>7, Zenon DEF StartVerdict
  <2> QED BY <1>1, <2>1, <2>2, Zenon DEF StoppedThreadsAreJoined, SpawnedInv
<1>8. CASE DrainSnapshot \/ DrainBacklog \/ DrainTimesOut \/ HaltProcessor \/ AlertBarrier
  BY <1>8, Zenon DEF DrainSnapshot, DrainBacklog, DrainTimesOut, HaltProcessor, AlertBarrier,
           StoppedThreadsAreJoined, SpawnedInv
<1>9. CASE Join \/ JoinReturns
  BY <1>9, Zenon DEF Join, JoinReturns, StoppedThreadsAreJoined, SpawnedInv
<1> QED BY <1>2, <1>3, <1>4, <1>5, <1>6, <1>7, <1>8, <1>9 DEF OwnerStep

\* The owner's calls keep what a shutdown relies on.
LEMMA OwnerKeepsShutdownInv ==
    ASSUME TypeOK, ShutdownInv,
           \/ OwnerStep \/ DrainTimesOut \/ Start \/ Shutdown \/ Halt \/ PublishEvent
    PROVE  ShutdownInv'
<1>1. UNCHANGED sequence
  BY OwnerFrame
<1>2. CASE Start \/ Shutdown \/ Halt
  BY <1>2, Zenon DEF Start, Shutdown, Halt, Begin, ShutdownInv
<1>3. CASE PublishEvent
  BY <1>3, Zenon DEF PublishEvent, ownerVars, ShutdownInv
<1>4. CASE Spawn \/ AwaitStartup \/ StartVerdict
  BY <1>4 DEF Spawn, AwaitStartup, StartVerdict, ShutdownInv
<1>5. CASE DrainSnapshot
  BY <1>5 DEF DrainSnapshot, ShutdownInv, flagVars
<1>6. CASE DrainBacklog
  BY <1>1, <1>6, Zenon DEF DrainBacklog, ShutdownInv, flagVars
<1>7. CASE DrainTimesOut
  BY <1>7 DEF DrainTimesOut, ShutdownInv, flagVars
<1>8. CASE HaltProcessor \/ AlertBarrier
  BY <1>1, <1>8, Zenon DEF HaltProcessor, AlertBarrier, ShutdownInv, flagVars
<1>9. CASE Join \/ JoinReturns
  BY <1>1, <1>9 DEF Join, JoinReturns, ShutdownInv, flagVars
<1> QED BY <1>2, <1>3, <1>4, <1>5, <1>6, <1>7, <1>8, <1>9 DEF OwnerStep

\* The invariant of the Disruptor DSL holds however start, shutdown, halt and
\* the processors' threads interleave.
THEOREM DslInvariance == Spec => []DslInv
<1> USE ProcessorsAreNumbered
<1>1. Init => DslInv
  <2> SUFFICES ASSUME Init PROVE DslInv
    OBVIOUS
  <2>1. TypeOK /\ StoppedThreadsAreJoined /\ SpawnedInv
    <3>1. thread \in [Processors -> Places] /\ \A p \in Processors : thread[p] = "none"
      BY DEF Init, Places
    <3>2. sequence \in [Processors -> Int] /\ available \in [Processors -> Int]
      BY DEF Init
    <3>3. at \in Processors /\ cursor \in Int /\ drain_target \in Int
      BY DEF Init
    <3> QED BY <3>1, <3>2, <3>3, Zenon DEF Init, TypeOK, StoppedThreadsAreJoined, SpawnedInv
  <2>2. ShutdownInv
    BY DEF Init, ShutdownInv
  <2>3. \A p \in Processors : Progress(p)
    BY DEF Init, Progress
  <2> QED BY <2>1, <2>2, <2>3 DEF DslInv
<1>2. DslInv /\ [Next]_vars => DslInv'
  <2> SUFFICES ASSUME DslInv, [Next]_vars PROVE DslInv'
    OBVIOUS
  <2>1. /\ TypeOK /\ StoppedThreadsAreJoined /\ SpawnedInv /\ ShutdownInv
        /\ \A q \in Processors : Progress(q)
    BY Zenon DEF DslInv
  <2>2. CASE \E p \in Processors : ThreadStep(p)
    BY <2>2, ThreadKeepsDslInv, Zenon
  <2>3. CASE OwnerStep \/ DrainTimesOut \/ Start \/ Shutdown \/ Halt \/ PublishEvent
    <3>1. TypeOK' /\ StoppedThreadsAreJoined' /\ SpawnedInv' /\ ShutdownInv'
      BY <2>1, <2>3, OwnerKeepsTypes, OwnerKeepsThreads, OwnerKeepsShutdownInv, Zenon
    <3>2. \A p \in Processors : Progress(p)'
      BY <2>1, <2>3, OwnerFrame, OthersKeepProgress, Zenon
    <3> QED BY <3>1, <3>2, Zenon DEF DslInv
  <2>4. CASE UNCHANGED vars
    BY <2>1, <2>4, Zenon DEF DslInv, vars, TypeOK, StoppedThreadsAreJoined, SpawnedInv, ShutdownInv, Progress, Follows,
                      ownerVars, flagVars
  <2> QED BY <2>2, <2>3, <2>4, Zenon DEF Next
<1> QED BY <1>1, <1>2, PTL DEF Spec

\* A Disruptor that is not started has joined every thread it spawned, after a
\* start() that answered an error as after a stop; after a start() that unwound
\* from a failing spawn, exactly the processors before that one have a thread.
\* For any number of processors and restarts.
THEOREM StopsJoinEveryThread == Spec => []StoppedThreadsAreJoined
<1>1. DslInv => StoppedThreadsAreJoined
  BY DEF DslInv
<1> QED BY <1>1, DslInvariance, PTL

\* A shutdown() that answers Ok left no published event unhandled by any
\* processor, however the processors were added.
THEOREM ShutdownsAreComplete == Spec => []ShutdownHandledAll
<1>1. DslInv => ShutdownHandledAll
  <2> SUFFICES ASSUME DslInv, owner = "idle", call = "shutdown", result = "Ok", NEW p \in Processors
               PROVE  sequence[p] = cursor
    BY DEF ShutdownHandledAll
  <2>1. sequence[p] >= cursor
    BY DEF DslInv, ShutdownInv
  <2>2. sequence[p] <= cursor /\ sequence[p] \in Int /\ cursor \in Int
    BY DEF DslInv, Progress, TypeOK
  <2> QED BY <2>1, <2>2
<1> QED BY <1>1, DslInvariance, PTL

\* Two sequences within one lap have different slots.
LEMMA SlotsOfALapDiffer ==
    ASSUME NEW a \in Int, NEW b \in Int, a < b, b - a < Size
    PROVE  a % Size # b % Size
<1> USE ProcessorsAreNumbered
<1> DEFINE k == (b \div Size) - (a \div Size)
<1>1. /\ a \div Size \in Int /\ b \div Size \in Int
      /\ a % Size \in Int /\ b % Size \in Int
      /\ a = Size * (a \div Size) + (a % Size) /\ b = Size * (b \div Size) + (b % Size)
  OBVIOUS
<1>2. SUFFICES ASSUME a % Size = b % Size PROVE FALSE
  OBVIOUS
<1>3. k \in Int /\ Size * k = b - a
  <2>1. Size * k = Size * (b \div Size) - Size * (a \div Size)
    BY <1>1
  <2>2. Size * (b \div Size) \in Int /\ Size * (a \div Size) \in Int
    BY <1>1
  <2> QED BY <1>1, <1>2, <2>1, <2>2
<1> HIDE DEF k
<1>4. CASE k <= 0
  <2>1. Size * k <= 0
    BY <1>3, <1>4
  <2> QED BY <1>3, <2>1
<1>5. CASE k >= 1
  <2>1. Size * k >= Size
    BY <1>3, <1>5
  <2> QED BY <1>3, <2>1
<1> QED BY <1>3, <1>4, <1>5

\* Two processors of which one follows the other hold different slots: the
\* batch of the follower ends before the other one's begins, and both are in
\* the last lap.
LEMMA FollowersHoldOtherSlots ==
    ASSUME DslInv, NEW p \in Processors, NEW q \in Processors, Follows(p, q)
    PROVE  Window(p) \cap Window(q) = {}
<1> USE ProcessorsAreNumbered
<1>1. /\ sequence[p] \in Int /\ sequence[q] \in Int /\ available[p] \in Int
      /\ available[q] \in Int /\ cursor \in Int
  BY DEF DslInv, TypeOK
<1>2. SUFFICES ASSUME thread[p] = "batch", thread[q] = "batch",
                      NEW s \in sequence[p] + 1 .. available[p],
                      NEW r \in sequence[q] + 1 .. available[q]
               PROVE  s % Size # r % Size
  BY DEF Window
<1>3. available[p] <= cursor /\ available[q] <= sequence[p] /\ cursor - Size <= sequence[q]
  BY <1>2, Zenon DEF DslInv, Progress
<1>4. r \in Int /\ s \in Int /\ r < s /\ s - r < Size
  BY <1>1, <1>2, <1>3
<1>5. r % Size # s % Size
  BY <1>4, SlotsOfALapDiffer, Zenon
<1> QED BY <1>5, Zenon

\* Every processor but the first was added with then.
IsChain == \A p \in Processors \ {1} : Built[p] = "then"

\* In a chain built with then, handlers that run at once hold disjoint slots,
\* for any length of the chain.  Without the hypothesis it is false: a second
\* handle_events_with adds a processor that follows nobody.
THEOREM ChainsHoldDistinctSlots == Spec => [](IsChain => WindowsAreExclusive)
<1> USE ProcessorsAreNumbered
<1>1. DslInv => (IsChain => WindowsAreExclusive)
  <2> SUFFICES ASSUME DslInv, IsChain, NEW p \in Processors, NEW q \in Processors, p # q
               PROVE  Window(p) \cap Window(q) = {}
    BY Zenon DEF WindowsAreExclusive
  <2>1. Follows(p, q) \/ Follows(q, p)
    BY DEF IsChain, Follows
  <2>2. CASE Follows(p, q)
    BY <2>2, FollowersHoldOtherSlots, Zenon
  <2>3. CASE Follows(q, p)
    <3>1. Window(q) \cap Window(p) = {}
      BY <2>3, FollowersHoldOtherSlots, Zenon
    <3> QED BY <3>1, Zenon
  <2> QED BY <2>1, <2>2, <2>3
<1> QED BY <1>1, DslInvariance, PTL

-----------------------------------------------------------------------------
(* Consumers and stages.                                                   *)

\* What the type of a registered consumer says of its fields.
LEMMA ConsumerFields ==
    ASSUME BuilderTypeOK
    PROVE  /\ Len(consumers) \in Nat /\ current_stage_index \in Nat
           /\ \A i \in 1 .. Len(consumers) : consumers[i] \in ConsumerInfo
           /\ \A i \in 1 .. Len(consumers) : consumers[i].stage \in Nat
<1>1. consumers \in Seq(ConsumerInfo) /\ current_stage_index \in Nat
  BY DEF BuilderTypeOK
<1>2. Len(consumers) \in Nat /\ \A i \in 1 .. Len(consumers) : consumers[i] \in ConsumerInfo
  BY <1>1
<1>3. \A x \in ConsumerInfo : x.stage \in Nat
  BY DEF ConsumerInfo
<1> QED BY <1>1, <1>2, <1>3, Zenon

\* The stages and their run modes are a function of the consumers.
LEMMA SameConsumersSameStages ==
    ASSUME consumers' = consumers
    PROVE  \A k : InStage(k)' = InStage(k) /\ stage_run_modes(k)' = stage_run_modes(k)
  BY DEF InStage, stage_run_modes

\* The stages that have consumers are the ones that the calls have gone through.
LEMMA StagesAreContiguous ==
    ASSUME BuilderTypeOK, StagesInv, InStage(current_stage_index) # {}
    PROVE  /\ Stages = 0 .. current_stage_index
           /\ stage_count = current_stage_index + 1
<1>1. /\ current_stage_index \in Nat /\ Len(consumers) \in Nat
      /\ \A i \in 1 .. Len(consumers) : consumers[i].stage \in Nat
  BY ConsumerFields, Zenon
<1>2. Stages \subseteq 0 .. current_stage_index
  BY <1>1 DEF StagesInv, Stages
<1>3. ASSUME NEW k \in 0 .. current_stage_index PROVE k \in Stages
  <2>1. InStage(k) # {}
    <3>1. k = current_stage_index \/ k \in 0 .. current_stage_index - 1
      BY <1>1
    <3> QED BY <3>1, Zenon DEF StagesInv
  <2> QED BY <2>1, Zenon DEF InStage, Stages
<1>4. Stages = 0 .. current_stage_index
  BY <1>2, <1>3, Zenon
<1>5. stage_count = current_stage_index + 1
  <2>1. PICK m : m = CHOOSE x \in Stages : \A k \in Stages : k <= x
    OBVIOUS
  <2>2. current_stage_index \in Stages /\ \A k \in Stages : k <= current_stage_index
    BY <1>1, <1>4
  <2>3. m \in Stages /\ \A k \in Stages : k <= m
    BY <2>1, <2>2, Zenon
  <2>4. m = current_stage_index
    BY <1>1, <1>4, <2>2, <2>3
  <2>5. stage_count = 1 + m
    BY <2>1, Zenon DEF stage_count
  <2> QED BY <1>1, <2>4, <2>5
<1> QED BY <1>4, <1>5, Zenon

\* pin_at_core changes what the next consumer asks for, and nothing else.
LEMMA PinningKeepsBuilderInv ==
    ASSUME BuilderInv, Declaring, NEW c \in Cores, pin_at_core(c)
    PROVE  BuilderInv'
<1>1. /\ current_cpu_affinity' = c /\ asked' = [asked EXCEPT ![Len(asked)] = c]
      /\ typestate' = typestate /\ consumers' = consumers
      /\ current_stage_index' = current_stage_index
      /\ building' = building /\ dependent_sequences' = dependent_sequences
      /\ stage_sequences' = stage_sequences /\ run_mode' = run_mode /\ gating' = gating
      /\ threads' = threads
  BY Zenon DEF pin_at_core, startVars
<1>2. BuilderTypeOK /\ StagesInv /\ CoresInv /\ WiredInv
  BY Zenon DEF BuilderInv
<1>3. StagesInv' /\ WiredInv'
  <2>1. StagesInv'
    BY <1>1, <1>2, Zenon DEF StagesInv, InStage
  <2>2. WiredInv'
    BY <1>1, <1>2, Zenon DEF WiredInv, Declaring
  <2> QED BY <2>1, <2>2
<1>4. /\ Len(consumers) \in Nat /\ asked \in Seq(Cores \cup {Unset})
      /\ Len(asked) = Len(consumers) + 1 /\ Len(asked) \in 1 .. Len(asked)
  BY <1>2 DEF BuilderTypeOK, CoresInv
<1>5. /\ asked' \in Seq(Cores \cup {Unset}) /\ Len(asked') = Len(asked)
      /\ asked'[Len(asked)] = c /\ \A i \in 1 .. Len(consumers) : asked'[i] = asked[i]
  BY <1>1, <1>4
<1>6. CoresInv'
  BY <1>1, <1>2, <1>4, <1>5 DEF CoresInv, Declaring
<1>7. BuilderTypeOK'
  BY <1>1, <1>2, <1>5, Zenon DEF BuilderTypeOK
<1> QED BY <1>3, <1>6, <1>7, Zenon DEF BuilderInv

\* A registration that mixes the kinds of access only ends the declaration.
LEMMA MixedAccessKeepsBuilderInv ==
    ASSUME BuilderInv, NEW access \in {"Mutable", "Readonly"}, push(access),
           ~assert_access_compatible(access)
    PROVE  BuilderInv'
<1>1. /\ typestate' = "panicked" /\ consumers' = consumers /\ asked' = asked
      /\ current_cpu_affinity' = Unset /\ current_stage_index' = current_stage_index
      /\ building' = building /\ dependent_sequences' = dependent_sequences
      /\ stage_sequences' = stage_sequences /\ run_mode' = run_mode /\ gating' = gating
      /\ threads' = threads
  BY Zenon DEF push, startVars, take_thread_meta
<1>2. BuilderTypeOK /\ StagesInv /\ CoresInv /\ WiredInv
  BY Zenon DEF BuilderInv
<1>3. StagesInv' /\ CoresInv'
  BY <1>1, <1>2, Zenon DEF StagesInv, CoresInv, InStage, Declaring
<1>4. BuilderTypeOK' /\ WiredInv'
  BY <1>1, <1>2, Zenon DEF BuilderTypeOK, WiredInv, Declaring
<1> QED BY <1>3, <1>4, Zenon DEF BuilderInv

\* add_mut_closure, add_mut_handler and add_fanout put a consumer at the end of the
\* stage that is open, with the core that was asked for.
LEMMA PushKeepsBuilderInv ==
    ASSUME BuilderInv, NEW access \in {"Mutable", "Readonly"}, push(access),
           assert_access_compatible(access)
    PROVE  BuilderInv'
<1> DEFINE n == Len(consumers)
           c == [access |-> access, stage |-> current_stage_index, cpu |-> current_cpu_affinity]
<1>1. /\ typestate' = "HasConsumers" /\ asked' = Append(asked, Unset)
      /\ consumers' = Append(consumers, c)
      /\ current_cpu_affinity' = Unset /\ current_stage_index' = current_stage_index
      /\ building' = building /\ dependent_sequences' = dependent_sequences
      /\ stage_sequences' = stage_sequences /\ run_mode' = run_mode /\ gating' = gating
      /\ threads' = threads /\ Declaring
  BY Zenon DEF push, startVars, take_thread_meta
<1>2. BuilderTypeOK /\ StagesInv /\ CoresInv /\ WiredInv
  BY Zenon DEF BuilderInv
<1>3. /\ n \in Nat /\ current_stage_index \in Nat /\ current_stage_index <= current_stage_index
      /\ c \in ConsumerInfo
      /\ c.access = access /\ c.stage = current_stage_index /\ c.cpu = current_cpu_affinity
      /\ consumers \in Seq(ConsumerInfo)
      /\ asked \in Seq(Cores \cup {Unset}) /\ Len(asked) = n + 1
  <2>1. /\ current_stage_index \in Nat /\ consumers \in Seq(ConsumerInfo)
        /\ current_cpu_affinity \in Cores \cup {Unset}
        /\ asked \in Seq(Cores \cup {Unset}) /\ Len(asked) = n + 1
    BY <1>2, Zenon DEF BuilderTypeOK, CoresInv
  <2>2. n \in Nat /\ current_stage_index <= current_stage_index
    BY <2>1
  <2>3. /\ c \in ConsumerInfo
        /\ c.access = access /\ c.stage = current_stage_index /\ c.cpu = current_cpu_affinity
    BY <2>1 DEF ConsumerInfo
  <2> QED BY <2>1, <2>2, <2>3, Zenon
<1> HIDE DEF c
<1>4. /\ Len(consumers') = n + 1 /\ consumers'[n + 1] = c
      /\ \A i \in 1 .. n : consumers'[i] = consumers[i]
      /\ consumers' \in Seq(ConsumerInfo)
  BY <1>1, <1>3
<1>5. /\ Len(asked') = n + 2 /\ asked'[n + 2] = Unset
      /\ \A i \in 1 .. n + 1 : asked'[i] = asked[i]
      /\ asked' \in Seq(Cores \cup {Unset})
  BY <1>1, <1>3
<1>6. BuilderTypeOK'
  BY <1>1, <1>2, <1>4, <1>5, Zenon DEF BuilderTypeOK
<1>7. CoresInv'
  <2>1. asked[n + 1] = current_cpu_affinity /\ \A i \in 1 .. n : consumers[i].cpu = asked[i]
    BY <1>1, <1>2, <1>3 DEF CoresInv
  <2>2. ASSUME NEW i \in 1 .. n + 1 PROVE consumers'[i].cpu = asked'[i]
    <3>1. CASE i = n + 1
      BY <1>3, <1>4, <1>5, <2>1, <3>1
    <3>2. CASE i \in 1 .. n
      BY <1>3, <1>4, <1>5, <2>1, <3>2
    <3> QED BY <1>3, <3>1, <3>2
  <2> QED BY <1>1, <1>3, <1>4, <1>5, <2>2 DEF CoresInv
<1>8. StagesInv'
  <2>1. /\ \A i \in 1 .. n : consumers[i].stage <= current_stage_index
        /\ \A i, j \in 1 .. n : i < j => consumers[i].stage <= consumers[j].stage
        /\ \A i, j \in 1 .. n :
              consumers[i].stage = consumers[j].stage => consumers[i].access = consumers[j].access
        /\ \A k \in 0 .. current_stage_index - 1 : InStage(k) # {}
        /\ \A i \in 1 .. n : consumers[i].stage = current_stage_index => consumers[i].access = access
    BY <1>2, Zenon DEF StagesInv, assert_access_compatible
  <2>3. \A i \in 1 .. n + 1 : (i = n + 1 \/ i \in 1 .. n) /\ ~(n + 1 < i)
    BY <1>3
  <2>4. \A i \in 1 .. n + 1 : consumers'[i].stage <= current_stage_index
    BY <1>3, <1>4, <2>1, <2>3, Zenon
  <2>5. \A i, j \in 1 .. n + 1 : i < j => consumers'[i].stage <= consumers'[j].stage
    BY <1>3, <1>4, <2>1, <2>3, <2>4, Zenon
  <2>6. \A i, j \in 1 .. n + 1 :
           consumers'[i].stage = consumers'[j].stage => consumers'[i].access = consumers'[j].access
    <3> SUFFICES ASSUME NEW i \in 1 .. n + 1, NEW j \in 1 .. n + 1,
                         consumers'[i].stage = consumers'[j].stage
                  PROVE  consumers'[i].access = consumers'[j].access
      OBVIOUS
    <3> QED BY <1>3, <1>4, <2>1, <2>3, Zenon
  <2>7. \A k : InStage(k) \subseteq InStage(k)'
    BY <1>3, <1>4 DEF InStage
  <2>8. n + 1 \in InStage(current_stage_index)'
    <3>1. n + 1 \in 1 .. n + 1
      BY <1>3
    <3> QED BY <1>1, <1>3, <1>4, <3>1, Zenon DEF InStage
  <2>9. \A k \in 0 .. current_stage_index - 1 : InStage(k)' # {}
    BY <2>1, <2>7, Zenon
  <2>10. typestate' # "NoConsumers" /\ InStage(current_stage_index)' # {}
    BY <1>1, <2>8
  <2>11. n + 1 = Len(consumers') /\ current_stage_index = current_stage_index'
    BY <1>1, <1>4
  <2>12. /\ \A i \in 1 .. Len(consumers') : consumers'[i].stage <= current_stage_index'
         /\ \A i, j \in 1 .. Len(consumers') : i < j => consumers'[i].stage <= consumers'[j].stage
         /\ \A i, j \in 1 .. Len(consumers') :
               consumers'[i].stage = consumers'[j].stage => consumers'[i].access = consumers'[j].access
         /\ \A k \in 0 .. current_stage_index' - 1 : InStage(k)' # {}
    BY <2>4, <2>5, <2>6, <2>9, <2>11
  <2> QED BY <2>10, <2>12, Zenon DEF StagesInv
<1>9. WiredInv'
  BY <1>1, <1>2, Zenon DEF WiredInv, Declaring
<1> QED BY <1>6, <1>7, <1>8, <1>9, Zenon DEF BuilderInv

\* and_then opens the next stage after one that has a consumer.
LEMMA AndThenKeepsBuilderInv ==
    ASSUME BuilderInv, and_then
    PROVE  BuilderInv'
<1>1. /\ typestate = "HasConsumers" /\ typestate' = "Dependent"
      /\ consumers' = consumers /\ asked' = asked
      /\ current_cpu_affinity' = current_cpu_affinity
      /\ current_stage_index' = current_stage_index + 1
      /\ building' = building /\ dependent_sequences' = dependent_sequences
      /\ stage_sequences' = stage_sequences /\ run_mode' = run_mode /\ gating' = gating
      /\ threads' = threads
  BY Zenon DEF and_then, startVars
<1>2. BuilderTypeOK /\ StagesInv /\ CoresInv /\ WiredInv
  BY Zenon DEF BuilderInv
<1>3. current_stage_index \in Nat
  BY <1>2, Zenon DEF BuilderTypeOK
<1>4. BuilderTypeOK'
  <2>1. current_stage_index' \in Nat
    BY <1>1, <1>3
  <2> QED BY <1>1, <1>2, <2>1, Zenon DEF BuilderTypeOK
<1>5. CoresInv' /\ WiredInv'
  BY <1>1, <1>2, Zenon DEF CoresInv, WiredInv, Declaring
<1>6. StagesInv'
  <2>1. /\ \A i \in 1 .. Len(consumers) : consumers[i].stage <= current_stage_index
        /\ \A k \in 0 .. current_stage_index - 1 : InStage(k) # {}
        /\ InStage(current_stage_index) # {}
        /\ \A i \in 1 .. Len(consumers) : consumers[i].stage \in Nat
    <3>1. \A i \in 1 .. Len(consumers) : consumers[i].stage \in Nat
      BY <1>2, ConsumerFields, Zenon
    <3> QED BY <1>1, <1>2, <3>1, Zenon DEF StagesInv
  <2>2. \A i \in 1 .. Len(consumers) : consumers[i].stage <= current_stage_index + 1
    BY <1>3, <2>1
  <2>3. \A k \in 0 .. (current_stage_index + 1) - 1 : InStage(k) # {}
    <3>1. \A k \in 0 .. (current_stage_index + 1) - 1 :
             k = current_stage_index \/ k \in 0 .. current_stage_index - 1
      BY <1>3
    <3> QED BY <2>1, <3>1, Zenon
  <2> QED BY <1>1, <1>2, <2>2, <2>3, Zenon DEF StagesInv, InStage
<1> QED BY <1>4, <1>5, <1>6, Zenon DEF BuilderInv

\* build_single and build_multi look only at the ring's size, and make room for
\* every stage.
LEMMA BuildKeepsBuilderInv ==
    ASSUME BuilderInv, BeginBuild
    PROVE  BuilderInv'
<1>1. /\ typestate = "HasConsumers" /\ typestate' \in {"starting", "panicked"}
      /\ stage_sequences' = [k \in 1 .. stage_count |-> <<>>]
      /\ consumers' = consumers /\ asked' = asked
      /\ current_cpu_affinity' = current_cpu_affinity
      /\ current_stage_index' = current_stage_index
      /\ building' = building /\ dependent_sequences' = dependent_sequences
      /\ run_mode' = run_mode /\ gating' = gating /\ threads' = threads
  BY Zenon DEF BeginBuild, declVars
<1>2. BuilderTypeOK /\ StagesInv /\ CoresInv /\ WiredInv
  BY Zenon DEF BuilderInv
<1>3. /\ Len(consumers) \in Nat /\ current_stage_index \in Nat
      /\ stage_count = current_stage_index + 1
  <2>1. InStage(current_stage_index) # {}
    BY <1>1, <1>2 DEF StagesInv
  <2> QED BY <1>2, <2>1, ConsumerFields, StagesAreContiguous, Zenon
<1>4. /\ stage_sequences' \in Seq(Seq(Nat)) /\ Len(stage_sequences') = current_stage_index + 1
      /\ \A k \in 0 .. current_stage_index : stage_sequences'[k + 1] = <<>>
  <2>1. stage_sequences' = [k \in 1 .. current_stage_index + 1 |-> <<>>]
    BY <1>1, <1>3, Zenon
  <2> QED BY <1>3, <2>1
<1>5. BuilderTypeOK'
  BY <1>1, <1>2, <1>4, Zenon DEF BuilderTypeOK
<1>6. StagesInv' /\ CoresInv'
  <2>1. typestate' \notin {"NoConsumers", "HasConsumers", "Dependent"}
    BY <1>1, Zenon
  <2>2. StagesInv'
    BY <1>1, <1>2, <2>1 DEF StagesInv, InStage
  <2>3. CoresInv'
    BY <1>1, <1>2, <2>1, Zenon DEF CoresInv, Declaring
  <2> QED BY <2>2, <2>3
<1>7. WiredInv'
  <2>1. building = 0 /\ dependent_sequences = <<>> /\ run_mode = <<>>
    BY <1>1, <1>2 DEF WiredInv, Declaring
  <2>2. ~Declaring' /\ typestate' # "built"
    BY <1>1 DEF Declaring
  <2>3. \A k \in 0 .. current_stage_index :
           Listed(stage_sequences'[k + 1]) = {i \in InStage(k)' : i <= building'}
    <3>1. \A k : InStage(k)' \subseteq 1 .. Len(consumers)
      BY <1>1, Zenon DEF InStage
    <3>2. \A i \in 1 .. Len(consumers) : ~(i <= 0)
      BY <1>3
    <3>3. \A k : {i \in InStage(k)' : i <= building'} = {}
      BY <1>1, <2>1, <3>1, <3>2, Zenon
    <3>4. Listed(<<>>) = {}
      BY DEF Listed
    <3> QED BY <1>4, <3>3, <3>4, Zenon
  <2>4. /\ building' <= Len(consumers') /\ Len(dependent_sequences') = building'
        /\ Len(run_mode') = building' /\ 1 .. building' = {}
    BY <1>1, <1>3, <2>1
  <2> QED BY <1>1, <1>4, <2>2, <2>3, <2>4, Zenon DEF WiredInv
<1> QED BY <1>5, <1>6, <1>7, Zenon DEF BuilderInv

\* When its turn comes, all of the stage before a consumer has been started, and
\* there is somebody in it: the assertions of build's loop hold.
LEMMA UpstreamIsStarted ==
    ASSUME BuilderInv, typestate = "starting", building < Len(consumers),
           NEW k, k = consumers[building + 1].stage
    PROVE  /\ k \in 0 .. current_stage_index /\ ~Upstreamless(k)
           /\ (IF k = 0 THEN {} ELSE Previous(k)) = InStage(k - 1)
<1>1. BuilderTypeOK /\ StagesInv /\ CoresInv /\ WiredInv
  BY Zenon DEF BuilderInv
<1>2. /\ Len(consumers) \in Nat /\ current_stage_index \in Nat /\ building \in Nat
      /\ \A i \in 1 .. Len(consumers) : consumers[i].stage \in Nat
      /\ stage_sequences \in Seq(Seq(Nat))
  BY <1>1, ConsumerFields, Zenon DEF BuilderTypeOK
<1>3. building + 1 \in 1 .. Len(consumers)
  BY <1>2
<1>4. k \in 0 .. current_stage_index
  BY <1>1, <1>2, <1>3 DEF StagesInv
<1>5. CASE k = 0
  <2>1. InStage(k - 1) = {}
    BY <1>2, <1>5 DEF InStage
  <2>2. ~Upstreamless(k)
    BY <1>5 DEF Upstreamless
  <2> QED BY <1>4, <1>5, <2>1, <2>2
<1>6. CASE k # 0
  <2>1. /\ k - 1 \in 0 .. current_stage_index - 1 /\ k - 1 \in 0 .. current_stage_index
        /\ (k - 1) + 1 = k /\ k \in 1 .. current_stage_index + 1 /\ k - 1 \in Int
    BY <1>2, <1>4, <1>6
  <2>2. InStage(k - 1) # {}
    BY <1>1, <2>1, Zenon DEF StagesInv
  <2>3. /\ Len(stage_sequences) = current_stage_index + 1
        /\ Listed(stage_sequences[k]) = {i \in InStage(k - 1) : i <= building}
    <3>1. PICK m : m = k - 1
      OBVIOUS
    <3>2. /\ Len(stage_sequences) = current_stage_index + 1
          /\ Listed(stage_sequences[m + 1]) = {i \in InStage(m) : i <= building}
      BY <1>1, <2>1, <3>1, Zenon DEF WiredInv
    <3>3. m + 1 = k
      BY <2>1, <3>1
    <3> QED BY <3>1, <3>2, <3>3
  <2>4. ASSUME NEW i \in InStage(k - 1) PROVE i <= building
    <3>1. i \in 1 .. Len(consumers) /\ consumers[i].stage = k - 1
      BY <2>4, Zenon DEF InStage
    <3>2. building + 1 < i => k <= k - 1
      BY <1>1, <1>3, <3>1, Zenon DEF StagesInv
    <3>3. ~(k <= k - 1) /\ k # k - 1
      BY <1>4
    <3>4. i # building + 1
      BY <3>1, <3>3
    <3> QED BY <1>2, <3>1, <3>2, <3>3, <3>4
  <2>5. Listed(stage_sequences[k]) = InStage(k - 1)
    BY <2>3, <2>4, Zenon
  <2>6. stage_sequences[k] # <<>>
    <3>1. Listed(<<>>) = {}
      BY DEF Listed
    <3> QED BY <2>2, <2>5, <3>1, Zenon
  <2>7. k \in DOMAIN stage_sequences
    BY <1>2, <2>1, <2>3
  <2> QED BY <1>4, <1>6, <2>5, <2>6, <2>7, Zenon DEF Upstreamless, Previous
<1> QED BY <1>5, <1>6, Zenon

\* A round of build's loop wires the next consumer as it was declared.
LEMMA StartingKeepsBuilderInv ==
    ASSUME BuilderInv, StartConsumer
    PROVE  BuilderInv'
<1>1. BuilderTypeOK /\ StagesInv /\ CoresInv /\ WiredInv
  BY Zenon DEF BuilderInv
<1>2. PICK i, k : i = building + 1 /\ k = consumers[i].stage
  OBVIOUS
<1>3. typestate = "starting" /\ building < Len(consumers)
  BY Zenon DEF StartConsumer
<1>4. /\ k \in 0 .. current_stage_index /\ ~Upstreamless(k)
      /\ (IF k = 0 THEN {} ELSE Previous(k)) = InStage(k - 1)
  BY <1>2, <1>3, UpstreamIsStarted, Zenon
<1>5. /\ dependent_sequences' = Append(dependent_sequences, InStage(k - 1))
      /\ run_mode' = Append(run_mode, stage_run_modes(k))
      /\ stage_sequences' = [stage_sequences EXCEPT ![k + 1] = Append(@, i)]
      /\ threads' = Append(threads, "spawned")
      /\ building' = i /\ typestate' = typestate /\ gating' = gating
      /\ consumers' = consumers /\ asked' = asked
      /\ current_cpu_affinity' = current_cpu_affinity
      /\ current_stage_index' = current_stage_index
  BY <1>2, <1>4, Zenon DEF StartConsumer, declVars
<1>6. /\ Len(consumers) \in Nat /\ current_stage_index \in Nat /\ building \in Nat
      /\ i \in 1 .. Len(consumers) /\ i \in Nat
      /\ stage_sequences \in Seq(Seq(Nat)) /\ dependent_sequences \in Seq(SUBSET Nat)
      /\ run_mode \in Seq({"WorkPool", "Sequential"})
      /\ threads \in Seq({"spawned", "running", "ended"})
      /\ Len(stage_sequences) = current_stage_index + 1 /\ k + 1 \in 1 .. Len(stage_sequences)
      /\ Len(dependent_sequences) = building /\ Len(run_mode) = building
  <2>1. /\ Len(consumers) \in Nat /\ current_stage_index \in Nat /\ building \in Nat
        /\ stage_sequences \in Seq(Seq(Nat)) /\ dependent_sequences \in Seq(SUBSET Nat)
        /\ run_mode \in Seq({"WorkPool", "Sequential"})
        /\ threads \in Seq({"spawned", "running", "ended"})
    BY <1>1, ConsumerFields, Zenon DEF BuilderTypeOK
  <2>2. /\ Len(stage_sequences) = current_stage_index + 1
        /\ Len(dependent_sequences) = building /\ Len(run_mode) = building
    BY <1>1, <1>3 DEF WiredInv
  <2>3. i \in 1 .. Len(consumers) /\ i \in Nat /\ k + 1 \in 1 .. current_stage_index + 1
    BY <1>2, <1>3, <1>4, <2>1
  <2> QED BY <2>1, <2>2, <2>3
<1>7. /\ InStage(k - 1) \in SUBSET Nat /\ stage_run_modes(k) \in {"WorkPool", "Sequential"}
      /\ i \in InStage(k)
  <2>1. InStage(k - 1) \in SUBSET Nat
    BY <1>6 DEF InStage
  <2>2. stage_run_modes(k) \in {"WorkPool", "Sequential"}
    BY DEF stage_run_modes
  <2> QED BY <1>2, <1>6, <2>1, <2>2, Zenon DEF InStage
<1>8. /\ dependent_sequences' \in Seq(SUBSET Nat) /\ Len(dependent_sequences') = i
      /\ dependent_sequences'[i] = InStage(k - 1)
      /\ \A j \in 1 .. building : dependent_sequences'[j] = dependent_sequences[j]
  <2>1. PICK d : d = InStage(k - 1)
    OBVIOUS
  <2>2. d \in SUBSET Nat /\ dependent_sequences' = Append(dependent_sequences, d)
    BY <1>5, <1>7, <2>1, Zenon
  <2> QED BY <1>2, <1>6, <2>1, <2>2
<1>9. /\ run_mode' \in Seq({"WorkPool", "Sequential"}) /\ Len(run_mode') = i
      /\ run_mode'[i] = stage_run_modes(k)
      /\ \A j \in 1 .. building : run_mode'[j] = run_mode[j]
  <2>1. PICK d : d = stage_run_modes(k)
    OBVIOUS
  <2>2. d \in {"WorkPool", "Sequential"} /\ run_mode' = Append(run_mode, d)
    BY <1>5, <1>7, <2>1, Zenon
  <2> QED BY <1>2, <1>6, <2>1, <2>2
<1>10. PICK t : t = stage_sequences[k + 1]
  OBVIOUS
<1>11. t \in Seq(Nat) /\ Append(t, i) \in Seq(Nat) /\ Listed(Append(t, i)) = Listed(t) \cup {i}
  <2>1. t \in Seq(Nat) /\ Len(t) \in Nat
    BY <1>6, <1>10
  <2>2. /\ Append(t, i) \in Seq(Nat) /\ Len(Append(t, i)) = Len(t) + 1
        /\ Append(t, i)[Len(t) + 1] = i /\ \A j \in 1 .. Len(t) : Append(t, i)[j] = t[j]
    BY <1>6, <2>1
  <2>3. \A j : j \in 1 .. Len(t) + 1 <=> j = Len(t) + 1 \/ j \in 1 .. Len(t)
    BY <2>1
  <2>4. Listed(Append(t, i)) = Listed(t) \cup {i}
    BY <2>2, <2>3, Zenon DEF Listed
  <2> QED BY <2>1, <2>2, <2>4, Zenon
<1>12. /\ stage_sequences' \in Seq(Seq(Nat)) /\ Len(stage_sequences') = current_stage_index + 1
       /\ stage_sequences'[k + 1] = Append(t, i)
       /\ \A l \in 0 .. current_stage_index : l # k => stage_sequences'[l + 1] = stage_sequences[l + 1]
  <2>1. PICK x : x = Append(t, i)
    BY Zenon
  <2>2. x \in Seq(Nat) /\ stage_sequences' = [stage_sequences EXCEPT ![k + 1] = x]
    BY <1>5, <1>10, <1>11, <2>1, Zenon
  <2>3. \A l \in 0 .. current_stage_index : l # k => l + 1 # k + 1 /\ l + 1 \in 1 .. Len(stage_sequences)
    BY <1>4, <1>6
  <2> QED BY <1>6, <2>1, <2>2, <2>3
<1>13. BuilderTypeOK'
  <2>1. threads' \in Seq({"spawned", "running", "ended"})
    BY <1>5, <1>6
  <2> QED BY <1>1, <1>5, <1>6, <1>8, <1>9, <1>12, <2>1, Zenon DEF BuilderTypeOK
<1>14. StagesInv' /\ CoresInv'
  BY <1>1, <1>5, Zenon DEF StagesInv, CoresInv, InStage, Declaring
<1>15. ASSUME NEW l \in 0 .. current_stage_index
       PROVE  Listed(stage_sequences'[l + 1]) = {j \in InStage(l) : j <= i}
  <2>1. Listed(stage_sequences[l + 1]) = {j \in InStage(l) : j <= building}
    BY <1>1, <1>3, <1>15 DEF WiredInv
  <2>2. InStage(l) \subseteq 1 .. Len(consumers)
    BY Zenon DEF InStage
  <2>3. \A j \in 1 .. Len(consumers) : j <= i <=> j = i \/ j <= building
    BY <1>2, <1>6
  <2>4. CASE l = k
    BY <1>7, <1>10, <1>11, <1>12, <2>1, <2>2, <2>3, <2>4, Zenon
  <2>5. CASE l # k
    <3>1. i \notin InStage(l)
      BY <1>2, <2>5, Zenon DEF InStage
    <3> QED BY <1>12, <1>15, <2>1, <2>2, <2>3, <2>5, <3>1, Zenon
  <2> QED BY <2>4, <2>5, Zenon
<1>16. ASSUME NEW j \in 1 .. i
       PROVE  /\ dependent_sequences'[j] = InStage(consumers[j].stage - 1)
              /\ run_mode'[j] = stage_run_modes(consumers[j].stage)
  <2>1. CASE j = i
    BY <1>2, <1>8, <1>9, <2>1, Zenon
  <2>2. CASE j # i
    <3>1. j \in 1 .. building
      BY <1>2, <1>6, <2>2
    <3>2. /\ dependent_sequences[j] = InStage(consumers[j].stage - 1)
          /\ run_mode[j] = stage_run_modes(consumers[j].stage)
      BY <1>1, <1>3, <3>1, Zenon DEF WiredInv
    <3> QED BY <1>8, <1>9, <3>1, <3>2, Zenon
  <2> QED BY <2>1, <2>2, Zenon
<1>17. WiredInv'
  <2>1. /\ \A l : InStage(l)' = InStage(l) /\ stage_run_modes(l)' = stage_run_modes(l)
    BY <1>5 DEF InStage, stage_run_modes
  <2>2. i <= Len(consumers) /\ ~Declaring' /\ typestate' # "built"
    BY <1>3, <1>5, <1>6 DEF Declaring
  <2>3. /\ \A l \in 0 .. current_stage_index' :
              Listed(stage_sequences'[l + 1]) = {j \in InStage(l)' : j <= building'}
        /\ \A j \in 1 .. building' :
              /\ dependent_sequences'[j] = InStage(consumers[j].stage - 1)'
              /\ run_mode'[j] = stage_run_modes(consumers[j].stage)'
    BY <1>5, <1>15, <1>16, <2>1, Zenon
  <2>4. /\ building' <= Len(consumers') /\ Len(dependent_sequences') = building'
        /\ Len(run_mode') = building' /\ Len(stage_sequences') = current_stage_index' + 1
    BY <1>5, <1>8, <1>9, <1>12, <2>2, Zenon
  <2> QED BY <2>2, <2>3, <2>4, Zenon DEF WiredInv
<1> QED BY <1>13, <1>14, <1>17, Zenon DEF BuilderInv

\* A failed spawn ends build, and a thread that pins itself changes only its own state.
LEMMA ThreadsKeepBuilderInv ==
    ASSUME BuilderInv,
           SpawnFails \/ DropStarted \/ \E i \in 1 .. Len(threads) : start_consumer_thread(i)
    PROVE  BuilderInv'
<1>1. BuilderTypeOK /\ StagesInv /\ CoresInv /\ WiredInv
  BY Zenon DEF BuilderInv
<1>2. /\ consumers' = consumers /\ asked' = asked
      /\ current_cpu_affinity' = current_cpu_affinity
      /\ current_stage_index' = current_stage_index
      /\ building' = building /\ dependent_sequences' = dependent_sequences
      /\ stage_sequences' = stage_sequences /\ run_mode' = run_mode /\ gating' = gating
  BY Zenon DEF SpawnFails, DropStarted, start_consumer_thread, declVars, startVars
<1>3. typestate' = typestate \/ typestate' = "unwinding" \/ typestate' = "panicked"
  BY Zenon DEF SpawnFails, DropStarted, start_consumer_thread
<1>4. threads' \in Seq({"spawned", "running", "ended"})
  <2>1. threads \in Seq({"spawned", "running", "ended"})
    BY <1>1, Zenon DEF BuilderTypeOK
  <2>2. CASE SpawnFails \/ DropStarted
    BY <2>1, <2>2, Zenon DEF SpawnFails, DropStarted, startVars
  <2>3. ASSUME NEW i \in 1 .. Len(threads), start_consumer_thread(i)
        PROVE  threads' \in Seq({"spawned", "running", "ended"})
    <3>1. PICK x \in {"spawned", "running", "ended"} : threads' = [threads EXCEPT ![i] = x]
      <4>1. threads' = [threads EXCEPT ![i] = "running"] \/ threads' = [threads EXCEPT ![i] = "ended"]
        BY <2>3, Zenon DEF start_consumer_thread
      <4> QED BY <4>1
    <3> QED BY <2>1, <3>1
  <2> QED BY <2>2, <2>3, Zenon
<1>5. BuilderTypeOK'
  <2>1. typestate' \in {"NoConsumers", "HasConsumers", "Dependent", "starting", "unwinding",
                        "built", "panicked"}
    BY <1>1, <1>3, Zenon DEF BuilderTypeOK
  <2> QED BY <1>1, <1>2, <1>4, <2>1, Zenon DEF BuilderTypeOK
<1>6. StagesInv' /\ CoresInv'
  <2>1. \A s \in {"NoConsumers", "HasConsumers", "Dependent", "starting", "built"} :
           typestate' = s => typestate = s
    BY <1>3
  <2>2. StagesInv'
    BY <1>1, <1>2, <2>1, Zenon DEF StagesInv, InStage
  <2>3. CoresInv'
    BY <1>1, <1>2, <2>1, Zenon DEF CoresInv, Declaring
  <2> QED BY <2>2, <2>3
<1>7. WiredInv'
  <2>1. CASE typestate' = typestate
    <3>1. \A k : InStage(k)' = InStage(k) /\ stage_run_modes(k)' = stage_run_modes(k)
      BY <1>2, SameConsumersSameStages, Zenon
    <3> QED BY <1>1, <1>2, <2>1, <3>1, Zenon DEF WiredInv, Declaring
  <2>2. CASE typestate' # typestate
    BY <1>3, <2>2 DEF WiredInv, Declaring
  <2> QED BY <2>1, <2>2, Zenon
<1> QED BY <1>5, <1>6, <1>7, Zenon DEF BuilderInv

\* The last assignment of build gates the producer on the whole of the last stage.
LEMMA GatingKeepsBuilderInv ==
    ASSUME BuilderInv, add_gating_sequences
    PROVE  BuilderInv'
<1>1. BuilderTypeOK /\ StagesInv /\ CoresInv /\ WiredInv
  BY Zenon DEF BuilderInv
<1>2. /\ typestate = "starting" /\ building = Len(consumers) /\ typestate' = "built"
      /\ gating' = Listed(stage_sequences[Len(stage_sequences)])
      /\ consumers' = consumers /\ asked' = asked
      /\ current_cpu_affinity' = current_cpu_affinity
      /\ current_stage_index' = current_stage_index
      /\ building' = building /\ dependent_sequences' = dependent_sequences
      /\ stage_sequences' = stage_sequences /\ run_mode' = run_mode /\ threads' = threads
  BY Zenon DEF add_gating_sequences, declVars
<1>3. BuilderTypeOK'
  BY <1>1, <1>2, Zenon DEF BuilderTypeOK
<1>4. StagesInv' /\ CoresInv'
  <2>1. StagesInv'
    BY <1>1, <1>2, Zenon DEF StagesInv, InStage
  <2>2. CoresInv'
    BY <1>1, <1>2, Zenon DEF CoresInv, Declaring
  <2> QED BY <2>1, <2>2
<1>5. gating' = InStage(current_stage_index)
  <2>1. /\ Len(stage_sequences) = current_stage_index + 1
        /\ \A k \in 0 .. current_stage_index :
              Listed(stage_sequences[k + 1]) = {i \in InStage(k) : i <= building}
    BY <1>1, <1>2 DEF WiredInv
  <2>2. Len(consumers) \in Nat /\ current_stage_index \in 0 .. current_stage_index
    <3>1. Len(consumers) \in Nat /\ current_stage_index \in Nat
      BY <1>1, ConsumerFields, Zenon
    <3> QED BY <3>1
  <2>3. gating' = {i \in InStage(current_stage_index) : i <= building}
    BY <1>2, <2>1, <2>2, Zenon
  <2>4. InStage(current_stage_index) \subseteq 1 .. Len(consumers)
    BY Zenon DEF InStage
  <2>5. \A i \in 1 .. Len(consumers) : i <= Len(consumers)
    BY <2>2
  <2> QED BY <1>2, <2>3, <2>4, <2>5, Zenon
<1>6. WiredInv'
  <2>1. \A k : InStage(k)' = InStage(k) /\ stage_run_modes(k)' = stage_run_modes(k)
    BY <1>2, SameConsumersSameStages, Zenon
  <2>2. ~Declaring' /\ typestate \in {"starting", "built"}
    BY <1>2 DEF Declaring
  <2> QED BY <1>1, <1>2, <1>5, <2>1, <2>2, Zenon DEF WiredInv
<1> QED BY <1>3, <1>4, <1>6, Zenon DEF BuilderInv

\* The invariant gives the property: the count of a stage says whether it is shared.
LEMMA BuilderInvGivesBuiltAsDeclared ==
    ASSUME BuilderInv
    PROVE  BuiltAsDeclared
<1>1. BuilderTypeOK /\ StagesInv /\ CoresInv /\ WiredInv
  BY Zenon DEF BuilderInv
<1>2. typestate # "asserted"
  BY <1>1 DEF BuilderTypeOK
<1>3. SUFFICES ASSUME typestate = "built"
               PROVE  /\ gating = InStage(current_stage_index) /\ Stages = 0 .. current_stage_index
                      /\ \A i \in 1 .. Len(consumers) :
                            /\ dependent_sequences[i] = InStage(consumers[i].stage - 1)
                            /\ consumers[i].cpu = asked[i]
                            /\ run_mode[i] = "WorkPool" <=>
                                  \E j \in InStage(consumers[i].stage) \ {i} :
                                     /\ consumers[i].access = "Mutable"
                                     /\ consumers[j].access = "Mutable"
  BY <1>2, Zenon DEF BuiltAsDeclared
<1>4. gating = InStage(current_stage_index) /\ building = Len(consumers)
  BY <1>1, <1>3, Zenon DEF WiredInv
<1>5. Stages = 0 .. current_stage_index
  <2>1. InStage(current_stage_index) # {}
    BY <1>1, <1>3, Zenon DEF StagesInv
  <2> QED BY <1>1, <2>1, StagesAreContiguous, Zenon
<1>6. ASSUME NEW i \in 1 .. Len(consumers)
      PROVE  /\ dependent_sequences[i] = InStage(consumers[i].stage - 1)
             /\ consumers[i].cpu = asked[i]
             /\ run_mode[i] = "WorkPool" <=>
                   \E j \in InStage(consumers[i].stage) \ {i} :
                      consumers[i].access = "Mutable" /\ consumers[j].access = "Mutable"
  <2>1. /\ dependent_sequences[i] = InStage(consumers[i].stage - 1)
        /\ run_mode[i] = stage_run_modes(consumers[i].stage)
    BY <1>1, <1>3, <1>4, <1>6, Zenon DEF WiredInv
  <2>2. consumers[i].cpu = asked[i]
    BY <1>1, <1>6, Zenon DEF CoresInv
  <2>3. PICK S : S = InStage(consumers[i].stage)
    OBVIOUS
  <2>4. i \in S /\ S \in SUBSET (1 .. Len(consumers)) /\ Len(consumers) \in Nat
    BY <1>1, <1>6, <2>3, ConsumerFields, Zenon DEF InStage
  <2>5. \A j \in S : consumers[j].access = consumers[i].access
    BY <1>1, <1>6, <2>3, Zenon DEF StagesInv, InStage
  <2>6. run_mode[i] = "WorkPool" <=>
           (\E m, n \in S : m # n) /\ \E j \in S : consumers[j].access = "Mutable"
    <3>1. run_mode[i] = IF (\E m, n \in S : m # n) /\ \E j \in S : consumers[j].access = "Mutable"
                        THEN "WorkPool" ELSE "Sequential"
      BY <2>1, <2>3, Zenon DEF stage_run_modes
    <3> QED BY <3>1
  <2>7. (\E m, n \in S : m # n) <=> \E j \in S : j # i
    BY <2>4, Zenon
  <2>8. run_mode[i] = "WorkPool" <=>
           \E j \in S \ {i} : consumers[i].access = "Mutable" /\ consumers[j].access = "Mutable"
    BY <2>4, <2>5, <2>6, <2>7, Zenon
  <2> QED BY <2>1, <2>2, <2>3, <2>8, Zenon
<1> QED BY <1>4, <1>5, <1>6, Zenon

\* The builder's invariant: in every order of the calls, the stages are declared
\* without a gap, and build wires the consumers started so far as declared.
THEOREM BuilderInvariance == BuilderSpec => []BuilderInv
<1>1. BuilderInit => BuilderInv
  <2> SUFFICES ASSUME BuilderInit PROVE BuilderInv
    OBVIOUS
  <2>1. BuilderTypeOK
    BY DEF BuilderInit, build_single_producer, BuilderTypeOK
  <2>2. Len(consumers) = 0 /\ 1 .. Len(consumers) = {} /\ 0 .. current_stage_index - 1 = {}
    BY DEF BuilderInit, build_single_producer
  <2>3. StagesInv
    BY <2>2 DEF BuilderInit, build_single_producer, StagesInv
  <2>4. CoresInv
    BY <2>2 DEF BuilderInit, build_single_producer, CoresInv
  <2>5. WiredInv
    BY DEF BuilderInit, build_single_producer, WiredInv
  <2> QED BY <2>1, <2>3, <2>4, <2>5, Zenon DEF BuilderInv
<1>2. BuilderInv /\ [BuilderNext]_builderVars => BuilderInv'
  <2> SUFFICES ASSUME BuilderInv, [BuilderNext]_builderVars PROVE BuilderInv'
    OBVIOUS
  <2>1. CASE ConfigMethods \/ DependentConfig
    <3>1. Declaring
      BY <2>1 DEF ConfigMethods, DependentConfig, Declaring
    <3> QED BY <2>1, <3>1, PinningKeepsBuilderInv, Zenon DEF ConfigMethods, DependentConfig
  <2>2. CASE FirstHandlers \/ MoreHandlers \/ DependentHandlers
    <3>1. PICK access \in {"Mutable", "Readonly"} : push(access)
      BY <2>2, Zenon DEF FirstHandlers, MoreHandlers, DependentHandlers,
                         add_mut_closure, add_mut_handler, add_fanout
    <3> QED BY <3>1, PushKeepsBuilderInv, MixedAccessKeepsBuilderInv, Zenon
  <2>3. CASE and_then
    BY <2>3, AndThenKeepsBuilderInv, Zenon
  <2>4. CASE build_single \/ build_multi
    BY <2>4, BuildKeepsBuilderInv, Zenon DEF build_single, build_multi
  <2>5. CASE StartConsumer
    BY <2>5, StartingKeepsBuilderInv, Zenon
  <2>6. CASE SpawnFails \/ DropStarted \/ \E i \in 1 .. Len(threads) : start_consumer_thread(i)
    BY <2>6, ThreadsKeepBuilderInv, Zenon
  <2>7. CASE add_gating_sequences
    BY <2>7, GatingKeepsBuilderInv, Zenon
  <2>8. CASE UNCHANGED builderVars
    <3>1. /\ typestate' = typestate /\ consumers' = consumers /\ asked' = asked
          /\ current_cpu_affinity' = current_cpu_affinity
          /\ current_stage_index' = current_stage_index
          /\ building' = building /\ dependent_sequences' = dependent_sequences
          /\ stage_sequences' = stage_sequences /\ run_mode' = run_mode /\ gating' = gating
          /\ threads' = threads
      BY <2>8, Zenon DEF builderVars, declVars, startVars
    <3>2. BuilderTypeOK /\ StagesInv /\ CoresInv /\ WiredInv
      BY Zenon DEF BuilderInv
    <3>3. \A k : InStage(k)' = InStage(k) /\ stage_run_modes(k)' = stage_run_modes(k)
      BY <3>1 DEF InStage, stage_run_modes
    <3>4. BuilderTypeOK' /\ CoresInv'
      BY <3>1, <3>2, Zenon DEF BuilderTypeOK, CoresInv, Declaring
    <3>5. StagesInv'
      BY <3>1, <3>2, Zenon DEF StagesInv, InStage
    <3>6. WiredInv'
      BY <3>1, <3>2, <3>3, Zenon DEF WiredInv, Declaring
    <3> QED BY <3>4, <3>5, <3>6, Zenon DEF BuilderInv
  <2> QED BY <2>1, <2>2, <2>3, <2>4, <2>5, <2>6, <2>7, <2>8, Zenon DEF BuilderNext
<1> QED BY <1>1, <1>2, PTL DEF BuilderSpec

\* What build has wired is what was declared, for any number of consumers and stages.
THEOREM BuildsAsDeclared == BuilderSpec => []BuiltAsDeclared
<1>1. BuilderInv => BuiltAsDeclared
  BY BuilderInvGivesBuiltAsDeclared, Zenon
<1> QED BY <1>1, BuilderInvariance, PTL

=============================================================================
