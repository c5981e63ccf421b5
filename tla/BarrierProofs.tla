--------------------------- MODULE BarrierProofs ----------------------------
(***************************************************************************)
(* Theorems about Barrier, for every finite set of threads and every       *)
(* number of rounds.                                                       *)
(***************************************************************************)
EXTENDS Barrier, FiniteSetTheorems, TLAPS

(* The number of threads is a natural number. *)
LEMMA NType == N \in Nat
BY ThreadsAssumption, FS_CardinalityType DEF N

(* The threads that have arrived are finitely many, no more than N, and N  *)
(* only if every thread has arrived.                                       *)
LEMMA ArrivedBound ==
  /\ IsFiniteSet(Arrived)
  /\ Cardinality(Arrived) \in Nat
  /\ Cardinality(Arrived) <= N
  /\ Cardinality(Arrived) >= N => Arrived = Threads
<1>1. Arrived \in SUBSET Threads
  BY DEF Arrived
<1>2. /\ IsFiniteSet(Arrived)
      /\ Cardinality(Arrived) <= N
      /\ N = Cardinality(Arrived) => Threads = Arrived
  BY <1>1, ThreadsAssumption, FS_Subset DEF N
<1>3. Cardinality(Arrived) \in Nat
  BY <1>2, FS_CardinalityType
<1> QED
  BY <1>2, <1>3, NType

(* The initial states satisfy the inductive invariant. *)
LEMMA InitIInv == Init => IInv
<1> SUFFICES ASSUME Init PROVE IInv
  OBVIOUS
<1> USE DEF Init
<1>1. TypeOK
  BY NType, RoundsAssumption DEF TypeOK, PCs
<1>2. MutexInv
  BY ThreadsAssumption DEF MutexInv
<1>3. CountInv
  <2>1. Arrived = {}
    BY DEF Arrived
  <2> QED
    BY <2>1, FS_EmptySet DEF CountInv
<1>4. FullInv
  BY NType DEF FullInv
<1>5. RoundInv
  BY RoundsAssumption DEF RoundInv
<1> QED
  BY <1>1, <1>2, <1>3, <1>4, <1>5 DEF IInv

(* Actions that leave the set of arrived threads, the count and the number *)
(* of the round alone keep CountInv.                                       *)
LEMMA SameArrived ==
  ASSUME CountInv, Arrived' = Arrived, nreached' = nreached
  PROVE  CountInv'
BY DEF CountInv

(* Every step keeps the inductive invariant. *)
LEMMA NextIInv == IInv /\ [Next]_vars => IInv'
<1> SUFFICES ASSUME IInv, [Next]_vars PROVE IInv'
  OBVIOUS
<1> USE NType, RoundsAssumption, ThreadsAssumption
<1> USE DEF IInv
<1>1. ASSUME NEW t \in Threads, ReadRound(t) PROVE IInv'
  <2> USE <1>1 DEF ReadRound, Goto
  <2>1. TypeOK'
    BY DEF TypeOK, PCs
  <2>2. MutexInv'
    BY DEF MutexInv, TypeOK
  <2>3. Arrived' = Arrived
    BY DEF Arrived, TypeOK
  <2>4. FullInv'
    BY DEF FullInv, TypeOK
  <2>5. RoundInv'
    BY DEF RoundInv, TypeOK
  <2> QED
    BY <2>1, <2>2, <2>3, <2>4, <2>5, SameArrived
<1>2. ASSUME NEW t \in Threads, Lock(t) PROVE IInv'
  <2> USE <1>2 DEF Lock, Goto
  <2>1. Arrived' = Arrived \cup {t} /\ t \notin Arrived
    BY DEF Arrived, TypeOK
  <2>2. CountInv'
    BY <2>1, ArrivedBound, FS_AddElement DEF CountInv
  <2>3. nreached' \in 0..N
    <3>1. Arrived' \in SUBSET Threads
      BY DEF Arrived
    <3>2. Cardinality(Arrived') <= N
      BY <3>1, FS_Subset DEF N
    <3> QED
      BY <2>2, <3>2 DEF CountInv, TypeOK
  <2>4. TypeOK'
    BY <2>3 DEF TypeOK, PCs
  <2>5. MutexInv'
    BY DEF MutexInv, TypeOK
  <2>6. FullInv'
    BY DEF FullInv, TypeOK
  <2>7. RoundInv'
    BY DEF RoundInv, TypeOK
  <2> QED
    BY <2>2, <2>4, <2>5, <2>6, <2>7
<1>3. ASSUME NEW t \in Threads, Wait(t) PROVE IInv'
  <2> USE <1>3 DEF Wait, Goto
  <2>1. TypeOK'
    BY DEF TypeOK, PCs
  <2>2. MutexInv'
    BY DEF MutexInv, TypeOK
  <2>3. Arrived' = Arrived
    BY DEF Arrived, TypeOK
  <2>4. FullInv'
    BY DEF FullInv, TypeOK, MustWait
  <2>5. RoundInv'
    BY DEF RoundInv, TypeOK
  <2> QED
    BY <2>1, <2>2, <2>3, <2>4, <2>5, SameArrived
<1>4. ASSUME NEW t \in Threads, Leave(t), curr[t] = round PROVE IInv'
  <2> USE <1>4 DEF Leave, Goto
  <2>1. Arrived = Threads
    BY ArrivedBound DEF MustWait, CountInv, TypeOK
  <2>2. \A u \in Threads : /\ pc[u] \in {"test", "wait", "relock"}
                           /\ curr[u] = round
                           /\ iter[u] = round
                           /\ iter[u] < Rounds
    BY <2>1 DEF Arrived, RoundInv
  <2>3. Arrived' = {}
    BY <2>2 DEF Arrived, TypeOK
  <2>4. CountInv'
    BY <2>3, FS_EmptySet DEF CountInv
  <2>5. TypeOK'
    BY <2>2 DEF TypeOK, PCs
  <2>6. MutexInv'
    BY DEF MutexInv, TypeOK
  <2>7. FullInv'
    BY DEF FullInv
  <2>8. RoundInv'
    BY <2>2 DEF RoundInv, TypeOK
  <2> QED
    BY <2>4, <2>5, <2>6, <2>7, <2>8
<1>5. ASSUME NEW t \in Threads, Leave(t), curr[t] # round PROVE IInv'
  <2> USE <1>5 DEF Leave, Goto
  <2>1. TypeOK'
    BY DEF TypeOK, PCs
  <2>2. MutexInv'
    BY DEF MutexInv, TypeOK
  <2>3. Arrived' = Arrived
    BY DEF Arrived, TypeOK
  <2>4. FullInv'
    <3>1. Arrived # Threads
      BY DEF Arrived
    <3>2. nreached < N
      BY <3>1, ArrivedBound DEF CountInv
    <3> QED
      BY <3>2 DEF FullInv, TypeOK
  <2>5. RoundInv'
    BY DEF RoundInv, TypeOK
  <2> QED
    BY <2>1, <2>2, <2>3, <2>4, <2>5, SameArrived
<1>6. ASSUME NEW t \in Threads, Unlock(t) PROVE IInv'
  <2> USE <1>6 DEF Unlock, Goto
  <2>1. TypeOK'
    BY DEF TypeOK, PCs
  <2>2. MutexInv'
    BY DEF MutexInv, TypeOK
  <2>3. Arrived' = Arrived
    BY DEF Arrived, TypeOK
  <2>4. FullInv'
    BY DEF FullInv, TypeOK
  <2>5. RoundInv'
    BY DEF RoundInv, TypeOK
  <2> QED
    BY <2>1, <2>2, <2>3, <2>4, <2>5, SameArrived
<1>7. ASSUME NEW t \in Threads, Broadcast(t) PROVE IInv'
  <2> USE <1>7 DEF Broadcast, NextPC
  <2>1. curr[t] = iter[t] /\ iter[t] < Rounds /\ iter[t] + 1 = round
    BY DEF RoundInv
  <2>2. /\ iter' = [iter EXCEPT ![t] = round]
        /\ pc'[t] = IF round < Rounds THEN "read" ELSE "done"
        /\ \A u \in Threads \ {t} :
             pc'[u] = IF pc[u] = "wait" THEN "relock" ELSE pc[u]
        /\ pc' \in [Threads -> PCs]
    BY <2>1 DEF TypeOK, PCs
  <2>3. TypeOK'
    BY <2>1, <2>2 DEF TypeOK
  <2>4. MutexInv'
    BY <2>2 DEF MutexInv, TypeOK
  <2>5. Arrived' = Arrived
    BY <2>2 DEF Arrived, TypeOK
  <2>6. FullInv'
    BY <2>2 DEF FullInv, TypeOK
  <2>7. RoundInv'
    BY <2>1, <2>2 DEF RoundInv, TypeOK
  <2> QED
    BY <2>3, <2>4, <2>5, <2>6, <2>7, SameArrived
<1>8. ASSUME NEW t \in Threads, SpuriousWakeup(t) PROVE IInv'
  <2> USE <1>8 DEF SpuriousWakeup, Goto
  <2>1. TypeOK'
    BY DEF TypeOK, PCs
  <2>2. MutexInv'
    BY DEF MutexInv, TypeOK
  <2>3. Arrived' = Arrived
    BY DEF Arrived, TypeOK
  <2>4. FullInv'
    BY DEF FullInv, TypeOK
  <2>5. RoundInv'
    BY DEF RoundInv, TypeOK
  <2> QED
    BY <2>1, <2>2, <2>3, <2>4, <2>5, SameArrived
<1>9. ASSUME NEW t \in Threads, Relock(t) PROVE IInv'
  <2> USE <1>9 DEF Relock, Goto
  <2>1. TypeOK'
    BY DEF TypeOK, PCs
  <2>2. MutexInv'
    BY DEF MutexInv, TypeOK
  <2>3. Arrived' = Arrived
    BY DEF Arrived, TypeOK
  <2>4. FullInv'
    BY DEF FullInv, TypeOK
  <2>5. RoundInv'
    BY DEF RoundInv, TypeOK
  <2> QED
    BY <2>1, <2>2, <2>3, <2>4, <2>5, SameArrived
<1>10. ASSUME UNCHANGED vars PROVE IInv'
  BY <1>10 DEF vars, TypeOK, MutexInv, CountInv, FullInv, RoundInv, Arrived
<1> QED
  BY <1>1, <1>2, <1>3, <1>4, <1>5, <1>6, <1>7, <1>8, <1>9, <1>10
     DEF Next, Step, Passed

(* IInv holds in every reachable state of the barrier. *)
THEOREM Invariance == Spec => []IInv
BY InitIInv, NextIInv, PTL DEF Spec

-----------------------------------------------------------------------------
(* The assertion of line 56 never fails. *)
THEOREM AssertNeverFails == Spec => []AssertHolds
<1>1. IInv => AssertHolds
  BY DEF IInv, RoundInv, AssertHolds
<1> QED
  BY <1>1, Invariance, PTL

(* The counters stay within their bounds. *)
THEOREM TypeCorrect == Spec => []TypeOK
<1>1. IInv => TypeOK
  BY DEF IInv
<1> QED
  BY <1>1, Invariance, PTL

(* A thread that is about to open the barrier knows that every thread is   *)
(* inside it, for its round.                                               *)
LEMMA OpenerSeesAll ==
  ASSUME IInv, NEW u \in Threads,
         pc[u] = "test", ~MustWait(u), curr[u] = round
  PROVE  \A t \in Threads : /\ pc[t] \in {"test", "wait", "relock"}
                            /\ iter[t] = round
<1>1. Arrived = Threads
  BY ArrivedBound, NType DEF IInv, TypeOK, CountInv, MustWait
<1> QED
  BY <1>1 DEF Arrived, IInv, RoundInv

(* The unlocked read of bstate.round is never concurrent with round++. *)
THEOREM NoDataRace == Spec => []ReadIsNotRacy
<1>1. IInv => ReadIsNotRacy
  BY OpenerSeesAll DEF ReadIsNotRacy
<1> QED
  BY <1>1, Invariance, PTL

(* A round is closed only when every thread is inside barrier() for it. *)
THEOREM RoundsAreClosedByAll == Spec => RoundAdvances
<1>1. IInv /\ [Next]_vars =>
        [round' # round => /\ round' = round + 1
                           /\ \A t \in Threads :
                                /\ pc[t] \in {"test", "wait", "relock"}
                                /\ iter[t] = round]_vars
  <2> SUFFICES ASSUME IInv, [Next]_vars, round' # round
               PROVE  /\ round' = round + 1
                      /\ \A t \in Threads :
                           /\ pc[t] \in {"test", "wait", "relock"}
                           /\ iter[t] = round
    OBVIOUS
  <2>1. PICK u \in Threads : Leave(u) /\ curr[u] = round
    BY DEF Next, Step, Passed, vars, ReadRound, Lock, Wait, Leave, Unlock,
           Broadcast, SpuriousWakeup, Relock
  <2> QED
    BY <2>1, OpenerSeesAll DEF Leave
<1> QED
  BY <1>1, Invariance, PTL DEF Spec, RoundAdvances

(* A thread asleep on a closed round is always woken: the last broadcast   *)
(* for its round is still to come.                                         *)
THEOREM WakeupsAreNotLost == Spec => []NoLostWakeup
<1>1. Init => NoLostWakeup
  BY DEF Init, NoLostWakeup
<1>2. IInv /\ NoLostWakeup /\ [Next]_vars => NoLostWakeup'
  <2> SUFFICES ASSUME IInv, NoLostWakeup, [Next]_vars,
                      NEW t \in Threads, pc'[t] = "wait", (curr[t] # round)'
               PROVE  \E u \in Threads : pc'[u] \in {"unlock", "broadcast"}
    BY DEF NoLostWakeup
  <2> USE DEF IInv, TypeOK, Goto
  <2>1. CASE \E u \in Threads : Leave(u)
    <3>1. PICK u \in Threads : Leave(u)
      BY <2>1
    <3>2. pc'[u] = "unlock"
      BY <3>1 DEF Leave
    <3> QED
      BY <3>2
  <2>2. CASE \E u \in Threads : Broadcast(u)
    BY <2>2 DEF Broadcast, NextPC
  <2>3. CASE \E u \in Threads : \/ ReadRound(u) \/ Lock(u) \/ Wait(u)
                                \/ Unlock(u) \/ Relock(u)
                                \/ SpuriousWakeup(u)
    <3>1. PICK v \in Threads : \/ ReadRound(v) \/ Lock(v) \/ Wait(v)
                               \/ Unlock(v) \/ Relock(v)
                               \/ SpuriousWakeup(v)
      BY <2>3
    <3>2. pc[t] = "wait" /\ curr[t] # round
      BY <3>1 DEF ReadRound, Lock, Wait, Unlock, Relock, SpuriousWakeup,
                  MustWait
    <3>3. PICK u \in Threads : pc[u] \in {"unlock", "broadcast"}
      BY <3>2 DEF NoLostWakeup
    <3>4. pc'[u] \in {"unlock", "broadcast"}
      BY <3>1, <3>3 DEF ReadRound, Lock, Wait, Unlock, Relock,
                        SpuriousWakeup
    <3> QED
      BY <3>4
  <2>4. CASE UNCHANGED vars
    BY <2>4 DEF vars, NoLostWakeup
  <2> QED
    BY <2>1, <2>2, <2>3, <2>4 DEF Next, Step, Passed
<1> QED
  BY <1>1, <1>2, Invariance, PTL DEF Spec

-----------------------------------------------------------------------------
(* The code implements the abstract rendezvous: a thread returns from its  *)
(* k-th call of barrier() only after all have made theirs.                 *)
THEOREM Refinement == Spec => ImplementsRendezvous
<1> DEFINE B == [t \in Threads |-> IF Inside(t) THEN iter[t] + 1 ELSE iter[t]]
<1>1. Init => Abs!Init
  BY DEF Init, Abs!Init, Inside
<1>2. IInv /\ [Next]_vars => [Abs!Next]_(Abs!vars)
  <2> SUFFICES ASSUME IInv, [Next]_vars
               PROVE  Abs!Next \/ UNCHANGED Abs!vars
    OBVIOUS
  <2> USE DEF IInv, TypeOK, Goto
  <2>1. ASSUME NEW t \in Threads, Lock(t) PROVE Abs!Next
    <3> USE <2>1 DEF Lock
    <3>1. B[t] = iter[t] /\ iter[t] < Rounds
      BY DEF Inside, RoundInv
    <3>2. iter' = iter /\ pc' = [pc EXCEPT ![t] = "test"]
      OBVIOUS
    <3>3. B' = [B EXCEPT ![t] = @ + 1]
      BY <3>1, <3>2 DEF Inside
    <3>4. Abs!Begin(t)
      BY <3>1, <3>2, <3>3 DEF Abs!Begin
    <3> QED
      BY <3>4 DEF Abs!Next
  <2>2. ASSUME NEW t \in Threads, Broadcast(t) PROVE Abs!Next
    <3> USE <2>2 DEF Broadcast, NextPC
    <3>1. B[t] = iter[t] + 1 /\ iter[t] + 1 = round
      BY DEF Inside, RoundInv
    <3>2. \A u \in Threads : B[u] >= round
      <4> TAKE u \in Threads
      <4>1. CASE pc[u] \in {"read", "lock", "done"}
        BY <4>1, RoundsAssumption DEF Inside, RoundInv
      <4>2. CASE Inside(u)
        BY <4>2, RoundsAssumption DEF Inside, RoundInv
      <4> QED
        BY <4>1, <4>2 DEF PCs, Inside, RoundInv
    <3>3. iter' = [iter EXCEPT ![t] = @ + 1]
      OBVIOUS
    <3>4. \A u \in Threads : /\ u # t => (Inside(u)' <=> Inside(u))
                             /\ u = t => Inside(u) /\ ~Inside(u)'
      BY DEF Inside
    <3>5. B' = B
      BY <3>3, <3>4
    <3>6. Abs!End(t)
      BY <3>1, <3>2, <3>3, <3>5, RoundsAssumption DEF Abs!End
    <3> QED
      BY <3>6 DEF Abs!Next
  <2>3. ASSUME NEW t \in Threads,
               \/ ReadRound(t) \/ Wait(t) \/ Leave(t)
               \/ Unlock(t) \/ Relock(t) \/ SpuriousWakeup(t)
        PROVE  UNCHANGED Abs!vars
    <3>1. iter' = iter
      BY <2>3 DEF ReadRound, Wait, Leave, Unlock, Relock, SpuriousWakeup
    <3>2. \A u \in Threads : Inside(u)' <=> Inside(u)
      BY <2>3 DEF ReadRound, Wait, Leave, Unlock, Relock, SpuriousWakeup,
                  Inside
    <3> QED
      BY <3>1, <3>2 DEF Abs!vars
  <2>4. CASE UNCHANGED vars
    BY <2>4 DEF vars, Abs!vars, Inside
  <2> QED
    BY <2>1, <2>2, <2>3, <2>4 DEF Next, Step, Passed
<1> QED
  BY <1>1, <1>2, Invariance, PTL DEF Spec, ImplementsRendezvous, Abs!Spec
=============================================================================
