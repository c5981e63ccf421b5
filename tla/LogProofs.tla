------------------------------ MODULE LogProofs -----------------------------
(***************************************************************************)
(* Theorems about Log, for all blocks, contents and processes and all      *)
(* sizes of the log.                                                       *)
(***************************************************************************)
EXTENDS Log, FiniteSetTheorems, TLAPS

USE SizeAssumption, NoneAssumption DEF SizeAssumption, NoneAssumption

(* The system calls in progress are finitely many. *)
LEMMA InOpFinite == IsFiniteSet(InOp) /\ Cardinality(InOp) \in Nat
<1>1. InOp \in SUBSET Procs
  BY DEF InOp
<1> QED
  BY <1>1, ProcsAssumption, FS_Subset, FS_CardinalityType DEF ProcsAssumption

(* Steps that leave the system calls in progress alone keep CountInv. *)
LEMMA SameInOp ==
  ASSUME CountInv, InOp' = InOp, outstanding' = outstanding
  PROVE  CountInv'
BY DEF CountInv

(* The initial states satisfy the inductive invariant. *)
LEMMA InitIInv == Init => IInv
<1> SUFFICES ASSUME Init PROVE IInv
  OBVIOUS
<1> USE DEF Init, MemoryInit
<1>1. TypeOK
  <2>1. <<>> \in Seq(Blocks) /\ Len(<<>>) = 0
    OBVIOUS
  <2>2. /\ pc \in [Procs -> PCs]
        /\ buf \in [Procs -> Blocks \cup {None}]
        /\ wrote \in [Procs -> SUBSET Blocks]
    BY DEF PCs
  <2>3. /\ cache \in [Blocks -> Values \cup {None}]
        /\ pin \in [Blocks -> 0..1]
    OBVIOUS
  <2>4. outstanding \in Nat /\ committing \in BOOLEAN
    OBVIOUS
  <2>5. tail \in 0..LOGSIZE
    OBVIOUS
  <2> QED
    BY <2>1, <2>2, <2>3, <2>4, <2>5 DEF TypeOK
<1>2. HoldInv
  BY DEF HoldInv
<1>3. CountInv
  <2>1. InOp = {}
    BY DEF InOp
  <2> QED
    BY <2>1, FS_EmptySet DEF CountInv
<1>4. CommitInv
  BY DEF CommitInv, CommitAlone, Committing, InOp
<1>5. BootInv /\ HeadInv /\ PinInv /\ DirtyInv
  BY DEF BootInv, HeadInv, IsInjective, PinInv, DirtyInv
<1>6. RecoveryInv /\ PhaseInv
  BY DEF RecoveryInv, PhaseInv
<1> QED
  BY <1>1, <1>2, <1>3, <1>4, <1>5, <1>6 DEF IInv

-----------------------------------------------------------------------------
(* One lemma for each action: it keeps the inductive invariant.            *)

(* A step that moves processes between "idle", "begin" and "asleep" only   *)
(* touches nothing the invariant speaks of.                                *)
LEMMA Waiters ==
  ASSUME IInv, UNCHANGED <<disk, memory, buf, kernel>>,
         kernel = "up",
         pc' \in [Procs -> PCs], wrote' \in [Procs -> SUBSET Blocks],
         \A q \in Procs : \/ pc'[q] = pc[q]
                          \/ /\ pc[q] \in {"idle", "begin", "asleep"}
                             /\ pc'[q] \in {"idle", "begin", "asleep"}
  PROVE  IInv'
<1> USE DEF IInv, disk, memory
<1>1. TypeOK'
  BY DEF TypeOK
<1>2. HoldInv'
  BY DEF HoldInv
<1>3. InOp' = InOp
  BY DEF InOp
<1>4. CommitInv'
  BY <1>3 DEF CommitInv, CommitAlone, Committing
<1>5. BootInv' /\ HeadInv' /\ DirtyInv' /\ RecoveryInv'
  BY DEF BootInv, HeadInv, DirtyInv, RecoveryInv, Installed
<1>6. Installing' = Installing
  BY DEF Installing
<1>7. PinInv'
  BY <1>6 DEF PinInv
<1>8. PhaseInv'
  BY DEF PhaseInv, Installed
<1> QED
  BY <1>1, <1>2, <1>3, <1>4, <1>5, <1>7, <1>8, SameInOp

(* begin_op() lets a system call in. *)
LEMMA BeginOpInv == ASSUME IInv, NEW p \in Procs, BeginOp(p) PROVE IInv'
<1> USE DEF IInv, BeginOp, MayBegin, Goto, disk
<1>1. InOp' = InOp \cup {p} /\ p \notin InOp
  BY DEF InOp, TypeOK
<1>2. CountInv'
  BY <1>1, InOpFinite, FS_AddElement DEF CountInv
<1>3. TypeOK'
  BY DEF TypeOK, PCs
<1>4. HoldInv'
  BY DEF HoldInv, TypeOK
<1>5. CommitInv'
  BY DEF CommitInv, CommitAlone, Committing, TypeOK
<1>6. BootInv' /\ HeadInv' /\ DirtyInv' /\ RecoveryInv'
  BY DEF BootInv, HeadInv, DirtyInv, RecoveryInv, Installed
<1>7. Installing' = Installing
  BY DEF Installing, TypeOK
<1>8. PinInv'
  BY <1>7 DEF PinInv
<1>9. PhaseInv'
  BY DEF PhaseInv, Installed, TypeOK
<1> QED
  BY <1>2, <1>3, <1>4, <1>5, <1>6, <1>8, <1>9

(* No process commits while a system call is in progress. *)
LEMMA NotCommitting ==
  ASSUME IInv, NEW p \in Procs, pc[p] = "op"
  PROVE  /\ ~committing
         /\ \A q \in Procs : pc[q] \notin Committing
BY DEF IInv, CommitInv, CommitAlone, InOp

(* A system call modifies a block. *)
LEMMA ModifyInv ==
  ASSUME IInv, NEW p \in Procs, NEW b \in Blocks, NEW v \in Values,
         Modify(p, b, v)
  PROVE  IInv'
<1> USE DEF IInv, Modify, disk
<1>1. \A q \in Procs : pc[q] \notin Committing
  BY NotCommitting
<1>2. TypeOK'
  BY DEF TypeOK
<1>3. HoldInv'
  BY DEF HoldInv, TypeOK
<1>4. InOp' = InOp
  BY DEF InOp
<1>5. CommitInv'
  BY <1>4 DEF CommitInv, CommitAlone
<1>6. BootInv' /\ HeadInv' /\ RecoveryInv'
  BY DEF BootInv, HeadInv, RecoveryInv, Installed
<1>7. Installing' = Installing
  BY DEF Installing
<1>8. PinInv'
  BY <1>7 DEF PinInv, TypeOK
<1>9. DirtyInv'
  BY DEF DirtyInv, TypeOK
<1>10. PhaseInv'
  BY <1>1 DEF PhaseInv, Committing
<1> QED
  BY <1>2, <1>3, <1>4, <1>5, <1>6, <1>8, <1>9, <1>10, SameInOp

(* log_write() records the block and pins its buffer. *)
LEMMA LogWriteInv == ASSUME IInv, NEW p \in Procs, LogWrite(p) PROVE IInv'
<1> USE DEF IInv, LogWrite, disk
<1>1. /\ \A q \in Procs : pc[q] \notin Committing
      /\ ~Installing
  BY NotCommitting DEF Installing, Committing
<1>2. buf[p] \in Blocks /\ cache[buf[p]] # None
  BY DEF TypeOK, HoldInv
<1>3. InOp' = InOp /\ Installing' = Installing
  BY DEF InOp, Installing
<1>4. HoldInv'
  BY DEF HoldInv, TypeOK
<1>5. CommitInv'
  BY <1>3 DEF CommitInv, CommitAlone
<1>6. CASE buf[p] \in Logged
  <2> USE <1>6
  <2>1. UNCHANGED <<lh, pin>>
    OBVIOUS
  <2>2. TypeOK'
    BY <2>1 DEF TypeOK
  <2>3. BootInv' /\ HeadInv' /\ RecoveryInv'
    BY <2>1 DEF BootInv, HeadInv, RecoveryInv, Installed
  <2>4. pin[buf[p]] = 1
    BY <1>1, <1>2 DEF PinInv, Logged, Range
  <2>5. PinInv' /\ DirtyInv'
    BY <2>1, <2>4, <1>3 DEF PinInv, DirtyInv, TypeOK
  <2>6. PhaseInv'
    BY <1>1, <2>1 DEF PhaseInv, Committing
  <2> QED
    BY <2>2, <2>3, <2>5, <2>6, <1>3, <1>4, <1>5, SameInOp
<1>7. CASE buf[p] \notin Logged
  <2> USE <1>7
  <2>1. lh' = Append(lh, buf[p])
    OBVIOUS
  <2>2. /\ lh' \in Seq(Blocks)
        /\ Len(lh') = Len(lh) + 1
        /\ DOMAIN lh' = 1..(Len(lh) + 1)
        /\ DOMAIN lh = 1..Len(lh)
        /\ Len(lh) \in Nat
        /\ lh'[Len(lh) + 1] = buf[p]
        /\ \A i \in 1..Len(lh) : lh'[i] = lh[i]
    BY <1>2, <2>1 DEF TypeOK
  <2>3. pin[buf[p]] = 0
    BY <1>1, <1>2 DEF PinInv, Logged, Range, TypeOK
  <2>4. TypeOK'
    <3>1. pin' \in [Blocks -> 0..1]
      <4>1. pin \in [Blocks -> 0..1] /\ pin' = [pin EXCEPT ![buf[p]] = 1]
        BY <1>2, <2>3 DEF TypeOK
      <4>2. 1 \in 0..1
        OBVIOUS
      <4> HIDE DEF IInv, LogWrite
      <4> QED
        BY <4>1, <4>2, <1>2, Zenon
    <3>2. Len(lh') <= LOGSIZE
      BY <2>2 DEF TypeOK, TooBig
    <3>3. buf' \in [Procs -> Blocks \cup {None}]
      BY DEF TypeOK
    <3> QED
      BY <2>2, <3>1, <3>2, <3>3 DEF TypeOK
  <2>5. HeadInv'
    BY <2>2 DEF HeadInv, IsInjective, Logged, Range
  <2>6. BootInv' /\ RecoveryInv'
    BY DEF BootInv, RecoveryInv
  <2>7. PinInv'
    <3>1. PinInv
      OBVIOUS
    <3>2. pin' = [pin EXCEPT ![buf[p]] = 1]
      BY <1>2, <2>3 DEF TypeOK
    <3>3. ASSUME NEW b \in Blocks
          PROVE  /\ pin'[b] = 1 <=> \E i \in DOMAIN lh' : lh'[i] = b
                 /\ pin'[b] = 1 => cache'[b] # None
      <4>1. CASE b = buf[p]
        <5>1. pin \in [Blocks -> 0..1] /\ cache' = cache
          BY DEF TypeOK
        <5>2. pin'[b] = 1
          BY <4>1, <1>2, <3>2, <5>1, Zenon
        <5>3. Len(lh) + 1 \in DOMAIN lh'
          BY <2>2
        <5> QED
          BY <4>1, <1>2, <2>2, <5>1, <5>2, <5>3
      <4>2. CASE b # buf[p]
        <5>1. /\ pin[b] = 1 <=> \E i \in DOMAIN lh : lh[i] = b
              /\ pin[b] = 1 => cache[b] # None
          BY <1>1, <3>1 DEF PinInv
        <5>2. pin'[b] = pin[b] /\ cache'[b] = cache[b]
          <6>1. pin \in [Blocks -> 0..1] /\ cache' = cache
            BY DEF TypeOK
          <6> HIDE DEF IInv, LogWrite
          <6> QED
            BY <4>2, <3>2, <6>1
        <5>3. (\E i \in DOMAIN lh' : lh'[i] = b)
                <=> \E i \in DOMAIN lh : lh[i] = b
          <6> HIDE DEF IInv, LogWrite
          <6> QED
            BY <2>2, <4>2
        <5> QED
          BY <5>1, <5>2, <5>3
      <4> QED
        BY <4>1, <4>2
    <3> QED
      BY <1>1, <1>3, <3>3 DEF PinInv
  <2>8. DirtyInv'
    BY <1>2, <2>3 DEF DirtyInv, TypeOK
  <2>9. PhaseInv'
    BY <1>1 DEF PhaseInv, Committing
  <2> QED
    BY <2>4, <2>5, <2>6, <2>7, <2>8, <2>9, <1>3, <1>4, <1>5, SameInOp
<1> QED
  BY <1>6, <1>7

(* log_write() panics. *)
LEMMA LogWritePanicInv ==
  ASSUME IInv, NEW p \in Procs, LogWritePanic(p) PROVE IInv'
<1> USE DEF IInv, LogWritePanic, disk, memory, procs
<1>1. TypeOK' /\ HoldInv' /\ CountInv'
  BY DEF TypeOK, HoldInv, CountInv, InOp
<1>2. CommitInv' /\ BootInv' /\ HeadInv' /\ PinInv' /\ DirtyInv'
  BY DEF CommitInv, CommitAlone, InOp, BootInv, HeadInv, PinInv, Installing,
         DirtyInv
<1>3. RecoveryInv' /\ PhaseInv'
  BY DEF RecoveryInv, PhaseInv, Installed
<1> QED
  BY <1>1, <1>2, <1>3

(* end_op(), by the last process out or by another. *)
LEMMA EndOpInv == ASSUME IInv, NEW p \in Procs, EndOp(p) PROVE IInv'
<1> USE DEF IInv, EndOp, Goto, WakeupAndGoto, disk
<1>1. InOp' = InOp \ {p} /\ p \in InOp
  BY DEF InOp, TypeOK
<1>2. CountInv'
  BY <1>1, InOpFinite, FS_RemoveElement DEF CountInv
<1>3. /\ ~committing
      /\ \A q \in Procs : pc[q] \notin Committing
      /\ dhead = <<>> /\ tail = 0
  BY NotCommitting DEF PhaseInv
<1>4. outstanding = 1 => InOp = {p}
  <2>1. outstanding = 1 => \E q : InOp = {q}
    BY InOpFinite, FS_Singleton DEF CountInv
  <2> QED
    BY <1>1, <2>1
<1>5. TypeOK'
  <2>1. outstanding' \in Nat
    <3>1. Cardinality(InOp \ {p}) \in Nat
      BY InOpFinite, FS_RemoveElement, FS_CardinalityType
    <3> QED
      BY <1>1, <1>2, <3>1 DEF CountInv
  <2>2. pc' \in [Procs -> PCs]
    BY DEF TypeOK, PCs
  <2>3. wrote' \in [Procs -> SUBSET Blocks]
    BY DEF TypeOK
  <2>4. committing' \in BOOLEAN
    <3>1. committing' = TRUE \/ committing' = committing
      OBVIOUS
    <3> QED
      BY <3>1 DEF TypeOK
  <2>5. tail' = 0
    BY <1>3
  <2>6. 0 \in 0..LOGSIZE
    OBVIOUS
  <2> QED
    BY <2>1, <2>2, <2>3, <2>4, <2>5, <2>6 DEF TypeOK
<1>6. HoldInv'
  BY DEF HoldInv, TypeOK
<1>7. \A q \in Procs : pc'[q] \in Committing => q = p /\ outstanding = 1
  BY <1>3 DEF Committing, TypeOK
<1>8. CommitInv'
  <2>1. CASE outstanding = 1
    <3>1. InOp' = {}
      BY <1>1, <1>4, <2>1
    <3>2. pc'[p] \in Committing /\ committing'
      BY <2>1 DEF Committing, TypeOK
    <3> QED
      BY <1>7, <3>1, <3>2 DEF CommitInv, CommitAlone
  <2>2. CASE outstanding # 1
    BY <1>3, <1>7, <2>2 DEF CommitInv, CommitAlone
  <2> QED
    BY <2>1, <2>2
<1>9. BootInv' /\ HeadInv' /\ DirtyInv' /\ RecoveryInv'
  BY DEF BootInv, HeadInv, DirtyInv, RecoveryInv, Installed
<1>10. ~Installing /\ ~Installing'
  BY <1>3 DEF Installing, Committing, TypeOK
<1>11. PinInv'
  BY <1>10 DEF PinInv
<1>12. PhaseInv'
  <2>1. CASE outstanding = 1
    <3>1. /\ tail' = 0 /\ dhead' = <<>> /\ committing'
          /\ pc'[p] = IF lh = <<>> THEN "finish" ELSE "copy"
      BY <2>1, <1>3 DEF TypeOK
    <3>2. lh \in Seq(Blocks) /\ lh' = lh /\ (lh # <<>> => 0 < Len(lh))
      BY DEF TypeOK
    <3> HIDE DEF EndOp, IInv
    <3> QED
      BY <1>7, <3>1, <3>2 DEF PhaseInv, Committing
  <2>2. CASE outstanding # 1
    BY <1>3, <1>7, <2>2 DEF PhaseInv, Committing
  <2> QED
    BY <2>1, <2>2
<1> QED
  BY <1>2, <1>5, <1>6, <1>8, <1>9, <1>11, <1>12

(* What holds of the process that commits. *)
LEMMA Committer ==
  ASSUME IInv, NEW p \in Procs, pc[p] \in Committing
  PROVE  /\ committing /\ InOp = {}
         /\ \A q \in Procs : pc[q] \in Committing => q = p
         /\ \A q \in Procs : buf[q] = None
         /\ \A b \in Blocks : cache[b] \notin {None, home[b]} => pin[b] = 1
<1> USE DEF IInv
<1>1. committing /\ InOp = {} /\ \A q \in Procs : pc[q] \in Committing => q = p
  BY DEF CommitInv, CommitAlone
<1>2. \A q \in Procs : buf[q] = None
  BY <1>1 DEF HoldInv, InOp, TypeOK
<1> QED
  BY <1>1, <1>2 DEF DirtyInv

(* write_log() copies one block to the log. *)
LEMMA WriteLogInv == ASSUME IInv, NEW p \in Procs, WriteLog(p) PROVE IInv'
<1> USE DEF IInv, WriteLog, Goto, Block, View
<1>1. /\ \A q \in Procs : pc[q] \in Committing => q = p
      /\ committing
  BY Committer DEF Committing
<1>2. /\ dhead = <<>> /\ tail < Len(lh) /\ tail \in Nat /\ Len(lh) \in Nat
      /\ lh \in Seq(Blocks) /\ Len(lh) <= LOGSIZE
      /\ \A i \in 1..tail : slot[i] = cache[lh[i]]
  BY DEF PhaseInv, TypeOK
<1>3. /\ lh[tail + 1] \in Blocks /\ tail + 1 \in DOMAIN lh
      /\ tail + 1 \in 1..LOGSIZE
  BY <1>2
<1>4. Installing = FALSE /\ Installing' = FALSE
  BY <1>1 DEF Installing, Committing, TypeOK
<1>5. cache[lh[tail + 1]] # None
  BY <1>3, <1>4 DEF PinInv
<1>6. /\ cache' = cache
      /\ slot' = [slot EXCEPT ![tail + 1] = cache[lh[tail + 1]]]
  BY <1>3, <1>5 DEF TypeOK
<1>7. TypeOK'
  <2>1. slot' \in [1..LOGSIZE -> Values]
    <3>1. cache[lh[tail + 1]] \in Values
      BY <1>3, <1>5 DEF TypeOK
    <3> QED
      BY <1>3, <1>6, <3>1 DEF TypeOK
  <2>2. pc' \in [Procs -> PCs]
    BY DEF TypeOK, PCs
  <2>3. tail' \in 0..LOGSIZE
    BY <1>2, <1>3
  <2> QED
    BY <1>6, <2>1, <2>2, <2>3 DEF TypeOK
<1>8. HoldInv'
  BY <1>6 DEF HoldInv, TypeOK
<1>9. InOp' = InOp
  BY DEF InOp, TypeOK
<1>10. \A q \in Procs : pc'[q] \in Committing <=> pc[q] \in Committing
  BY DEF Committing, TypeOK
<1>11. CommitInv'
  BY <1>9, <1>10 DEF CommitInv, CommitAlone
<1>12. BootInv' /\ HeadInv' /\ DirtyInv' /\ RecoveryInv'
  BY <1>6 DEF BootInv, HeadInv, DirtyInv, RecoveryInv
<1>13. PinInv'
  BY <1>4, <1>6 DEF PinInv
<1>14. PhaseInv'
  <2>1. \A i \in 1..(tail + 1) : slot'[i] = cache'[lh'[i]]
    <3> TAKE i \in 1..(tail + 1)
    <3>1. CASE i = tail + 1
      BY <3>1, <1>3, <1>6 DEF TypeOK
    <3>2. CASE i # tail + 1
      <4>1. i \in 1..tail
        BY <3>2, <1>2
      <4> QED
        BY <4>1, <3>2, <1>2, <1>6 DEF TypeOK
    <3> QED
      BY <3>1, <3>2
  <2>2. \A q \in Procs : q # p => pc'[q] \notin Committing
    BY <1>1, <1>10
  <2>3. CASE tail + 1 < Len(lh)
    <3>1. tail' = tail + 1 /\ pc'[p] = "copy" /\ lh' = lh /\ dhead' = <<>> /\ committing'
      BY <2>3, <1>1, <1>2
    <3> HIDE DEF IInv, WriteLog
    <3> QED
      BY <2>1, <2>2, <2>3, <3>1 DEF PhaseInv, Committing
  <2>4. CASE ~(tail + 1 < Len(lh))
    <3>1. /\ tail' = 0 /\ pc'[p] = "head" /\ lh' = lh /\ dhead' = <<>>
          /\ committing' /\ Len(lh) = tail + 1 /\ lh # <<>>
      BY <2>4, <1>1, <1>2 DEF TypeOK
    <3> HIDE DEF IInv, WriteLog
    <3> QED
      BY <2>1, <2>2, <3>1 DEF PhaseInv, Committing
  <2> QED
    BY <2>3, <2>4
<1> QED
  BY <1>7, <1>8, <1>9, <1>11, <1>12, <1>13, <1>14, SameInOp

(* write_head() commits. *)
LEMMA WriteHeadInv == ASSUME IInv, NEW p \in Procs, WriteHead(p) PROVE IInv'
<1> USE DEF IInv, WriteHead, Goto, memory
<1>1. /\ \A q \in Procs : pc[q] \in Committing => q = p
      /\ committing
  BY Committer DEF Committing
<1>2. TypeOK'
  BY DEF TypeOK, PCs
<1>3. HoldInv'
  BY DEF HoldInv, TypeOK
<1>4. InOp' = InOp
  BY DEF InOp, TypeOK
<1>5. \A q \in Procs : pc'[q] \in Committing <=> pc[q] \in Committing
  BY DEF Committing, TypeOK
<1>6. CommitInv'
  BY <1>4, <1>5 DEF CommitInv, CommitAlone
<1>7. BootInv' /\ HeadInv' /\ DirtyInv' /\ RecoveryInv'
  BY DEF BootInv, HeadInv, DirtyInv, RecoveryInv
<1>8. /\ dhead = <<>> /\ tail = 0 /\ lh # <<>> /\ lh \in Seq(Blocks)
      /\ \A i \in 1..Len(lh) : slot[i] = cache[lh[i]]
  BY DEF PhaseInv, TypeOK
<1>9. 0 < Len(lh)
  BY <1>8
<1>10. ~Installing
  BY <1>1 DEF Installing, Committing
<1>11. PinInv'
  <2>1. \A i \in DOMAIN lh : i > tail
    BY <1>8
  <2> QED
    BY <2>1, <1>10 DEF PinInv
<1>12. PhaseInv'
  <2>1. /\ pc'[p] = "install" /\ dhead' = lh' /\ tail' = 0 /\ lh' = lh
        /\ committing' /\ slot' = slot /\ cache' = cache
    BY <1>1, <1>8 DEF TypeOK
  <2>2. \A q \in Procs : q # p => pc'[q] \notin Committing
    BY <1>1, <1>5
  <2>3. \A i \in 1..Len(lh) : /\ ~(i <= 0)
                              /\ slot[i] = cache[lh[i]]
    BY <1>8
  <2> HIDE DEF IInv, WriteHead
  <2> QED
    BY <2>1, <2>2, <2>3, <1>9 DEF PhaseInv, Committing
<1> QED
  BY <1>2, <1>3, <1>4, <1>6, <1>7, <1>11, <1>12, SameInOp

(* One turn of install_trans() in a commit. *)
LEMMA InstallInv == ASSUME IInv, NEW p \in Procs, Install(p) PROVE IInv'
<1> USE DEF IInv, Install, InstallBlock, Goto, Block
<1>1. /\ \A q \in Procs : pc[q] \in Committing => q = p
      /\ committing
      /\ \A q \in Procs : buf[q] = None
      /\ \A b \in Blocks : cache[b] \notin {None, home[b]} => pin[b] = 1
  BY Committer DEF Committing
<1>2. /\ dhead = lh /\ tail < Len(lh) /\ tail \in Nat /\ Len(lh) \in Nat
      /\ lh \in Seq(Blocks) /\ DOMAIN lh = 1..Len(lh) /\ Len(lh) <= LOGSIZE
      /\ \A i \in 1..Len(lh) : /\ i <= tail => home[lh[i]] = slot[i]
                               /\ i > tail => slot[i] = cache[lh[i]]
  BY DEF PhaseInv, TypeOK
<1>3. /\ lh[tail + 1] \in Blocks /\ tail + 1 \in DOMAIN lh
      /\ tail + 1 \in 1..LOGSIZE /\ tail + 1 \in 1..Len(lh)
      /\ slot[tail + 1] \in Values
  BY <1>2 DEF TypeOK
<1>4. Installing
  BY DEF Installing
<1>5. pin[lh[tail + 1]] = 1
  BY <1>2, <1>3, <1>4 DEF PinInv
<1>6. \A i \in 1..Len(lh) : lh[i] = lh[tail + 1] => i = tail + 1
  BY <1>2, <1>3 DEF HeadInv, IsInjective
<1>7. /\ home \in [Blocks -> Values]
      /\ cache \in [Blocks -> Values \cup {None}]
      /\ pin \in [Blocks -> 0..1]
      /\ home' = [home EXCEPT ![lh[tail + 1]] = slot[tail + 1]]
      /\ cache' = [cache EXCEPT ![lh[tail + 1]] = slot[tail + 1]]
      /\ pin' = [pin EXCEPT ![lh[tail + 1]] = 0]
  BY <1>3, <1>5 DEF TypeOK
<1>8. TypeOK'
  <2>1. home' \in [Blocks -> Values] /\ cache' \in [Blocks -> Values \cup {None}]
    BY <1>3, <1>7
  <2>2. 0 \in 0..1
    OBVIOUS
  <2>3. pin' \in [Blocks -> 0..1]
    BY <1>3, <1>7, <2>2, Zenon
  <2>4. pc' \in [Procs -> PCs]
    BY DEF TypeOK, PCs
  <2>5. tail' \in 0..LOGSIZE
    BY <1>2, <1>3
  <2>6. lh' \in Seq(Blocks) /\ Len(lh') <= LOGSIZE
    <3>1. lh' = lh \/ lh' = <<>>
      OBVIOUS
    <3>2. <<>> \in Seq(Blocks) /\ Len(<<>>) <= LOGSIZE
      OBVIOUS
    <3> QED
      BY <1>2, <3>1, <3>2
  <2> QED
    BY <2>1, <2>3, <2>4, <2>5, <2>6 DEF TypeOK
<1>9. HoldInv'
  BY <1>1 DEF HoldInv
<1>10. InOp' = InOp
  BY DEF InOp, TypeOK
<1>11. \A q \in Procs : pc'[q] \in Committing <=> pc[q] \in Committing
  BY DEF Committing, TypeOK
<1>12. CommitInv'
  BY <1>10, <1>11 DEF CommitInv, CommitAlone
<1>13. BootInv' /\ RecoveryInv'
  BY DEF BootInv, RecoveryInv
<1>14. HeadInv'
  BY DEF HeadInv, IsInjective
<1>15. \A b \in Blocks : /\ b = lh[tail + 1] => pin'[b] = 0 /\ cache'[b] = home'[b]
                         /\ b # lh[tail + 1] => /\ pin'[b] = pin[b]
                                                /\ cache'[b] = cache[b]
                                                /\ home'[b] = home[b]
  BY <1>3, <1>7
<1>16. DirtyInv'
  BY <1>1, <1>15 DEF DirtyInv
<1>17. CASE tail + 1 < Len(lh)
  <2>1. /\ tail' = tail + 1 /\ lh' = lh /\ pc' = pc /\ dhead' = dhead
        /\ slot' = slot /\ committing'
    BY <1>1, <1>17
  <2>2. PinInv'
    <3>1. Installing'
      BY <1>4, <2>1 DEF Installing
    <3>2. ASSUME NEW b \in Blocks
          PROVE  /\ pin'[b] = 1 <=> \E i \in DOMAIN lh : lh[i] = b /\ i > tail + 1
                 /\ pin'[b] = 1 => cache'[b] # None
      <4>1. CASE b = lh[tail + 1]
        BY <4>1, <1>2, <1>6, <1>15
      <4>2. CASE b # lh[tail + 1]
        <5>1. /\ pin[b] = 1 <=> \E i \in DOMAIN lh : lh[i] = b /\ i > tail
              /\ pin[b] = 1 => cache[b] # None
          BY <1>4 DEF PinInv
        <5>2. \A i \in DOMAIN lh : lh[i] = b => (i > tail <=> i > tail + 1)
          BY <4>2, <1>2
        <5> QED
          BY <4>2, <5>1, <5>2, <1>15
      <4> QED
        BY <4>1, <4>2
    <3> QED
      BY <2>1, <3>1, <3>2 DEF PinInv
  <2>3. PhaseInv'
    <3>1. \A i \in 1..Len(lh) : /\ i <= tail + 1 => home'[lh[i]] = slot[i]
                                /\ i > tail + 1 => slot[i] = cache'[lh[i]]
      BY <1>2, <1>3, <1>6, <1>7
    <3>2. \A q \in Procs : q # p => pc'[q] \notin Committing
      BY <1>1, <1>11
    <3>3. pc'[p] = "install" /\ dhead' = lh' /\ tail' < Len(lh')
      BY <1>2, <1>17, <2>1
    <3> HIDE DEF IInv, Install
    <3> QED
      BY <2>1, <3>1, <3>2, <3>3 DEF PhaseInv, Committing
  <2> QED
    BY <2>2, <2>3, <1>8, <1>9, <1>10, <1>12, <1>13, <1>14, <1>16, SameInOp
<1>18. CASE ~(tail + 1 < Len(lh))
  <2>1. /\ tail' = 0 /\ lh' = <<>> /\ pc'[p] = "erase" /\ dhead' = lh
        /\ slot' = slot /\ committing' /\ Len(lh) = tail + 1
    <3>1. pc \in [Procs -> PCs] /\ tail' = 0 /\ lh' = <<>>
          /\ pc' = [pc EXCEPT ![p] = "erase"]
      BY <1>18 DEF TypeOK
    <3>2. Len(lh) = tail + 1
      <4>1. tail < Len(lh) /\ tail \in Nat /\ Len(lh) \in Nat
        BY <1>2
      <4> HIDE DEF IInv, Install
      <4> QED
        BY <4>1, <1>18
    <3>3. dhead' = lh /\ slot' = slot /\ committing'
      BY <1>1, <1>2
    <3> QED
      BY <3>1, <3>2, <3>3
  <2>2. PinInv'
    <3>1. \A b \in Blocks : pin'[b] = 0
      <4> TAKE b \in Blocks
      <4>1. CASE b = lh[tail + 1]
        BY <4>1, <1>15
      <4>2. CASE b # lh[tail + 1]
        <5>1. pin[b] = 1 <=> \E i \in DOMAIN lh : lh[i] = b /\ i > tail
          BY <1>4 DEF PinInv
        <5>2. pin[b] # 1
          BY <4>2, <5>1, <1>2, <2>1
        <5>3. pin[b] \in 0..1
          BY <1>7
        <5> QED
          BY <4>2, <5>2, <5>3, <1>15
      <4> QED
        BY <4>1, <4>2
    <3> QED
      BY <2>1, <3>1 DEF PinInv
  <2>3. PhaseInv'
    <3>1. \A i \in 1..Len(lh) : home'[lh[i]] = slot[i]
      BY <1>2, <1>3, <1>6, <1>7, <2>1
    <3>2. \A q \in Procs : q # p => pc'[q] \notin Committing
      BY <1>1, <1>11
    <3>3. Installed'
      BY <1>2, <2>1, <3>1 DEF Installed
    <3> HIDE DEF IInv, Install
    <3> QED
      BY <2>1, <3>2, <3>3 DEF PhaseInv, Committing
  <2> QED
    BY <2>2, <2>3, <1>8, <1>9, <1>10, <1>12, <1>13, <1>14, <1>16, SameInOp
<1> QED
  BY <1>17, <1>18

(* write_head() erases the transaction, which is installed. *)
LEMMA EraseHeadInv == ASSUME IInv, NEW p \in Procs, EraseHead(p) PROVE IInv'
<1> USE DEF IInv, EraseHead, Goto, memory
<1>1. /\ \A q \in Procs : pc[q] \in Committing => q = p
      /\ committing
  BY Committer DEF Committing
<1>2. lh = <<>> /\ tail = 0
  BY DEF PhaseInv
<1>3. TypeOK'
  BY DEF TypeOK, PCs
<1>4. HoldInv'
  BY DEF HoldInv, TypeOK
<1>5. InOp' = InOp
  BY DEF InOp, TypeOK
<1>6. \A q \in Procs : pc'[q] \in Committing <=> pc[q] \in Committing
  BY DEF Committing, TypeOK
<1>7. CommitInv'
  BY <1>5, <1>6 DEF CommitInv, CommitAlone
<1>8. BootInv' /\ HeadInv' /\ DirtyInv' /\ RecoveryInv'
  BY DEF BootInv, HeadInv, DirtyInv, RecoveryInv
<1>9. PinInv'
  BY <1>2 DEF PinInv
<1>10. PhaseInv'
  <2>1. /\ pc'[p] = "finish" /\ dhead' = <<>> /\ tail' = 0 /\ lh' = <<>>
        /\ committing'
    BY <1>1, <1>2 DEF TypeOK
  <2>2. \A q \in Procs : q # p => pc'[q] \notin Committing
    BY <1>1, <1>6
  <2> HIDE DEF IInv, EraseHead
  <2> QED
    BY <2>1, <2>2 DEF PhaseInv, Committing
<1> QED
  BY <1>3, <1>4, <1>5, <1>7, <1>8, <1>9, <1>10, SameInOp

(* end_op() clears log.committing. *)
LEMMA FinishCommitInv ==
  ASSUME IInv, NEW p \in Procs, FinishCommit(p) PROVE IInv'
<1> USE DEF IInv, FinishCommit, WakeupAndGoto, disk
<1>1. /\ \A q \in Procs : pc[q] \in Committing => q = p
      /\ committing /\ InOp = {}
  BY Committer DEF Committing
<1>2. lh = <<>> /\ tail = 0 /\ dhead = <<>>
  BY DEF PhaseInv
<1>3. TypeOK'
  BY DEF TypeOK, PCs
<1>4. InOp' = InOp
  BY DEF InOp, TypeOK
<1>5. HoldInv'
  BY DEF HoldInv, TypeOK
<1>6. \A q \in Procs : pc'[q] \notin Committing
  BY <1>1 DEF Committing, TypeOK
<1>7. CommitInv'
  BY <1>4, <1>6 DEF CommitInv, CommitAlone
<1>8. BootInv' /\ HeadInv' /\ DirtyInv' /\ RecoveryInv'
  BY DEF BootInv, HeadInv, DirtyInv, RecoveryInv, Installed
<1>9. PinInv'
  BY <1>2 DEF PinInv
<1>10. PhaseInv'
  BY <1>2, <1>6 DEF PhaseInv, Committing
<1> QED
  BY <1>3, <1>4, <1>5, <1>7, <1>8, <1>9, <1>10, SameInOp

(* A step that changes the cached copy of one clean block only.            *)
LEMMA CacheInv ==
  ASSUME IInv, NEW b \in Blocks, NEW c,
         c = None \/ c = home[b],
         c = None => pin[b] = 0 /\ \A p \in Procs : buf[p] # b,
         \A i \in DOMAIN lh : lh[i] = b /\ pin[b] = 1 => cache[b] = c,
         cache' = [cache EXCEPT ![b] = c],
         UNCHANGED <<disk, pin, lh, outstanding, committing, tail, procs, kernel>>
  PROVE  IInv'
<1> USE DEF IInv, disk, procs
<1>1. TypeOK'
  BY DEF TypeOK
<1>2. HoldInv'
  BY DEF HoldInv, TypeOK
<1>3. CountInv' /\ CommitInv'
  BY DEF CountInv, CommitInv, CommitAlone, InOp
<1>4. BootInv' /\ HeadInv' /\ RecoveryInv'
  BY DEF BootInv, HeadInv, RecoveryInv, Installed
<1>5. Installing' = Installing
  BY DEF Installing
<1>6. PinInv'
  BY <1>5 DEF PinInv, TypeOK
<1>7. DirtyInv'
  BY DEF DirtyInv, TypeOK
<1>8. \A i \in DOMAIN lh : pin[lh[i]] = 1 => cache'[lh[i]] = cache[lh[i]]
  BY DEF TypeOK
<1>9. PhaseInv'
  <2>1. ASSUME NEW p \in Procs, pc[p] \in {"copy", "head", "install"},
               NEW i \in DOMAIN lh, pc[p] = "install" => i > tail
        PROVE  cache'[lh[i]] = cache[lh[i]]
    <3>1. \A q \in Procs : pc[q] \in Committing => q = p
      BY <2>1, Committer DEF Committing
    <3>2. pc[p] = "install" <=> Installing
      BY <2>1, <3>1 DEF Installing, Committing
    <3>3. lh[i] \in Blocks
      BY DEF TypeOK
    <3>4. kernel \in {"up", "panic"}
      BY <2>1 DEF BootInv
    <3>5. pin[lh[i]] = 1
      BY <2>1, <3>2, <3>3, <3>4 DEF PinInv
    <3> QED
      BY <1>8, <3>5
  <2>2. /\ tail \in Nat /\ Len(lh) \in Nat /\ DOMAIN lh = 1..Len(lh)
        /\ PhaseInv
        /\ UNCHANGED <<home, dhead, slot, lh, tail, committing, pc, kernel>>
    BY DEF TypeOK
  <2>3. ASSUME NEW p \in Procs, pc[p] = "copy"
        PROVE  /\ dhead = <<>> /\ tail < Len(lh)
               /\ \A i \in 1..tail : slot[i] = cache'[lh[i]]
    <3>1. /\ dhead = <<>> /\ tail < Len(lh)
          /\ \A i \in 1..tail : slot[i] = cache[lh[i]]
      BY <2>2, <2>3 DEF PhaseInv
    <3>2. \A i \in DOMAIN lh : cache'[lh[i]] = cache[lh[i]]
      BY <2>1, <2>3
    <3>3. \A i \in 1..tail : i \in DOMAIN lh
      BY <2>2, <3>1
    <3> QED
      BY <3>1, <3>2, <3>3
  <2>4. ASSUME NEW p \in Procs, pc[p] = "head"
        PROVE  /\ dhead = <<>> /\ tail = 0 /\ lh # <<>>
               /\ \A i \in 1..Len(lh) : slot[i] = cache'[lh[i]]
    <3>1. \A i \in DOMAIN lh : cache'[lh[i]] = cache[lh[i]]
      BY <2>1, <2>4
    <3> QED
      BY <2>2, <2>4, <3>1 DEF PhaseInv
  <2>5. ASSUME NEW p \in Procs, pc[p] = "install"
        PROVE  /\ dhead = lh /\ tail < Len(lh)
               /\ \A i \in 1..Len(lh) : /\ i <= tail => home[lh[i]] = slot[i]
                                        /\ i > tail => slot[i] = cache'[lh[i]]
    <3>1. \A i \in DOMAIN lh : i > tail => cache'[lh[i]] = cache[lh[i]]
      BY <2>1, <2>5
    <3> QED
      BY <2>2, <2>5, <3>1 DEF PhaseInv
  <2> HIDE DEF IInv
  <2> QED
    BY <2>2, <2>3, <2>4, <2>5 DEF PhaseInv, Installed
<1> QED
  BY <1>1, <1>2, <1>3, <1>4, <1>6, <1>7, <1>9

(* A block is read into the cache. *)
LEMMA ReadInv == ASSUME IInv, NEW b \in Blocks, Read(b) PROVE IInv'
<1> USE DEF IInv, Read
<1>1. pin[b] # 1
  BY DEF PinInv
<1>2. home[b] # None
  BY DEF TypeOK
<1> QED
  BY <1>1, <1>2, CacheInv

(* A buffer is recycled. *)
LEMMA RecycleInv == ASSUME IInv, NEW b \in Blocks, Recycle(b) PROVE IInv'
<1> USE DEF Recycle
<1>1. \A i \in DOMAIN lh : lh[i] = b /\ pin[b] = 1 => cache[b] = None
  OBVIOUS
<1>2. cache' = [cache EXCEPT ![b] = None]
  OBVIOUS
<1>3. None = None => pin[b] = 0 /\ \A p \in Procs : buf[p] # b
  OBVIOUS
<1>4. UNCHANGED <<disk, pin, lh, outstanding, committing, tail, procs, kernel>>
  OBVIOUS
<1> HIDE DEF Recycle
<1> QED
  BY <1>1, <1>2, <1>3, <1>4, CacheInv, Zenon

(* A crash leaves the disk, and recovery to be done. *)
LEMMA CrashInv == ASSUME IInv, Crash PROVE IInv'
<1> USE DEF IInv, Crash, disk
<1>1. TypeOK'
  <2>1. <<>> \in Seq(Blocks) /\ Len(<<>>) <= LOGSIZE /\ 0 \in 0..1 /\ 0 \in 0..LOGSIZE
    OBVIOUS
  <2>2. /\ pc' \in [Procs -> PCs]
        /\ buf' \in [Procs -> Blocks \cup {None}]
        /\ wrote' \in [Procs -> SUBSET Blocks]
    BY DEF PCs
  <2>3. /\ cache' \in [Blocks -> Values \cup {None}]
        /\ pin' \in [Blocks -> 0..1]
    BY <2>1
  <2>4. outstanding' \in Nat /\ committing' \in BOOLEAN
    OBVIOUS
  <2> QED
    BY <2>1, <2>2, <2>3, <2>4 DEF TypeOK
<1>2. InOp' = {}
  BY DEF InOp
<1>3. HoldInv' /\ CountInv' /\ CommitInv'
  BY <1>2, FS_EmptySet DEF HoldInv, CountInv, CommitInv, CommitAlone, Committing
<1>4. BootInv' /\ HeadInv' /\ PinInv' /\ DirtyInv'
  BY DEF BootInv, HeadInv, IsInjective, PinInv, DirtyInv
<1>5. RecoveryInv' /\ PhaseInv'
  BY DEF RecoveryInv, PhaseInv
<1> QED
  BY <1>1, <1>3, <1>4, <1>5

(* While the kernel recovers no process runs and nothing cached is dirty.  *)
LEMMA Recovering ==
  ASSUME IInv, kernel \notin {"up", "panic"}
  PROVE  /\ \A p \in Procs : pc[p] = "idle" /\ buf[p] = None
         /\ \A b \in Blocks : pin[b] = 0 /\ cache[b] \in {None, home[b]}
<1>1. \A p \in Procs : pc[p] = "idle" /\ buf[p] = None
  BY DEF IInv, BootInv, HoldInv
<1>2. \A b \in Blocks : pin[b] = 0
  BY DEF IInv, BootInv
<1> QED
  BY <1>1, <1>2, NoneAssumption DEF IInv, DirtyInv, TypeOK

(* read_head(). *)
LEMMA ReadHeadInv == ASSUME IInv, ReadHead PROVE IInv'
<1> USE DEF IInv, ReadHead, disk, procs
<1>1. /\ \A p \in Procs : pc[p] = "idle"
      /\ lh = <<>> /\ tail = 0 /\ dhead \in Seq(Blocks)
  BY Recovering DEF RecoveryInv, TypeOK
<1>2. TypeOK' /\ HoldInv'
  BY DEF TypeOK, HoldInv
<1>3. CountInv' /\ CommitInv'
  BY DEF CountInv, CommitInv, CommitAlone, InOp
<1>4. BootInv' /\ HeadInv' /\ PinInv' /\ DirtyInv'
  BY DEF BootInv, HeadInv, PinInv, DirtyInv
<1>5. RecoveryInv'
  <2>1. CASE dhead = <<>>
    BY <1>1, <2>1 DEF RecoveryInv, Installed
  <2>2. CASE dhead # <<>>
    <3>1. 0 < Len(dhead)
      BY <1>1, <2>2
    <3> QED
      BY <1>1, <2>2, <3>1 DEF RecoveryInv
  <2> QED
    BY <2>1, <2>2
<1>6. PhaseInv'
  BY <1>1 DEF PhaseInv
<1> QED
  BY <1>2, <1>3, <1>4, <1>5, <1>6

(* One turn of install_trans() in recovery. *)
LEMMA RecoverInstallInv == ASSUME IInv, RecoverInstall PROVE IInv'
<1> USE DEF IInv, RecoverInstall, InstallBlock, Block, procs
<1>1. /\ \A p \in Procs : pc[p] = "idle" /\ buf[p] = None
      /\ \A b \in Blocks : pin[b] = 0 /\ cache[b] \in {None, home[b]}
  BY Recovering
<1>2. /\ dhead = lh /\ tail < Len(lh) /\ tail \in Nat /\ Len(lh) \in Nat
      /\ lh \in Seq(Blocks) /\ DOMAIN lh = 1..Len(lh) /\ Len(lh) <= LOGSIZE
      /\ \A i \in 1..tail : home[lh[i]] = slot[i]
  BY DEF RecoveryInv, TypeOK
<1>3. /\ lh[tail + 1] \in Blocks /\ tail + 1 \in 1..Len(lh)
      /\ slot[tail + 1] \in Values
  BY <1>2 DEF TypeOK
<1>4. /\ home \in [Blocks -> Values]
      /\ cache \in [Blocks -> Values \cup {None}]
      /\ home' = [home EXCEPT ![lh[tail + 1]] = slot[tail + 1]]
      /\ cache' = [cache EXCEPT ![lh[tail + 1]] = slot[tail + 1]]
      /\ pin' = pin
  BY <1>3 DEF TypeOK
<1>5. TypeOK'
  <2>1. home' \in [Blocks -> Values] /\ cache' \in [Blocks -> Values \cup {None}]
    BY <1>3, <1>4
  <2>2. tail' \in 0..LOGSIZE
    BY <1>2, <1>3
  <2>3. lh' \in Seq(Blocks) /\ Len(lh') <= LOGSIZE
    <3>1. lh' = lh \/ lh' = <<>>
      OBVIOUS
    <3>2. <<>> \in Seq(Blocks) /\ Len(<<>>) <= LOGSIZE
      OBVIOUS
    <3> QED
      BY <1>2, <3>1, <3>2
  <2> QED
    BY <1>4, <2>1, <2>2, <2>3 DEF TypeOK
<1>6. HoldInv'
  BY <1>1 DEF HoldInv
<1>7. CountInv' /\ CommitInv'
  BY DEF CountInv, CommitInv, CommitAlone, InOp
<1>8. BootInv' /\ HeadInv' /\ PinInv'
  BY DEF BootInv, HeadInv, IsInjective, PinInv
<1>9. DirtyInv'
  BY <1>1, <1>3, <1>4 DEF DirtyInv
<1>10. PhaseInv'
  BY <1>1 DEF PhaseInv
<1>11. \A i \in 1..(tail + 1) : home'[lh[i]] = slot[i]
  BY <1>2, <1>3, <1>4 DEF HeadInv, IsInjective
<1>12. RecoveryInv'
  <2>1. CASE tail + 1 < Len(lh)
    BY <1>2, <1>11, <2>1 DEF RecoveryInv
  <2>2. CASE ~(tail + 1 < Len(lh))
    <3>1. Len(lh) = tail + 1
      <4>1. tail < Len(lh) /\ tail \in Nat /\ Len(lh) \in Nat
        BY <1>2
      <4> HIDE DEF IInv, RecoverInstall
      <4> QED
        BY <4>1, <2>2
    <3>2. dhead' = lh /\ slot' = slot
      BY <1>2
    <3> QED
      BY <1>2, <1>11, <2>2, <3>1, <3>2 DEF RecoveryInv, Installed
  <2> QED
    BY <2>1, <2>2
<1> QED
  BY <1>5, <1>6, <1>7, <1>8, <1>9, <1>10, <1>12

(* write_head() ends recovery. *)
LEMMA ClearHeadInv == ASSUME IInv, ClearHead PROVE IInv'
<1> USE DEF IInv, ClearHead, memory, procs
<1>1. /\ \A p \in Procs : pc[p] = "idle"
      /\ lh = <<>> /\ tail = 0
      /\ \A b \in Blocks : pin[b] = 0
  BY Recovering DEF RecoveryInv
<1>2. TypeOK' /\ HoldInv'
  BY DEF TypeOK, HoldInv
<1>3. CountInv' /\ CommitInv'
  BY DEF CountInv, CommitInv, CommitAlone, InOp
<1>4. BootInv' /\ HeadInv' /\ PinInv' /\ DirtyInv'
  BY <1>1 DEF BootInv, HeadInv, PinInv, DirtyInv
<1>5. RecoveryInv' /\ PhaseInv'
  BY <1>1 DEF RecoveryInv, PhaseInv
<1> QED
  BY <1>2, <1>3, <1>4, <1>5

(* Every step keeps the inductive invariant. *)
LEMMA NextIInv == IInv /\ [Next]_vars => IInv'
<1> SUFFICES ASSUME IInv, [Next]_vars PROVE IInv'
  OBVIOUS
<1>1. ASSUME NEW p \in Procs, CallBeginOp(p) \/ BeginOpSleep(p) PROVE IInv'
  BY <1>1, Waiters DEF CallBeginOp, BeginOpSleep, Goto, IInv, TypeOK, PCs
<1>2. ASSUME UNCHANGED vars PROVE IInv'
  <2> USE <1>2 DEF vars, disk, memory, procs, IInv
  <2>1. TypeOK' /\ HoldInv' /\ CountInv' /\ CommitInv' /\ BootInv'
    BY DEF TypeOK, HoldInv, CountInv, InOp, CommitInv, CommitAlone, BootInv
  <2>2. HeadInv' /\ PinInv' /\ DirtyInv' /\ RecoveryInv' /\ PhaseInv'
    BY DEF HeadInv, PinInv, Installing, DirtyInv, RecoveryInv, PhaseInv,
           Installed
  <2> QED
    BY <2>1, <2>2
<1> QED
  BY <1>1, <1>2, BeginOpInv, ModifyInv, LogWriteInv, LogWritePanicInv,
     EndOpInv, WriteLogInv, WriteHeadInv, InstallInv, EraseHeadInv,
     FinishCommitInv, ReadInv, RecycleInv, CrashInv, ReadHeadInv,
     RecoverInstallInv, ClearHeadInv
     DEF Next, OpStep, CommitStep, Recovery

(* IInv holds in every reachable state, crashes and recoveries included. *)
THEOREM Invariance == Spec => []IInv
BY InitIInv, NextIInv, PTL DEF Spec

(* The types and bounds of the log hold. *)
THEOREM TypeCorrect == Spec => []TypeOK
<1>1. IInv => TypeOK
  BY DEF IInv
<1> QED
  BY <1>1, Invariance, PTL

(* A commit never overlaps a system call or another commit. *)
THEOREM CommitsAreAlone == Spec => []CommitAlone
<1>1. IInv => CommitAlone
  BY DEF IInv, CommitInv
<1> QED
  BY <1>1, Invariance, PTL

(* No modified buffer can be recycled before its block is installed. *)
THEOREM DirtyBuffersAreKept == Spec => []DirtyIsKept
<1>1. IInv => DirtyIsKept
  <2> SUFFICES ASSUME IInv, NEW b \in Blocks, kernel = "up",
                      cache[b] # None, cache[b] # home[b]
               PROVE  \/ b \in Logged /\ pin[b] = 1
                      \/ \E p \in Procs : buf[p] = b
    BY DEF DirtyIsKept
  <2>1. pin[b] = 1 \/ \E p \in Procs : buf[p] = b
    BY DEF IInv, DirtyInv
  <2>2. pin[b] = 1 => \E i \in DOMAIN lh : lh[i] = b
    BY DEF IInv, PinInv
  <2> QED
    BY <2>1, <2>2 DEF Logged, Range
<1> QED
  BY <1>1, Invariance, PTL

-----------------------------------------------------------------------------
(* The space that begin_op() reserves.                                     *)

(* A call may still take at most MAXOPBLOCKS places, and one that holds a  *)
(* block the log does not list may take one at least.                      *)
LEMMA UnusedBounds ==
  ASSUME TypeOK, WroteInv, NEW p \in Procs
  PROVE  /\ Unused(p) \in 0..MAXOPBLOCKS
         /\ buf[p] # None /\ buf[p] \notin Logged => Unused(p) \in 1..MAXOPBLOCKS
<1>1. /\ Cardinality(wrote[p]) \in Nat
      /\ Cardinality(wrote[p]) <= MAXOPBLOCKS
  BY FS_CardinalityType DEF WroteInv
<1>2. buf[p] # None => Cardinality(wrote[p]) # 0
  BY FS_EmptySet DEF WroteInv
<1> QED
  BY <1>1, <1>2 DEF Unused

(* There are finitely many places to reserve. *)
LEMMA PlacesFinite ==
  ASSUME NEW S \in SUBSET Procs, NEW R \in SUBSET (S \X (1..MAXOPBLOCKS))
  PROVE  /\ IsFiniteSet(R) /\ Cardinality(R) \in Nat
         /\ Cardinality(R) <= Cardinality(S) * MAXOPBLOCKS
<1>1. IsFiniteSet(1..MAXOPBLOCKS) /\ Cardinality(1..MAXOPBLOCKS) = MAXOPBLOCKS
  BY FS_Interval
<1>2. IsFiniteSet(S)
  BY ProcsAssumption, FS_Subset DEF ProcsAssumption
<1>3. /\ IsFiniteSet(S \X (1..MAXOPBLOCKS))
      /\ Cardinality(S \X (1..MAXOPBLOCKS)) = Cardinality(S) * MAXOPBLOCKS
  BY <1>1, <1>2, FS_Product
<1> QED
  BY <1>3, FS_Subset, FS_CardinalityType

LEMMA ReservedFinite == IsFiniteSet(Reserved) /\ Cardinality(Reserved) \in Nat
BY PlacesFinite DEF Reserved, InOp

(* A step that adds nothing to the log and no reserved place keeps the     *)
(* bound.                                                                  *)
LEMMA FewerReserved ==
  ASSUME TypeOK, SpaceIsReserved, lh' = lh, Reserved' \subseteq Reserved
  PROVE  SpaceIsReserved'
<1>1. /\ IsFiniteSet(Reserved')
      /\ Cardinality(Reserved') <= Cardinality(Reserved)
      /\ Cardinality(Reserved') \in Nat
  BY ReservedFinite, FS_Subset, FS_CardinalityType
<1>2. Len(lh) \in Nat /\ Cardinality(Reserved) \in Nat
  BY ReservedFinite DEF TypeOK
<1> QED
  BY <1>1, <1>2 DEF SpaceIsReserved

(* A step that leaves the log and the calls in progress alone keeps both.  *)
LEMMA SameSpace ==
  ASSUME TypeOK, SpaceInv, UNCHANGED <<lh, buf, wrote>>, InOp' = InOp
  PROVE  SpaceInv'
<1> USE DEF SpaceInv
<1>1. WroteInv'
  <2>1. \A p \in Procs : p \in InOp' <=> p \in InOp
    OBVIOUS
  <2> QED
    BY <2>1 DEF WroteInv, InOp, Logged
<1>2. Reserved' = Reserved
  BY DEF Reserved, Unused, Logged
<1> QED
  BY <1>1, <1>2, FewerReserved

(* With no call in progress nothing is reserved. *)
LEMMA NothingReserved ==
  ASSUME TypeOK', InOp' = {},
         \A p \in Procs : wrote'[p] = {} /\ buf'[p] = None
  PROVE  SpaceInv'
<1>1. WroteInv'
  BY FS_EmptySet DEF WroteInv
<1>2. Reserved' = {}
  BY DEF Reserved
<1>3. Cardinality(Reserved') = 0
  BY <1>2, FS_EmptySet
<1>4. Len(lh') \in Nat /\ Len(lh') <= LOGSIZE
  BY DEF TypeOK
<1> QED
  BY <1>1, <1>3, <1>4 DEF SpaceInv, SpaceIsReserved

(* begin_op() lets a call in when there is room for all its blocks. *)
LEMMA BeginOpSpace ==
  ASSUME IInv, SpaceInv, NEW p \in Procs, BeginOp(p)
  PROVE  SpaceInv'
<1> USE DEF IInv, SpaceInv
<1>1. WroteInv'
  BY DEF WroteInv, BeginOp, Goto, Logged, TypeOK
<1>2. CountInv'
  BY BeginOpInv
<1>3. /\ Cardinality(Reserved') <= Cardinality(InOp') * MAXOPBLOCKS
      /\ Cardinality(Reserved') \in Nat
  <2>1. InOp' \in SUBSET Procs /\ Reserved' \in SUBSET (InOp' \X (1..MAXOPBLOCKS))
    BY DEF InOp, Reserved
  <2> QED
    BY <2>1, PlacesFinite
<1>4. Cardinality(InOp') = outstanding'
  BY <1>2 DEF CountInv
<1>5. Len(lh') + outstanding' * MAXOPBLOCKS <= LOGSIZE
  BY DEF BeginOp, MayBegin
<1>6. outstanding' * MAXOPBLOCKS \in Nat /\ Len(lh') \in Nat
  BY DEF BeginOp, TypeOK
<1>7. SpaceIsReserved'
  <2> HIDE DEF IInv, SpaceInv
  <2> QED
    BY <1>3, <1>4, <1>5, <1>6 DEF SpaceIsReserved
<1> QED
  BY <1>1, <1>7

(* A block that a call modifies takes a place the call has reserved. *)
LEMMA ModifySpace ==
  ASSUME IInv, SpaceInv, NEW p \in Procs, NEW b \in Blocks, NEW v \in Values,
         Modify(p, b, v)
  PROVE  SpaceInv'
<1> USE DEF IInv, SpaceInv, Modify
<1>1. /\ wrote[p] \subseteq Logged /\ IsFiniteSet(wrote[p])
      /\ Cardinality(wrote[p]) \in Nat
  BY FS_CardinalityType DEF WroteInv, TypeOK
<1>2. /\ IsFiniteSet(wrote[p] \cup {b})
      /\ Cardinality(wrote[p] \cup {b})
           = IF b \in wrote[p] THEN Cardinality(wrote[p])
             ELSE Cardinality(wrote[p]) + 1
  BY <1>1, FS_AddElement
<1>3. /\ wrote' = [wrote EXCEPT ![p] = wrote[p] \cup {b}]
      /\ buf' = [buf EXCEPT ![p] = b]
      /\ buf[p] = None /\ pc[p] = "op"
      /\ Cardinality(wrote[p] \cup {b}) <= MAXOPBLOCKS
      /\ UNCHANGED <<lh, pc>>
      /\ wrote \in [Procs -> SUBSET Blocks]
      /\ buf \in [Procs -> Blocks \cup {None}]
  BY DEF TypeOK
<1>4. WroteInv'
  BY <1>1, <1>2, <1>3 DEF WroteInv, Logged
<1>5. Unused(p)' <= Unused(p)
  BY <1>1, <1>2, <1>3 DEF Unused, Logged
<1>6. \A q \in Procs \ {p} : Unused(q)' = Unused(q)
  BY <1>3 DEF Unused, Logged
<1>7. Unused(p) \in Nat /\ Unused(p)' \in Int
  BY <1>1, <1>2, <1>3, UnusedBounds DEF Unused
<1>8. Reserved' \subseteq Reserved
  <2>1. InOp' = InOp /\ InOp \subseteq Procs
    BY <1>3 DEF InOp
  <2>2. ASSUME NEW q \in InOp, NEW k \in 1..MAXOPBLOCKS, k <= Unused(q)'
        PROVE  k <= Unused(q)
    <3>1. CASE q = p
      BY <2>2, <3>1, <1>5, <1>7
    <3>2. CASE q # p
      BY <2>1, <2>2, <3>2, <1>6
    <3> QED
      BY <3>1, <3>2
  <2> HIDE DEF IInv, SpaceInv, Modify
  <2> QED
    BY <2>1, <2>2 DEF Reserved
<1> QED
  BY <1>3, <1>4, <1>8, FewerReserved

(* A block that log_write() adds to the log gives up a reserved place. *)
LEMMA LogWriteSpace ==
  ASSUME IInv, SpaceInv, NEW p \in Procs, LogWrite(p)
  PROVE  SpaceInv'
<1> USE DEF IInv, SpaceInv
<1>1. /\ buf[p] \in Blocks /\ buf[p] # None /\ pc[p] = "op"
      /\ buf' = [buf EXCEPT ![p] = None]
      /\ lh' = IF buf[p] \in Logged THEN lh ELSE Append(lh, buf[p])
      /\ UNCHANGED <<pc, wrote>>
      /\ buf \in [Procs -> Blocks \cup {None}]
      /\ lh \in Seq(Blocks)
  BY DEF LogWrite, TypeOK
<1>2. Logged' = Logged \cup {buf[p]}
  <2>1. CASE buf[p] \in Logged
    BY <1>1, <2>1 DEF Logged
  <2>2. CASE buf[p] \notin Logged
    <3>1. /\ DOMAIN lh = 1..Len(lh) /\ DOMAIN lh' = 1..(Len(lh) + 1)
          /\ Len(lh) \in Nat /\ lh'[Len(lh) + 1] = buf[p]
          /\ \A i \in 1..Len(lh) : lh'[i] = lh[i]
      BY <1>1, <2>2
    <3> HIDE DEF IInv, SpaceInv
    <3> QED
      BY <3>1 DEF Logged, Range
  <2> QED
    BY <2>1, <2>2
<1>3. WroteInv'
  BY <1>1, <1>2 DEF WroteInv
<1>4. InOp' = InOp /\ InOp \subseteq Procs /\ p \in InOp
  BY <1>1 DEF InOp
<1>5. \A q \in Procs : Cardinality(wrote[q]) \in Nat
  BY FS_CardinalityType DEF WroteInv
<1>6. \A q \in Procs : Unused(q)' <= Unused(q) /\ Unused(q)' \in Int
  BY <1>1, <1>2, <1>5 DEF Unused
<1>7. \A q \in Procs : Unused(q) \in Int
  BY UnusedBounds
<1>8. Reserved' \subseteq Reserved
  <2>1. \A q \in InOp : \A k \in 1..MAXOPBLOCKS :
          k <= Unused(q)' => k <= Unused(q)
    BY <1>4, <1>6, <1>7
  <2> HIDE DEF IInv, SpaceInv
  <2> QED
    BY <2>1, <1>4 DEF Reserved
<1>9. CASE buf[p] \in Logged
  BY <1>1, <1>3, <1>8, <1>9, FewerReserved
<1>10. CASE buf[p] \notin Logged
  <2>1. Unused(p)' = Unused(p) - 1
    BY <1>1, <1>2, <1>5, <1>10 DEF Unused
  <2>2. Unused(p) \in 1..MAXOPBLOCKS
    BY <1>1, <1>10, UnusedBounds
  <2> PICK r : r = <<p, Unused(p)>>
    OBVIOUS
  <2>3. r \in Reserved /\ r \notin Reserved'
    <3>1. r \in InOp \X (1..MAXOPBLOCKS) /\ r[1] = p /\ r[2] = Unused(p)
      BY <2>2, <1>4
    <3>2. r \in Reserved
      BY <3>1, <2>2 DEF Reserved
    <3>3. ~(r[2] <= Unused(r[1])')
      BY <3>1, <2>1, <2>2
    <3> QED
      BY <3>2, <3>3 DEF Reserved
  <2>4. Reserved' \in SUBSET (Reserved \ {r})
    BY <2>3, <1>8
  <2>5. /\ IsFiniteSet(Reserved \ {r})
        /\ Cardinality(Reserved \ {r}) = Cardinality(Reserved) - 1
    BY <2>3, ReservedFinite, FS_RemoveElement
  <2>6. /\ Cardinality(Reserved') <= Cardinality(Reserved) - 1
        /\ Cardinality(Reserved') \in Nat
    BY <2>4, <2>5, FS_Subset, FS_CardinalityType
  <2>7. Len(lh') = Len(lh) + 1 /\ Len(lh) \in Nat
    BY <1>1, <1>10
  <2>8. Len(lh) + Cardinality(Reserved) <= LOGSIZE /\ Cardinality(Reserved) \in Nat
    BY ReservedFinite DEF SpaceIsReserved
  <2> HIDE DEF IInv
  <2> QED
    BY <2>6, <2>7, <2>8, <1>3 DEF SpaceIsReserved
<1> QED
  BY <1>9, <1>10

(* end_op() gives up the places its call has not used. *)
LEMMA EndOpSpace ==
  ASSUME IInv, SpaceInv, NEW p \in Procs, EndOp(p)
  PROVE  SpaceInv'
<1> USE DEF IInv, SpaceInv, EndOp, Goto, WakeupAndGoto
<1>1. InOp' = InOp \ {p} /\ InOp \subseteq Procs
  BY DEF InOp, TypeOK
<1>2. WroteInv'
  <2>1. \A q \in Procs \ {p} : wrote'[q] = wrote[q] /\ (pc'[q] = "op" <=> pc[q] = "op")
    BY DEF TypeOK
  <2>2. wrote'[p] = {} /\ UNCHANGED <<buf, lh>> /\ buf[p] = None
    BY DEF TypeOK
  <2>3. Logged' = Logged
    BY DEF Logged
  <2>4. IsFiniteSet({}) /\ Cardinality({}) <= MAXOPBLOCKS
    BY FS_EmptySet
  <2>5. WroteInv
    OBVIOUS
  <2> HIDE DEF EndOp, IInv, SpaceInv
  <2> QED
    BY <2>1, <2>2, <2>3, <2>4, <2>5 DEF WroteInv
<1>3. \A q \in InOp' : Unused(q)' = Unused(q)
  BY <1>1 DEF Unused, Logged, TypeOK
<1>4. Reserved' \subseteq Reserved
  <2> HIDE DEF IInv, SpaceInv, EndOp
  <2> QED
    BY <1>1, <1>3 DEF Reserved
<1> QED
  BY <1>2, <1>4, FewerReserved

(* Every step keeps the space reserved. *)
LEMMA NextSpace == IInv /\ SpaceInv /\ [Next]_vars => SpaceInv'
<1> SUFFICES ASSUME IInv, SpaceInv, [Next]_vars PROVE SpaceInv'
  OBVIOUS
<1>1. TypeOK /\ TypeOK'
  BY NextIInv DEF IInv
<1>2. ASSUME NEW p \in Procs,
             \/ CallBeginOp(p) \/ BeginOpSleep(p) \/ LogWritePanic(p)
             \/ WriteLog(p) \/ WriteHead(p) \/ EraseHead(p) \/ FinishCommit(p)
      PROVE  SpaceInv'
  <2>1. UNCHANGED <<lh, buf, wrote>>
    BY <1>2 DEF CallBeginOp, BeginOpSleep, LogWritePanic, WriteLog, WriteHead,
                EraseHead, FinishCommit, memory, procs
  <2>2. InOp' = InOp
    BY <1>1, <1>2 DEF CallBeginOp, BeginOpSleep, LogWritePanic, WriteLog,
         WriteHead, EraseHead, FinishCommit, Goto, WakeupAndGoto, procs, InOp,
         TypeOK
  <2> QED
    BY <1>1, <2>1, <2>2, SameSpace
<1>3. ASSUME \/ \E b \in Blocks : Read(b) \/ Recycle(b)
             \/ ClearHead \/ UNCHANGED vars
      PROVE  SpaceInv'
  <2>1. UNCHANGED <<lh, buf, wrote, pc>>
    BY <1>3 DEF Read, Recycle, ClearHead, vars, memory, procs
  <2>2. InOp' = InOp
    BY <2>1 DEF InOp
  <2> QED
    BY <1>1, <2>1, <2>2, SameSpace
<1>4. ASSUME NEW p \in Procs, Install(p) PROVE SpaceInv'
  <2>1. InOp = {} /\ \A q \in Procs : buf[q] = None
    BY <1>4, Committer DEF Install, Committing
  <2>2. UNCHANGED <<buf, wrote>> /\ InOp' = {}
    BY <1>1, <1>4, <2>1 DEF Install, Goto, InOp, TypeOK
  <2>3. \A q \in Procs : wrote[q] = {}
    BY <2>1 DEF SpaceInv, WroteInv, InOp
  <2> QED
    BY <1>1, <2>1, <2>2, <2>3, NothingReserved
<1>5. ASSUME ReadHead \/ RecoverInstall PROVE SpaceInv'
  <2>1. \A q \in Procs : pc[q] = "idle" /\ buf[q] = None
    BY <1>5, Recovering DEF ReadHead, RecoverInstall
  <2>2. UNCHANGED procs
    BY <1>5 DEF ReadHead, RecoverInstall
  <2>3. InOp' = {} /\ \A q \in Procs : wrote'[q] = {} /\ buf'[q] = None
    BY <2>1, <2>2 DEF procs, InOp, SpaceInv, WroteInv
  <2> QED
    BY <1>1, <2>3, NothingReserved
<1>6. ASSUME Crash PROVE SpaceInv'
  <2>1. InOp' = {} /\ \A q \in Procs : wrote'[q] = {} /\ buf'[q] = None
    BY <1>6 DEF Crash, InOp
  <2> QED
    BY <1>1, <2>1, NothingReserved
<1> QED
  BY <1>2, <1>3, <1>4, <1>5, <1>6,
     BeginOpSpace, ModifySpace, LogWriteSpace, EndOpSpace
     DEF Next, OpStep, CommitStep, Recovery

(* begin_op() reserves enough: what the calls in progress may still write  *)
(* fits in the log beside what is logged.                                  *)
THEOREM SpaceIsKept == Spec => []SpaceIsReserved
<1>1. Init => SpaceInv
  <2> SUFFICES ASSUME Init PROVE SpaceInv
    OBVIOUS
  <2>1. InOp = {} /\ \A p \in Procs : wrote[p] = {} /\ buf[p] = None
    BY DEF Init, MemoryInit, InOp
  <2>2. WroteInv
    BY <2>1, FS_EmptySet DEF WroteInv
  <2>3. Reserved = {}
    BY <2>1 DEF Reserved
  <2>4. Cardinality(Reserved) = 0 /\ Len(lh) = 0
    BY <2>3, FS_EmptySet DEF Init, MemoryInit
  <2> QED
    BY <2>2, <2>4 DEF SpaceInv, SpaceIsReserved
<1> QED
  BY <1>1, NextSpace, Invariance, PTL DEF Spec, SpaceInv

-----------------------------------------------------------------------------
(* What recovery would make of the disk.                                   *)

(* Recovery takes a block the header lists from its slot. *)
LEMMA RecoveredSlot ==
  ASSUME IInv, NEW i \in DOMAIN dhead
  PROVE  dhead[i] \in Blocks /\ Recovered[dhead[i]] = slot[i]
<1>1. dhead[i] \in Blocks
  BY DEF IInv, TypeOK
<1>2. i \in InHead(dhead[i])
  BY DEF InHead
<1>3. \A j \in InHead(dhead[i]) : j = i
  BY DEF InHead, IInv, HeadInv, IsInjective
<1>4. (CHOOSE j \in InHead(dhead[i]) : TRUE) = i
  BY <1>2, <1>3
<1> QED
  BY <1>1, <1>2, <1>4 DEF Recovered

(* It leaves the others at home. *)
LEMMA RecoveredHome ==
  ASSUME NEW b \in Blocks, \A i \in DOMAIN dhead : dhead[i] # b
  PROVE  Recovered[b] = home[b]
BY DEF Recovered, InHead

(* With an empty header there is nothing to recover. *)
LEMMA NothingToRecover ==
  ASSUME TypeOK, dhead = <<>>
  PROVE  Recovered = home
<1>1. \A b \in Blocks : InHead(b) = {}
  BY DEF InHead
<1> QED
  BY <1>1 DEF Recovered, TypeOK

(* When everything is installed, recovery changes nothing. *)
LEMMA InstalledRecovered ==
  ASSUME IInv, Installed
  PROVE  Recovered = home
<1>1. ASSUME NEW b \in Blocks PROVE Recovered[b] = home[b]
  <2>1. CASE \E i \in DOMAIN dhead : dhead[i] = b
    BY <2>1, RecoveredSlot DEF Installed
  <2>2. CASE \A i \in DOMAIN dhead : dhead[i] # b
    BY <2>2, RecoveredHome
  <2> QED
    BY <2>1, <2>2
<1> QED
  BY <1>1 DEF Recovered, IInv, TypeOK

(* Installing a slot does not change what recovery gives. *)
LEMMA InstallKeepsRecovered ==
  ASSUME IInv, NEW i \in DOMAIN dhead,
         home' = [home EXCEPT ![dhead[i]] = slot[i]],
         dhead' = dhead, slot' = slot
  PROVE  Recovered' = Recovered
<1>1. ASSUME NEW b \in Blocks PROVE Recovered'[b] = Recovered[b]
  <2>1. InHead(b)' = InHead(b)
    BY DEF InHead
  <2>2. CASE InHead(b) = {}
    <3>1. b # dhead[i]
      BY <2>2 DEF InHead
    <3> QED
      BY <2>1, <2>2, <3>1 DEF Recovered, IInv, TypeOK
  <2>3. CASE InHead(b) # {}
    BY <2>1, <2>3 DEF Recovered
  <2> QED
    BY <2>2, <2>3
<1> QED
  BY <1>1 DEF Recovered

-----------------------------------------------------------------------------
(* System calls are atomic with respect to crashes: the log implements the *)
(* transactional disk.                                                     *)
THEOREM Refinement == Spec => ImplementsTransactionalDisk
<1> DEFINE Views == [b \in Blocks |-> View(b)]
           Current == IF kernel \in {"up", "panic"} THEN Views ELSE Recovered
           Same == Recovered' = Recovered /\ Current' = Current /\ InOp' = InOp
<1>1. Init => Abs!Init
  <2> SUFFICES ASSUME Init PROVE Abs!Init
    OBVIOUS
  <2>1. Recovered = home
    BY InitIInv, NothingToRecover DEF Init, IInv
  <2>2. InOp = {} /\ kernel = "read_head"
    BY DEF Init, MemoryInit, InOp
  <2> QED
    BY <2>1, <2>2 DEF Init, Abs!Init
<1>2. ASSUME UNCHANGED <<home, dhead, slot>>
      PROVE  Recovered' = Recovered
  BY <1>2 DEF Recovered, InHead
<1>3. ASSUME UNCHANGED <<home, cache>>
      PROVE  Views' = Views
  BY <1>3 DEF View
<1>4. ASSUME UNCHANGED pc
      PROVE  InOp' = InOp
  BY <1>4 DEF InOp
<1>5. Same => UNCHANGED Abs!vars
  BY DEF Abs!vars
<1>6. ASSUME IInv, NEW p \in Procs,
             CallBeginOp(p) \/ BeginOpSleep(p) \/ LogWrite(p)
      PROVE  Same
  <2>1. /\ UNCHANGED <<home, dhead, slot, cache, kernel>>
    BY <1>6 DEF CallBeginOp, BeginOpSleep, LogWrite, disk, memory
  <2>2. InOp' = InOp
    BY <1>6 DEF CallBeginOp, BeginOpSleep, LogWrite, Goto, InOp, IInv, TypeOK
  <2> QED
    BY <2>1, <2>2, <1>2, <1>3
<1>7. ASSUME IInv, NEW p \in Procs, LogWritePanic(p)
      PROVE  Same
  <2>1. UNCHANGED <<home, dhead, slot, cache, pc>> /\ kernel = "up" /\ kernel' = "panic"
    BY <1>7 DEF LogWritePanic, disk, memory, procs
  <2> QED
    BY <2>1, <1>2, <1>3, <1>4
<1>8. ASSUME IInv, NEW p \in Procs, BeginOp(p)
      PROVE  Abs!Begin(p)
  <2>1. UNCHANGED <<home, dhead, slot, cache, kernel>>
    BY <1>8 DEF BeginOp, disk
  <2>2. p \notin InOp /\ InOp' = InOp \cup {p}
    BY <1>8 DEF BeginOp, Goto, InOp, IInv, TypeOK
  <2> QED
    BY <2>1, <2>2, <1>2, <1>3 DEF Abs!Begin
<1>9. ASSUME IInv, NEW p \in Procs, NEW b \in Blocks, NEW v \in Values,
             Modify(p, b, v)
      PROVE  Abs!Update(p, b, v)
  <2>1. UNCHANGED <<home, dhead, slot, pc>> /\ kernel = "up" /\ kernel' = "up"
    BY <1>9 DEF Modify, disk
  <2>2. Views' = [Views EXCEPT ![b] = v]
    BY <1>9 DEF Modify, disk, View, IInv, TypeOK
  <2>3. p \in InOp
    BY <1>9 DEF Modify, InOp
  <2> QED
    BY <2>1, <2>2, <2>3, <1>2, <1>4 DEF Abs!Update
<1>10. ASSUME IInv, NEW p \in Procs, EndOp(p)
       PROVE  Abs!End(p)
  <2>1. UNCHANGED <<home, dhead, slot, cache, kernel>>
    BY <1>10 DEF EndOp, disk
  <2>2. p \in InOp /\ InOp' = InOp \ {p}
    BY <1>10 DEF EndOp, Goto, WakeupAndGoto, InOp, IInv, TypeOK
  <2> QED
    BY <2>1, <2>2, <1>2, <1>3 DEF Abs!End
<1>11. ASSUME IInv, NEW p \in Procs, WriteLog(p)
       PROVE  Same
  <2> USE <1>11 DEF WriteLog, Goto, Block
  <2>1. dhead = <<>> /\ dhead' = <<>> /\ home' = home /\ kernel' = kernel
    BY DEF IInv, PhaseInv
  <2>2. Recovered' = Recovered
    <3>1. \A b \in Blocks : InHead(b) = {} /\ InHead(b)' = {}
      BY <2>1 DEF InHead
    <3> QED
      BY <2>1, <3>1 DEF Recovered
  <2>3. \A b \in Blocks : View(b)' = View(b)
    <3>1. lh[tail + 1] \in Blocks
      BY DEF IInv, PhaseInv, TypeOK
    <3>2. View(lh[tail + 1]) # None
      BY <3>1 DEF View, IInv, TypeOK
    <3> QED
      BY <2>1, <3>1, <3>2 DEF View, IInv, TypeOK
  <2>4. InOp' = InOp
    BY DEF InOp, IInv, TypeOK
  <2> QED
    BY <2>1, <2>2, <2>3, <2>4
<1>12. ASSUME IInv, NEW p \in Procs, WriteHead(p)
       PROVE  Abs!Commit
  <2> USE <1>12 DEF WriteHead, Goto, memory
  <2>1. /\ kernel = "up" /\ kernel' = "up"
        /\ UNCHANGED <<home, slot, cache>>
        /\ dhead' = lh
    OBVIOUS
  <2>2. InOp = {} /\ InOp' = {}
    BY Committer DEF Committing, InOp, IInv, TypeOK
  <2>3. \A b \in Blocks : Recovered'[b] = View(b)
    <3> TAKE b \in Blocks
    <3>2. /\ \A i \in 1..Len(lh) : slot[i] = cache[lh[i]]
          /\ DOMAIN lh = 1..Len(lh)
          /\ tail = 0
      BY DEF IInv, PhaseInv, TypeOK
    <3>3. CASE \E i \in DOMAIN lh : lh[i] = b
      <4>1. PICK i \in DOMAIN lh : lh[i] = b
        BY <3>3
      <4>2. i > tail
        BY <3>2, <4>1
      <4>3. cache[b] # None
        BY <4>1, <4>2 DEF IInv, PinInv
      <4>4. Recovered'[b] = slot[i]
        <5>1. i \in InHead(b)' /\ \A j \in InHead(b)' : j = i
          BY <2>1, <4>1 DEF InHead, IInv, HeadInv, IsInjective
        <5>2. (CHOOSE j \in InHead(b)' : TRUE) = i
          BY <5>1
        <5> QED
          BY <2>1, <5>1, <5>2 DEF Recovered
      <4> QED
        BY <2>1, <3>2, <4>1, <4>3, <4>4 DEF View
    <3>4. CASE \A i \in DOMAIN lh : lh[i] # b
      <4>1. pin[b] # 1
        BY <3>4 DEF IInv, PinInv
      <4>2. cache[b] \in {None, home[b]}
        BY <4>1, Committer DEF Committing
      <4>3. InHead(b)' = {}
        BY <2>1, <3>4 DEF InHead
      <4>4. Recovered'[b] = home[b]
        BY <2>1, <4>3 DEF Recovered
      <4> QED
        BY <4>2, <4>4 DEF View
    <3> QED
      BY <3>3, <3>4
  <2>4. Recovered' = Views
    BY <2>3 DEF Recovered
  <2> QED
    BY <2>1, <2>2, <2>4, <1>3 DEF Abs!Commit
<1>13. ASSUME IInv, NEW p \in Procs, Install(p)
       PROVE  Same
  <2> USE <1>13 DEF Install, InstallBlock, Goto, Block
  <2>1. /\ dhead = lh /\ tail + 1 \in DOMAIN dhead
        /\ lh[tail + 1] \in Blocks
        /\ slot[tail + 1] = cache[lh[tail + 1]]
    BY DEF IInv, PhaseInv, TypeOK
  <2>2. Recovered' = Recovered
    BY <2>1, InstallKeepsRecovered
  <2>3. Installing
    BY DEF Installing
  <2>4. cache[lh[tail + 1]] # None
    BY <2>1, <2>3 DEF IInv, PinInv, TypeOK
  <2>5. \A b \in Blocks : View(b)' = View(b)
    BY <2>1, <2>4 DEF View, IInv, TypeOK
  <2>6. InOp' = InOp
    BY DEF InOp, IInv, TypeOK
  <2> QED
    BY <2>2, <2>5, <2>6
<1>14. ASSUME IInv, NEW p \in Procs, EraseHead(p)
       PROVE  Same
  <2> USE <1>14 DEF EraseHead, Goto, memory
  <2>1. Recovered = home
    BY InstalledRecovered DEF IInv, PhaseInv
  <2>2. dhead' = <<>> /\ home' = home
    BY DEF IInv, PhaseInv
  <2>3. Recovered' = home
    <3>1. \A b \in Blocks : InHead(b)' = {}
      BY <2>2 DEF InHead
    <3> QED
      BY <2>2, <3>1 DEF Recovered, IInv, TypeOK
  <2>4. InOp' = InOp
    BY DEF InOp, IInv, TypeOK
  <2> QED
    BY <2>1, <2>3, <2>4, <1>3
<1>15. ASSUME IInv, NEW p \in Procs, FinishCommit(p)
       PROVE  Same
  <2>1. UNCHANGED <<home, dhead, slot, cache, kernel>>
    BY <1>15 DEF FinishCommit, disk
  <2>2. InOp' = InOp
    BY <1>15 DEF FinishCommit, WakeupAndGoto, InOp, IInv, TypeOK
  <2> QED
    BY <2>1, <2>2, <1>2, <1>3
<1>16. ASSUME IInv, NEW b \in Blocks, Read(b) \/ Recycle(b)
       PROVE  Same
  <2>1. UNCHANGED <<home, dhead, slot, pc, kernel>>
    BY <1>16 DEF Read, Recycle, disk, procs
  <2>2. Views' = Views
    <3>1. cache[b] \in {None, home[b]} /\ cache'[b] \in {None, home[b]}
      BY <1>16 DEF Read, Recycle, IInv, DirtyInv, TypeOK
    <3>2. \A c \in Blocks : c # b => cache'[c] = cache[c]
      BY <1>16 DEF Read, Recycle, IInv, TypeOK
    <3> QED
      BY <2>1, <3>1, <3>2 DEF View
  <2> QED
    BY <2>1, <2>2, <1>2, <1>4
<1>17. ASSUME IInv, Crash
       PROVE  Abs!Crash
  <2>1. UNCHANGED <<home, dhead, slot>> /\ kernel' = "read_head"
    BY <1>17 DEF Crash, disk
  <2>2. InOp' = {}
    BY <1>17 DEF Crash, InOp
  <2> QED
    BY <2>1, <2>2, <1>2 DEF Abs!Crash
<1>18. ASSUME IInv, ReadHead
       PROVE  Same
  <2>1. UNCHANGED <<home, dhead, slot, pc>>
    BY <1>18 DEF ReadHead, disk, procs
  <2>2. kernel \notin {"up", "panic"} /\ kernel' \notin {"up", "panic"}
    BY <1>18 DEF ReadHead
  <2> QED
    BY <2>1, <2>2, <1>2, <1>4
<1>19. ASSUME IInv, RecoverInstall
       PROVE  Same
  <2> USE <1>19 DEF RecoverInstall, InstallBlock, Block, procs
  <2>1. kernel \notin {"up", "panic"} /\ kernel' \notin {"up", "panic"}
    OBVIOUS
  <2>2. dhead = lh /\ tail + 1 \in DOMAIN dhead
    BY DEF IInv, RecoveryInv, TypeOK
  <2>3. Recovered' = Recovered
    BY <2>2, InstallKeepsRecovered
  <2> QED
    BY <2>1, <2>3, <1>4
<1>20. ASSUME IInv, ClearHead
       PROVE  Same
  <2> USE <1>20 DEF ClearHead, memory, procs
  <2>1. Recovered = home
    BY InstalledRecovered DEF IInv, RecoveryInv
  <2>2. dhead' = <<>> /\ home' = home /\ home \in [Blocks -> Values]
    BY DEF IInv, RecoveryInv, TypeOK
  <2>3. Recovered' = home
    <3>1. \A b \in Blocks : InHead(b)' = {}
      BY <2>2 DEF InHead
    <3> QED
      BY <2>2, <3>1 DEF Recovered
  <2>4. Views' = home
    <3>1. \A b \in Blocks : cache'[b] \in {None, home[b]}
      BY Recovering
    <3> QED
      BY <2>2, <3>1 DEF View
  <2> QED
    BY <2>1, <2>3, <2>4, <1>4
<1>21. ASSUME UNCHANGED vars PROVE Same
  <2>1. UNCHANGED <<home, dhead, slot, cache, pc, kernel>>
    BY <1>21 DEF vars, disk, memory, procs
  <2> QED
    BY <2>1, <1>2, <1>3, <1>4
<1>22. IInv /\ [Next]_vars => [Abs!Next]_(Abs!vars)
  <2> SUFFICES ASSUME IInv, [Next]_vars
               PROVE  Abs!Next \/ UNCHANGED Abs!vars
    OBVIOUS
  <2> HIDE DEF Same
  <2> QED
    BY <1>5, <1>6, <1>7, <1>8, <1>9, <1>10, <1>11, <1>12, <1>13, <1>14,
       <1>15, <1>16, <1>17, <1>18, <1>19, <1>20, <1>21
       DEF Next, OpStep, CommitStep, Recovery, Abs!Next
<1> QED
  BY <1>1, <1>22, Invariance, PTL
     DEF Spec, ImplementsTransactionalDisk, Abs!Spec
=============================================================================
