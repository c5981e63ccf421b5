----------------------------- MODULE PipeProofs -----------------------------
(***************************************************************************)
(* Proofs about Pipe, for any number of processes, any size of the ring    *)
(* and any width of its indices that the size divides: the page is freed   *)
(* when nobody will use it, nobody sleeps for what is there, and the pipe  *)
(* is a Channel.                                                           *)
(***************************************************************************)
EXTENDS Pipe, FiniteSetTheorems, SequenceTheorems, TLAPS

(* An index of the ring stays an index. *)
LEMMA IndexType ==
  ASSUME NEW x \in Nat
  PROVE  Uint(x) \in 0..UINT_MAX /\ x % PIPESIZE \in 0..(PIPESIZE - 1)
<1>1. \A m \in Nat \ {0} : x % m \in Nat /\ x % m < m
  OBVIOUS
<1>2. UINT_MAX + 1 \in Nat \ {0} /\ PIPESIZE \in Nat \ {0}
  BY SizeAssumption
<1> QED
  BY <1>1, <1>2, SizeAssumption DEF Uint

(* The types, one group for each group of variables. *)
RingOK == /\ nread \in 0..UINT_MAX /\ nwrite \in 0..UINT_MAX
          /\ data \in [0..(PIPESIZE - 1) -> Bytes \cup {None}]
FlagsOK == readopen \in BOOLEAN /\ writeopen \in BOOLEAN /\ freed \in BOOLEAN
FilesOK == ref \in [Ends -> Nat] /\ fd \in [Procs -> SUBSET Ends]
CallOK == n \in [Procs -> 0..MaxN] /\ i \in [Procs -> 0..MaxN]
RestOK == /\ lock \in Procs \cup {None}
          /\ killed \in [Procs -> BOOLEAN]
          /\ ch \in Bytes \cup {None}
          /\ unannounced \in BOOLEAN

LEMMA TypeParts ==
  /\ TypeOK <=> RingOK /\ FlagsOK /\ FilesOK /\ CallOK /\ RestOK /\ pc \in [Procs -> PCs]
  /\ TypeOK' <=> RingOK' /\ FlagsOK' /\ FilesOK' /\ CallOK' /\ RestOK' /\ pc' \in [Procs -> PCs]
BY DEF TypeOK, RingOK, FlagsOK, FilesOK, CallOK, RestOK

LEMMA Unchanged ==
  /\ RingOK /\ UNCHANGED ring => RingOK'
  /\ FlagsOK /\ UNCHANGED flags => FlagsOK'
  /\ FilesOK /\ UNCHANGED files => FilesOK'
  /\ CallOK /\ UNCHANGED call => CallOK'
BY DEF RingOK, FlagsOK, FilesOK, CallOK, ring, flags, files, call

LEMMA InitType == Init => TypeOK
<1> SUFFICES ASSUME Init PROVE TypeOK
  OBVIOUS
<1>1. 0 \in 0..UINT_MAX /\ 0 \in 0..MaxN
  BY SizeAssumption
<1>2. RingOK /\ FlagsOK
  BY <1>1 DEF Init, RingOK, FlagsOK
<1>3. FilesOK
  BY DEF Init, FilesOK
<1>4. CallOK
  BY <1>1 DEF Init, CallOK
<1>5. RestOK /\ pc \in [Procs -> PCs]
  BY DEF Init, RestOK, PCs
<1> QED
  BY <1>2, <1>3, <1>4, <1>5, TypeParts

(* One step per action: each keeps the types. *)
LEMMA NextType == TypeOK /\ LockInv /\ RefInv /\ [Next]_vars => TypeOK'
<1> SUFFICES ASSUME TypeOK, LockInv, RefInv, [Next]_vars PROVE TypeOK'
  OBVIOUS
<1>1. RingOK /\ FlagsOK /\ FilesOK /\ CallOK /\ RestOK /\ pc \in [Procs -> PCs]
  BY TypeParts
<1>2. ASSUME NEW p \in Procs, NEW l \in PCs, Goto(p, l) PROVE pc' \in [Procs -> PCs]
  BY <1>1, <1>2 DEF Goto
<1>3. ASSUME NEW p \in Procs, NEW l \in PCs, NEW s, NEW r \in PCs, WakeAndGoto(p, l, s, r)
      PROVE  pc' \in [Procs -> PCs]
  BY <1>1, <1>3 DEF WakeAndGoto
<1>4. ASSUME NEW p \in Procs, Forget(p) PROVE CallOK'
  <2>1. 0 \in 0..MaxN
    BY SizeAssumption
  <2> QED
    BY <1>1, <1>4, <2>1 DEF Forget, CallOK
<1>5. /\ {"idle"} \cup InWrite \cup InRead \cup InClose = PCs
      /\ {"idle", "wtest", "wbody", "wsleep", "wdone", "wlock", "rlock", "rtest", "rkilled",
          "rgo", "rsleep", "rcopy", "rdone", "closer", "closew"} \subseteq PCs
  BY DEF PCs, InWrite, InRead, InClose
<1>6. ASSUME NEW p \in Procs, NEW x \in Bytes, WriteByte(p, x) PROVE TypeOK'
  <2>1. Uint(nwrite + 1) \in 0..UINT_MAX /\ nwrite % PIPESIZE \in 0..(PIPESIZE - 1)
    <3>1. nwrite \in Nat /\ nwrite + 1 \in Nat
      BY <1>1, SizeAssumption DEF RingOK
    <3> QED
      BY <3>1, IndexType
  <2>2. RingOK'
    BY <1>1, <1>6, <2>1 DEF WriteByte, RingOK
  <2>3. i[p] + 1 \in 0..MaxN
    <3>1. i[p] \in 0..MaxN /\ n[p] \in 0..MaxN
      BY <1>1 DEF CallOK
    <3>2. i[p] < n[p]
      BY <1>6 DEF LockInv, WriteByte
    <3> QED
      BY <3>1, <3>2, SizeAssumption
  <2>4. CallOK'
    BY <1>1, <1>6, <2>3 DEF WriteByte, CallOK
  <2>5. RestOK' /\ pc' \in [Procs -> PCs]
    BY <1>1, <1>2, <1>5, <1>6 DEF WriteByte, RestOK
  <2> QED
    BY <1>1, <1>6, <2>2, <2>4, <2>5, Unchanged, TypeParts DEF WriteByte
<1>7. ASSUME NEW p \in Procs, ReadByte(p) PROVE TypeOK'
  <2>1. Uint(nread + 1) \in 0..UINT_MAX /\ nread % PIPESIZE \in 0..(PIPESIZE - 1)
    <3>1. nread \in Nat /\ nread + 1 \in Nat
      BY <1>1, SizeAssumption DEF RingOK
    <3> QED
      BY <3>1, IndexType
  <2>2. RingOK'
    BY <1>1, <1>7, <2>1 DEF ReadByte, RingOK
  <2>3. i[p] + 1 \in 0..MaxN
    BY <1>1, <1>7, SizeAssumption DEF ReadByte, CallOK
  <2>4. CallOK'
    BY <1>1, <1>7, <2>3 DEF ReadByte, CallOK
  <2>5. RestOK' /\ pc' \in [Procs -> PCs]
    BY <1>1, <1>2, <1>5, <1>7, <2>1 DEF ReadByte, RestOK, RingOK
  <2> QED
    BY <1>1, <1>7, <2>2, <2>4, <2>5, Unchanged, TypeParts DEF ReadByte
<1>8. ASSUME NEW p \in Procs, ch' = None,
             \/ Lock(p) \/ WriteTest(p) \/ WriteFails(p) \/ CopyinFails(p)
             \/ ReadTest(p) \/ ReadKilled(p) \/ ReadNotKilled(p) \/ ReadSleep(p)
      PROVE  TypeOK'
  <2> USE <1>8 DEF Lock, WriteTest, WriteFails, CopyinFails, ReadTest, ReadKilled,
                   ReadNotKilled, ReadSleep
  <2>1. RingOK' /\ FlagsOK' /\ FilesOK'
    BY <1>1, Unchanged
  <2>2. CallOK'
    BY <1>1, <1>4, Unchanged
  <2>3. pc' \in [Procs -> PCs]
    BY <1>2, <1>5
  <2>4. RestOK'
    BY <1>1 DEF RestOK, Acquire, Release
  <2> QED
    BY <2>1, <2>2, <2>3, <2>4, TypeParts
<1>9. ASSUME NEW p \in Procs, ch' = None,
             WriteFull(p) \/ WriteDone(p) \/ ReadDone(p) \/ PipeClose(p)
      PROVE  TypeOK'
  <2> USE <1>9 DEF WriteFull, WriteDone, ReadDone, PipeClose
  <2>1. RingOK' /\ FilesOK'
    BY <1>1, Unchanged
  <2>2. CallOK'
    BY <1>1, <1>4, Unchanged
  <2>3. pc' \in [Procs -> PCs]
    BY <1>3, <1>5 DEF WakeReadersAndGoto, WakeWritersAndGoto
  <2>4. FlagsOK'
    BY <1>1 DEF FlagsOK, flags
  <2>5. RestOK'
    BY <1>1 DEF RestOK, Release, WakeReadersAndGoto
  <2> QED
    BY <2>1, <2>2, <2>3, <2>4, <2>5, TypeParts
<1>10. ASSUME NEW p \in Procs, ch' = None, NEW c \in Procs, Fork(p, c) PROVE TypeOK'
  <2>1. FilesOK'
    BY <1>1, <1>10 DEF Fork, FilesOK, Ends
  <2>2. RestOK'
    BY <1>1, <1>10 DEF Fork, RestOK
  <2> QED
    BY <1>1, <1>10, <2>1, <2>2, Unchanged, TypeParts DEF Fork
<1>11. ASSUME NEW p \in Procs, ch' = None, NEW e \in Ends, FileClose(p, e) PROVE TypeOK'
  <2>1. ref[e] \in Nat /\ ref[e] > 0
    <3>1. Holders(e) # {} /\ IsFiniteSet(Holders(e))
      BY <1>11, ProcsAssumption, FS_Subset DEF FileClose, Holders
    <3>2. ref[e] = Cardinality(Holders(e))
      BY DEF RefInv, EndInv, Ends
    <3> QED
      BY <3>1, <3>2, FS_EmptySet, FS_CardinalityType
  <2>2. FilesOK'
    BY <1>1, <1>11, <2>1 DEF FileClose, FilesOK
  <2>3. RestOK' /\ pc' \in [Procs -> PCs]
    BY <1>1, <1>2, <1>5, <1>11 DEF FileClose, RestOK
  <2> QED
    BY <1>1, <1>11, <2>2, <2>3, Unchanged, TypeParts DEF FileClose
<1>12. ASSUME NEW p \in Procs, ch' = None, Kill(p) PROVE TypeOK'
  <2>1. RestOK' /\ pc' \in [Procs -> PCs]
    BY <1>1, <1>5, <1>12 DEF Kill, RestOK
  <2> QED
    BY <1>1, <1>12, <2>1, Unchanged, TypeParts DEF Kill
<1>13. ASSUME NEW p \in Procs, ch' = None, NEW k \in 0..MaxN,
              Call(p, "w", k, "wlock") \/ Call(p, "r", k, "rlock")
       PROVE  TypeOK'
  <2>1. CallOK' /\ RestOK'
    BY <1>1, <1>13 DEF Call, CallOK, RestOK
  <2>2. pc' \in [Procs -> PCs]
    BY <1>2, <1>5, <1>13 DEF Call
  <2> QED
    BY <1>1, <1>13, <2>1, <2>2, Unchanged, TypeParts DEF Call
<1>14. CASE UNCHANGED vars
  BY <1>1, <1>14, Unchanged, TypeParts DEF vars, RestOK
<1> QED
  BY <1>6, <1>7, <1>8, <1>9, <1>10, <1>11, <1>12, <1>13, <1>14
     DEF Next, PipeStep, UserStep, MoveByte

-----------------------------------------------------------------------------
(* A step of p that keeps the lock leaves the others outside. *)
LEMMA NextLock == TypeOK /\ LockInv /\ [Next]_vars => LockInv'
<1> SUFFICES ASSUME TypeOK, LockInv, [Next]_vars PROVE LockInv'
  OBVIOUS
<1>1. pc \in [Procs -> PCs] /\ n \in [Procs -> 0..MaxN] /\ i \in [Procs -> 0..MaxN]
  BY DEF TypeOK
<1>2. None \notin Procs
  BY ProcsAssumption
<1> USE DEF At, Goto, Locked, LockInv, Acquire, Release
<1>3. ASSUME NEW p \in Procs, Lock(p) PROVE LockInv'
  BY <1>1, <1>2, <1>3 DEF Lock, ring, flags, call, Empty
<1>4. ASSUME NEW p \in Procs, WriteTest(p) \/ CopyinFails(p) \/ ReadTest(p) \/ ReadNotKilled(p)
      PROVE  LockInv'
  BY <1>1, <1>2, <1>4 DEF WriteTest, CopyinFails, ReadTest, ReadNotKilled,
                          ring, flags, call, Empty
<1>5. ASSUME NEW p \in Procs, WriteFails(p) \/ ReadKilled(p) \/ ReadSleep(p) PROVE LockInv'
  BY <1>1, <1>2, <1>5 DEF WriteFails, ReadKilled, ReadSleep, Forget, ring, flags, call, Empty
<1>6. ASSUME NEW p \in Procs, WriteFull(p) \/ WriteDone(p) \/ ReadDone(p) PROVE LockInv'
  BY <1>1, <1>2, <1>6 DEF WriteFull, WriteDone, ReadDone, WakeReadersAndGoto,
       WakeWritersAndGoto, WakeAndGoto, Forget, ring, flags, call, Empty
<1>7. ASSUME NEW p \in Procs, PipeClose(p) PROVE LockInv'
  BY <1>1, <1>2, <1>7 DEF PipeClose, WakeReadersAndGoto, WakeWritersAndGoto, WakeAndGoto,
       ring, call, Empty
<1>8. ASSUME NEW p \in Procs, NEW x \in Bytes, WriteByte(p, x) PROVE LockInv'
  BY <1>1, <1>2, <1>8 DEF WriteByte, flags, Empty
<1>9. ASSUME NEW p \in Procs, ReadByte(p) PROVE LockInv'
  BY <1>1, <1>2, <1>9 DEF ReadByte, flags, Empty
<1>10. ASSUME NEW p \in Procs, NEW c \in Procs, Fork(p, c) PROVE LockInv'
  BY <1>10 DEF Fork, ring, flags, call, Empty
<1>11. ASSUME NEW p \in Procs, NEW e \in Ends, FileClose(p, e) PROVE LockInv'
  BY <1>1, <1>2, <1>11 DEF FileClose, ring, flags, call, Empty
<1>12. ASSUME NEW p \in Procs, Kill(p) PROVE LockInv'
  BY <1>1, <1>2, <1>12 DEF Kill, ring, flags, call, Empty
<1>13. ASSUME NEW p \in Procs, NEW k \in 0..MaxN,
              Call(p, "w", k, "wlock") \/ Call(p, "r", k, "rlock")
       PROVE  LockInv'
  BY <1>1, <1>2, <1>13 DEF Call, ring, flags, Empty
<1>14. CASE UNCHANGED vars
  BY <1>14 DEF vars, ring, flags, call, Empty
<1> QED
  BY <1>3, <1>4, <1>5, <1>6, <1>7, <1>8, <1>9, <1>10, <1>11, <1>12, <1>13, <1>14
     DEF Next, PipeStep, UserStep, MoveByte

-----------------------------------------------------------------------------
(* A step that leaves the ends alone, where nobody starts or ends closing  *)
(* one, and nobody is in a call on an end it has not open.                 *)
LEMMA QuietRef ==
  ASSUME RefInv, UNCHANGED <<flags, files>>,
         \A q \in Procs : /\ pc'[q] = "closer" <=> pc[q] = "closer"
                          /\ pc'[q] = "closew" <=> pc[q] = "closew"
                          /\ pc'[q] \in InRead => "r" \in fd[q]
                          /\ pc'[q] \in InWrite => "w" \in fd[q]
  PROVE  RefInv'
<1>1. Holders("r")' = Holders("r") /\ Holders("w")' = Holders("w")
  BY DEF Holders, files
<1> QED
  BY <1>1 DEF RefInv, EndInv, At, flags, files

(* The sets of holders are finite, and so their counts are numbers. *)
LEMMA HoldersFinite ==
  \A e \in Ends : /\ IsFiniteSet(Holders(e)) /\ Cardinality(Holders(e)) \in Nat
                  /\ Cardinality(Holders(e)) = 0 <=> Holders(e) = {}
BY ProcsAssumption, FS_Subset, FS_CardinalityType, FS_EmptySet DEF Holders

(* fork() counts the child, which had no descriptor. *)
LEMMA ForkRef ==
  ASSUME TypeOK, RefInv, NEW p \in Procs, NEW c \in Procs, Fork(p, c)
  PROVE  RefInv'
<1>1. /\ fd \in [Procs -> SUBSET Ends] /\ ref \in [Ends -> Nat]
      /\ p # c /\ fd[c] = {} /\ fd' = [fd EXCEPT ![c] = fd[p]]
      /\ ref' = [e \in Ends |-> IF e \in fd[p] THEN ref[e] + 1 ELSE ref[e]]
  BY DEF TypeOK, Fork
<1>2. \A e \in Ends : /\ e \in fd[p] => Holders(e)' = Holders(e) \cup {c}
                      /\ e \notin fd[p] => Holders(e)' = Holders(e)
                      /\ c \notin Holders(e)
  BY <1>1 DEF Holders
<1>3. \A e \in Ends : ref[e] = Cardinality(Holders(e)) => ref'[e] = Cardinality(Holders(e)')
  <2> SUFFICES ASSUME NEW e \in Ends, ref[e] = Cardinality(Holders(e))
               PROVE  ref'[e] = Cardinality(Holders(e)')
    OBVIOUS
  <2>1. CASE e \in fd[p]
    <3>1. IsFiniteSet(Holders(e)) /\ c \notin Holders(e)
      BY <1>2, HoldersFinite
    <3>2. Cardinality(Holders(e) \cup {c}) = Cardinality(Holders(e)) + 1
      BY <3>1, FS_AddElement
    <3> QED
      BY <1>1, <1>2, <2>1, <3>2
  <2>2. CASE e \notin fd[p]
    BY <1>1, <1>2, <2>2
  <2> QED
    BY <2>1, <2>2
<1>4. \A e \in Ends : e \in fd[p] => Holders(e) # {}
  BY DEF Holders
<1>5. UNCHANGED <<pc, readopen, writeopen, freed>> /\ pc[c] = "idle"
  BY DEF Fork, flags, At
<1>6. /\ EndInv("r", readopen, "closer")' /\ EndInv("w", writeopen, "closew")'
  BY <1>2, <1>3, <1>4, <1>5 DEF RefInv, EndInv, At, Ends
<1>7. \A q \in Procs : q # c => fd'[q] = fd[q]
  BY <1>1
<1>8. "idle" \notin InRead /\ "idle" \notin InWrite
  BY DEF InRead, InWrite
<1> QED
  BY <1>5, <1>6, <1>7, <1>8 DEF RefInv

(* fileclose(): who makes the last reference go finds nobody else closing. *)
LEMMA FileCloseRef ==
  ASSUME TypeOK, RefInv, NEW p \in Procs, NEW e \in Ends, FileClose(p, e)
  PROVE  RefInv'
<1>1. /\ fd \in [Procs -> SUBSET Ends] /\ ref \in [Ends -> Nat]
      /\ pc \in [Procs -> PCs]
      /\ e \in fd[p] /\ fd' = [fd EXCEPT ![p] = @ \ {e}]
      /\ ref' = [ref EXCEPT ![e] = @ - 1]
      /\ pc[p] = "idle"
      /\ pc' = [pc EXCEPT ![p] = IF ref[e] > 1 THEN "idle"
                                 ELSE IF e = "r" THEN "closer" ELSE "closew"]
      /\ UNCHANGED <<readopen, writeopen, freed>>
  BY DEF TypeOK, FileClose, At, Goto, flags
<1>2. /\ Holders(e)' = Holders(e) \ {p}
      /\ p \in Holders(e)
      /\ \A f \in Ends : f # e => Holders(f)' = Holders(f)
  BY <1>1 DEF Holders
<1>3. ref[e] = Cardinality(Holders(e))
  BY DEF RefInv, EndInv, Ends
<1>4. /\ IsFiniteSet(Holders(e)) /\ Cardinality(Holders(e)) \in Nat
      /\ Holders(e) # {} => Cardinality(Holders(e)) # 0
  BY HoldersFinite
<1>5. /\ IsFiniteSet(Holders(e) \ {p})
      /\ Cardinality(Holders(e) \ {p}) = Cardinality(Holders(e)) - 1
  BY <1>2, <1>4, FS_RemoveElement
<1>6. ref'[e] = Cardinality(Holders(e)') /\ ref[e] \in Nat \ {0}
  BY <1>1, <1>2, <1>3, <1>4, <1>5
<1>7. ~(ref[e] > 1) => Holders(e)' = {}
  <2>1. ~(ref[e] > 1) => Cardinality(Holders(e) \ {p}) = 0
    BY <1>3, <1>5, <1>6
  <2> QED
    BY <1>2, <1>5, <2>1, FS_EmptySet
<1>8. \A f \in Ends : f # e => ref'[f] = ref[f]
  BY <1>1
<1>9. EndInv("r", readopen, "closer")'
  <2>1. CASE e = "r"
    BY <1>1, <1>2, <1>6, <1>7, <2>1 DEF RefInv, EndInv, At
  <2>2. CASE e = "w"
    BY <1>1, <1>2, <1>8, <2>2 DEF RefInv, EndInv, At, Ends
  <2> QED
    BY <2>1, <2>2 DEF Ends
<1>10. EndInv("w", writeopen, "closew")'
  <2>1. CASE e = "w"
    BY <1>1, <1>2, <1>6, <1>7, <2>1 DEF RefInv, EndInv, At
  <2>2. CASE e = "r"
    BY <1>1, <1>2, <1>8, <2>2 DEF RefInv, EndInv, At, Ends
  <2> QED
    BY <2>1, <2>2 DEF Ends
<1>11. \A q \in Procs : /\ pc'[q] \in InRead => "r" \in fd'[q]
                        /\ pc'[q] \in InWrite => "w" \in fd'[q]
  <2>1. \A q \in Procs : q # p => pc'[q] = pc[q] /\ fd'[q] = fd[q]
    BY <1>1
  <2>2. pc'[p] \notin InRead /\ pc'[p] \notin InWrite
    BY <1>1 DEF InRead, InWrite
  <2> QED
    BY <2>1, <2>2 DEF RefInv
<1> QED
  BY <1>1, <1>9, <1>10, <1>11 DEF RefInv

(* pipeclose(): the one that closes an end is alone, and nobody has it. *)
LEMMA PipeCloseRef ==
  ASSUME TypeOK, RefInv, NEW p \in Procs, PipeClose(p)
  PROVE  RefInv'
<1>1. /\ pc \in [Procs -> PCs] /\ UNCHANGED <<ref, fd>>
      /\ Holders("r")' = Holders("r") /\ Holders("w")' = Holders("w")
  BY DEF TypeOK, PipeClose, files, Holders
<1>2. ASSUME NEW s, NEW t, WakeAndGoto(p, "idle", s, t),
             \/ s = "rsleep" /\ t = "rlock"
             \/ s = "wsleep" /\ t = "wlock"
      PROVE  \A q \in Procs :
               /\ pc'[q] \in InRead => "r" \in fd[q]
               /\ pc'[q] \in InWrite => "w" \in fd[q]
               /\ pc'[q] = "closer" <=> pc[q] = "closer" /\ q # p
               /\ pc'[q] = "closew" <=> pc[q] = "closew" /\ q # p
  BY <1>1, <1>2 DEF WakeAndGoto, RefInv, InRead, InWrite
<1>3. \A q \in Procs : /\ pc'[q] \in InRead => "r" \in fd[q]
                       /\ pc'[q] \in InWrite => "w" \in fd[q]
                       /\ pc'[q] = "closer" <=> pc[q] = "closer" /\ q # p
                       /\ pc'[q] = "closew" <=> pc[q] = "closew" /\ q # p
  BY <1>2 DEF PipeClose, WakeReadersAndGoto, WakeWritersAndGoto
<1>4. /\ freed' <=> ~readopen' /\ ~writeopen'
      /\ \/ pc[p] = "closew" /\ ~writeopen' /\ readopen' = readopen
         \/ pc[p] = "closer" /\ ~readopen' /\ writeopen' = writeopen
  BY DEF PipeClose, At
<1>5. EndInv("r", readopen, "closer")' /\ EndInv("w", writeopen, "closew")'
  BY <1>1, <1>3, <1>4 DEF RefInv, EndInv, At
<1> QED
  BY <1>1, <1>3, <1>4, <1>5 DEF RefInv

LEMMA NextRef == TypeOK /\ RefInv /\ [Next]_vars => RefInv'
<1> SUFFICES ASSUME TypeOK, RefInv, [Next]_vars PROVE RefInv'
  OBVIOUS
<1> DEFINE Quiet == \A q \in Procs : /\ pc'[q] = "closer" <=> pc[q] = "closer"
                                     /\ pc'[q] = "closew" <=> pc[q] = "closew"
                                     /\ pc'[q] \in InRead => "r" \in fd[q]
                                     /\ pc'[q] \in InWrite => "w" \in fd[q]
<1>1. pc \in [Procs -> PCs]
  BY DEF TypeOK
<1>2. \A q \in Procs : /\ pc[q] \in InRead => "r" \in fd[q]
                       /\ pc[q] \in InWrite => "w" \in fd[q]
  BY DEF RefInv
<1> USE DEF At, Goto, InRead, InWrite
<1>3. ASSUME NEW p \in Procs,
             \/ Lock(p) \/ WriteTest(p) \/ WriteFails(p) \/ CopyinFails(p) \/ ReadTest(p)
             \/ ReadKilled(p) \/ ReadNotKilled(p) \/ ReadSleep(p) \/ ReadByte(p) \/ Kill(p)
      PROVE  RefInv'
  <2>1. UNCHANGED <<flags, files>>
    BY <1>3 DEF Lock, WriteTest, WriteFails, CopyinFails, ReadTest, ReadKilled,
         ReadNotKilled, ReadSleep, ReadByte, Kill
  <2>2. Quiet
    BY <1>1, <1>2, <1>3 DEF Lock, WriteTest, WriteFails, CopyinFails, ReadTest, ReadKilled,
         ReadNotKilled, ReadSleep, ReadByte, Kill
  <2> QED
    BY <2>1, <2>2, QuietRef
<1>4. ASSUME NEW p \in Procs, WriteFull(p) \/ WriteDone(p) \/ ReadDone(p) PROVE RefInv'
  <2>1. UNCHANGED <<flags, files>>
    BY <1>4 DEF WriteFull, WriteDone, ReadDone
  <2>2. Quiet
    BY <1>1, <1>2, <1>4 DEF WriteFull, WriteDone, ReadDone, WakeReadersAndGoto,
         WakeWritersAndGoto, WakeAndGoto
  <2> QED
    BY <2>1, <2>2, QuietRef
<1>5. ASSUME NEW p \in Procs,
             \/ \E x \in Bytes : WriteByte(p, x)
             \/ \E k \in 0..MaxN : Call(p, "w", k, "wlock") \/ Call(p, "r", k, "rlock")
      PROVE  RefInv'
  <2>1. UNCHANGED <<flags, files>>
    BY <1>5 DEF WriteByte, Call
  <2>2. Quiet
    BY <1>1, <1>2, <1>5 DEF WriteByte, Call
  <2> QED
    BY <2>1, <2>2, QuietRef
<1>6. CASE UNCHANGED vars
  BY <1>2, <1>6, QuietRef DEF vars
<1> QED
  BY <1>3, <1>4, <1>5, <1>6, ForkRef, FileCloseRef, PipeCloseRef
     DEF Next, PipeStep, UserStep, MoveByte

-----------------------------------------------------------------------------
(* Arithmetic modulo m: the remainder of a division is unique. *)
LEMMA ModIs ==
  ASSUME NEW m \in Nat \ {0}, NEW a \in Nat, NEW k \in Nat, NEW r \in 0..(m - 1),
         a = m * k + r
  PROVE  a % m = r
OBVIOUS

LEMMA ModSmall ==
  ASSUME NEW m \in Nat \ {0}, NEW a \in 0..(2 * m - 1)
  PROVE  a % m = IF a < m THEN a ELSE a - m
<1>1. CASE a < m
  <2>1. a \in Nat /\ a \in 0..(m - 1) /\ a = m * 0 + a /\ 0 \in Nat
    BY <1>1
  <2> QED
    BY <1>1, <2>1, ModIs
<1>2. CASE ~(a < m)
  <2>1. a \in Nat /\ a - m \in 0..(m - 1) /\ a = m * 1 + (a - m) /\ 1 \in Nat
    BY <1>2
  <2> QED
    BY <1>2, <2>1, ModIs
<1> QED
  BY <1>1, <1>2

LEMMA UintIs ==
  ASSUME NEW x \in 0..(2 * UINT_MAX + 1)
  PROVE  Uint(x) = IF x <= UINT_MAX THEN x ELSE x - (UINT_MAX + 1)
<1>1. UINT_MAX \in Nat
  BY SizeAssumption
<1> DEFINE m == UINT_MAX + 1
<1>2. m \in Nat \ {0} /\ x \in 0..(2 * m - 1) /\ (x < m <=> x <= UINT_MAX)
  BY <1>1
<1> HIDE DEF m
<1>3. x % m = IF x < m THEN x ELSE x - m
  BY <1>2, ModSmall
<1> QED
  BY <1>2, <1>3 DEF Uint, m

LEMMA Distance ==
  ASSUME NEW r \in 0..UINT_MAX, NEW w \in 0..UINT_MAX
  PROVE  Uint(w + UINT_MAX + 1 - r) = IF r <= w THEN w - r ELSE w + UINT_MAX + 1 - r
<1>1. UINT_MAX \in Nat
  BY SizeAssumption
<1>2. w + UINT_MAX + 1 - r \in 0..(2 * UINT_MAX + 1)
  BY <1>1
<1> QED
  BY <1>1, <1>2, UintIs

(* What is in the pipe, from the two indices; the indices are apart by 0   *)
(* when it is empty and by PIPESIZE when it is full.                       *)
LEMMA HeldIs ==
  ASSUME RingOK
  PROVE  /\ Held = IF nread <= nwrite THEN nwrite - nread ELSE nwrite + UINT_MAX + 1 - nread
         /\ Held \in 0..UINT_MAX
         /\ Empty <=> Held = 0
         /\ Full <=> Held = PIPESIZE
<1>1. /\ UINT_MAX \in Nat /\ PIPESIZE \in 0..UINT_MAX
      /\ nread \in 0..UINT_MAX /\ nwrite \in 0..UINT_MAX
  BY SizeAssumption DEF RingOK
<1>2. Held = IF nread <= nwrite THEN nwrite - nread ELSE nwrite + UINT_MAX + 1 - nread
  BY <1>1, Distance DEF Held
<1>3. Full <=> nwrite = IF nread + PIPESIZE <= UINT_MAX THEN nread + PIPESIZE
                        ELSE nread + PIPESIZE - (UINT_MAX + 1)
  <2>1. nread + PIPESIZE \in 0..(2 * UINT_MAX + 1)
    BY <1>1
  <2> QED
    BY <1>1, <2>1, UintIs DEF Full
<1> QED
  BY <1>1, <1>2, <1>3 DEF Empty

(* A byte in, a byte out. *)
LEMMA HeldPut ==
  ASSUME RingOK, RingOK', nwrite' = Uint(nwrite + 1), nread' = nread,
         Held <= PIPESIZE, ~Full
  PROVE  Held' = Held + 1 /\ Held + 1 <= PIPESIZE
<1>1. /\ UINT_MAX \in Nat /\ PIPESIZE \in 0..UINT_MAX
      /\ nread \in 0..UINT_MAX /\ nwrite \in 0..UINT_MAX
  BY SizeAssumption DEF RingOK
<1>2. nwrite' = IF nwrite + 1 <= UINT_MAX THEN nwrite + 1 ELSE 0
  <2>1. nwrite + 1 \in 0..(2 * UINT_MAX + 1)
    BY <1>1
  <2> QED
    BY <1>1, <2>1, UintIs
<1>3. Held' = IF nread' <= nwrite' THEN nwrite' - nread' ELSE nwrite' + UINT_MAX + 1 - nread'
  BY <1>1, Distance DEF Held, RingOK
<1> QED
  BY <1>1, <1>2, <1>3, HeldIs

LEMMA HeldGet ==
  ASSUME RingOK, RingOK', nread' = Uint(nread + 1), nwrite' = nwrite, ~Empty
  PROVE  Held' = Held - 1
<1>1. /\ UINT_MAX \in Nat
      /\ nread \in 0..UINT_MAX /\ nwrite \in 0..UINT_MAX
  BY SizeAssumption DEF RingOK
<1>2. nread' = IF nread + 1 <= UINT_MAX THEN nread + 1 ELSE 0
  <2>1. nread + 1 \in 0..(2 * UINT_MAX + 1)
    BY <1>1
  <2> QED
    BY <1>1, <2>1, UintIs
<1>3. Held' = IF nread' <= nwrite' THEN nwrite' - nread' ELSE nwrite' + UINT_MAX + 1 - nread'
  BY <1>1, Distance DEF Held, RingOK
<1> QED
  BY <1>1, <1>2, <1>3, HeldIs DEF Empty

(* A step that is none of the two leaves what is in the pipe alone. *)
LEMMA Moves ==
  ASSUME [Next]_vars
  PROVE  \/ \E p \in Procs : ReadByte(p) \/ \E x \in Bytes : WriteByte(p, x)
         \/ UNCHANGED ring
BY DEF Next, PipeStep, UserStep, MoveByte, vars, Lock, WriteTest, WriteFails, CopyinFails,
       ReadTest, ReadKilled, ReadNotKilled, ReadSleep, ReadDone, WriteFull, WriteDone, PipeClose,
       Call, Fork, FileClose, Kill

LEMMA NextHeld == TypeOK /\ TypeOK' /\ Held <= PIPESIZE /\ [Next]_vars => Held' <= PIPESIZE
<1> SUFFICES ASSUME TypeOK, TypeOK', Held <= PIPESIZE, [Next]_vars PROVE Held' <= PIPESIZE
  OBVIOUS
<1>1. RingOK /\ RingOK'
  BY TypeParts
<1>2. CASE \E p \in Procs : ReadByte(p)
  <2>1. Held' = Held - 1
    BY <1>1, <1>2, HeldGet DEF ReadByte
  <2> QED
    BY <1>1, <2>1, HeldIs, SizeAssumption
<1>3. CASE \E p \in Procs : \E x \in Bytes : WriteByte(p, x)
  BY <1>1, <1>3, HeldPut DEF WriteByte
<1>4. CASE UNCHANGED ring
  BY <1>4 DEF ring, Held
<1> QED
  BY <1>2, <1>3, <1>4, Moves

-----------------------------------------------------------------------------
(* The sleepers: who makes a condition come true wakes them, and a byte    *)
(* that goes in or out leaves none behind that was to be woken.            *)
LEMMA NextSleep ==
  TypeOK /\ LockInv /\ SleepInv /\ [Next]_vars => SleepInv'
<1> SUFFICES ASSUME TypeOK, LockInv, SleepInv, [Next]_vars PROVE SleepInv'
  OBVIOUS
<1>1. pc \in [Procs -> PCs] /\ None \notin Procs
  BY ProcsAssumption DEF TypeOK
<1> USE DEF At, Goto, SleepInv
<1>2. ASSUME NEW p \in Procs,
             \/ Lock(p) \/ WriteTest(p) \/ WriteFails(p) \/ CopyinFails(p) \/ ReadTest(p)
             \/ ReadKilled(p) \/ ReadNotKilled(p) \/ Kill(p)
      PROVE  SleepInv'
  BY <1>1, <1>2 DEF Lock, WriteTest, WriteFails, CopyinFails, ReadTest, ReadKilled,
       ReadNotKilled, Kill, ring, flags, Empty, Full
<1>3. ASSUME NEW p \in Procs, ReadSleep(p) PROVE SleepInv'
  BY <1>1, <1>3 DEF ReadSleep, LockInv, ring, flags, Empty, Full
<1>4. ASSUME NEW p \in Procs, WriteFull(p) PROVE SleepInv'
  BY <1>1, <1>4 DEF WriteFull, WakeReadersAndGoto, WakeAndGoto, LockInv, ring, flags, Empty, Full
<1>5. ASSUME NEW p \in Procs, WriteDone(p) PROVE SleepInv'
  BY <1>1, <1>5 DEF WriteDone, WakeReadersAndGoto, WakeAndGoto, ring, flags, Empty, Full
<1>6. ASSUME NEW p \in Procs, ReadDone(p) PROVE SleepInv'
  BY <1>1, <1>6 DEF ReadDone, WakeWritersAndGoto, WakeAndGoto, ring, flags, Empty, Full
<1>7. ASSUME NEW p \in Procs, PipeClose(p) PROVE SleepInv'
  BY <1>1, <1>7 DEF PipeClose, WakeReadersAndGoto, WakeWritersAndGoto, WakeAndGoto,
       ring, Empty, Full
<1>8. ASSUME NEW p \in Procs, NEW x \in Bytes, WriteByte(p, x) PROVE SleepInv'
  <2>1. \A q \in Procs : pc[q] # "wsleep"
    BY <1>1, <1>8 DEF WriteByte, LockInv, Locked
  <2> QED
    BY <1>1, <1>8, <2>1 DEF WriteByte, flags
<1>9. ASSUME NEW p \in Procs, ReadByte(p) PROVE SleepInv'
  BY <1>1, <1>9 DEF ReadByte, flags
<1>10. ASSUME NEW p \in Procs,
              \/ \E c \in Procs : Fork(p, c)
              \/ \E e \in Ends : FileClose(p, e)
              \/ \E k \in 0..MaxN : Call(p, "w", k, "wlock") \/ Call(p, "r", k, "rlock")
       PROVE  SleepInv'
  BY <1>1, <1>10 DEF Fork, FileClose, Call, ring, flags, Empty, Full
<1>11. CASE UNCHANGED vars
  BY <1>11 DEF vars, ring, flags, Empty, Full
<1> QED
  BY <1>2, <1>3, <1>4, <1>5, <1>6, <1>7, <1>8, <1>9, <1>10, <1>11
     DEF Next, PipeStep, UserStep, MoveByte

LEMMA InitInv == Init => IInv
<1> SUFFICES ASSUME Init PROVE IInv
  OBVIOUS
<1>1. TypeOK
  BY InitType
<1>2. \A p \in Procs : pc[p] = "idle"
  BY DEF Init
<1>3. LockInv
  BY <1>2, ProcsAssumption DEF Init, LockInv, Locked, At
<1>4. SleepInv
  BY <1>2 DEF SleepInv, At
<1>5. RefInv
  <2>1. Holders("r") = {Creator} /\ Holders("w") = {Creator}
    BY ProcsAssumption DEF Init, Holders, Ends
  <2>2. Cardinality({Creator}) = 1
    BY FS_Singleton
  <2> QED
    BY <1>2, <2>1, <2>2 DEF Init, RefInv, EndInv, Ends, At, InRead, InWrite
<1>6. Held <= PIPESIZE
  BY <1>1, TypeParts, HeldIs, SizeAssumption DEF Init
<1> QED
  BY <1>1, <1>3, <1>4, <1>5, <1>6 DEF IInv

LEMMA NextInv == IInv /\ [Next]_vars => IInv'
BY NextType, NextLock, NextRef, NextSleep, NextHeld DEF IInv

(* The inductive invariant holds in every reachable state: types, who has  *)
(* pi->lock, what the references count, why each sleeper sleeps, and never *)
(* more than PIPESIZE bytes in the ring.                                   *)
THEOREM Invariance == Spec => []IInv
<1>1. Init => IInv
  BY InitInv
<1>2. IInv /\ [Next]_vars => IInv'
  BY NextInv
<1> QED
  BY <1>1, <1>2, PTL DEF Spec

(* The variables keep their types: the indices are uint, the calls never   *)
(* count past the bytes they were asked for.                               *)
THEOREM TypeCorrect == Spec => []TypeOK
<1>1. IInv => TypeOK
  BY DEF IInv
<1> QED
  BY <1>1, Invariance, PTL

(* The page is freed when nobody has a descriptor or is inside a call: the *)
(* references of the two files are what keeps it.                          *)
THEOREM FreedWhenUnused == Spec => []NoUseAfterFree
<1>1. IInv => NoUseAfterFree
  <2> SUFFICES ASSUME IInv PROVE NoUseAfterFree
    OBVIOUS
  <2>1. /\ ~readopen => \A p \in Procs : "r" \notin fd[p] /\ pc[p] # "closer"
        /\ ~writeopen => \A p \in Procs : "w" \notin fd[p] /\ pc[p] # "closew"
    BY DEF IInv, RefInv, EndInv, Holders, At
  <2>2. freed => ~readopen /\ ~writeopen
    BY DEF IInv, RefInv
  <2>3. \A p \in Procs : /\ pc[p] \in InRead => "r" \in fd[p]
                         /\ pc[p] \in InWrite => "w" \in fd[p]
                         /\ pc[p] \in PCs
    BY DEF IInv, RefInv, TypeOK
  <2> QED
    BY <2>1, <2>2, <2>3 DEF NoUseAfterFree, PCs, InClose, At
<1> QED
  BY <1>1, Invariance, PTL

(* A sleeper of piperead() or pipewrite() has a reason to, whenever nobody *)
(* has the lock: the one it may still wait for has it (SleepInv).          *)
THEOREM NoSleepInVain == Spec => []SleepersMustWait
<1>1. IInv => SleepersMustWait
  <2> SUFFICES ASSUME IInv, lock = None PROVE SleepersMustWait
    BY DEF SleepersMustWait
  <2>1. \A p \in Procs : pc[p] \notin Locked
    BY ProcsAssumption DEF IInv, LockInv
  <2> QED
    BY <2>1 DEF IInv, SleepInv, SleepersMustWait, Locked
<1> QED
  BY <1>1, Invariance, PTL

-----------------------------------------------------------------------------
(* The indices wrap at a multiple of PIPESIZE: the place of a byte is that *)
(* of its number, and PIPESIZE numbers in a row have different places.     *)
LEMMA Division ==
  ASSUME NEW m \in Nat \ {0}, NEW a \in Nat
  PROVE  \E k \in Nat : a = m * k + (a % m) /\ a % m \in 0..(m - 1)
<1>1. a \div m \in Nat /\ a = m * (a \div m) + (a % m) /\ a % m \in 0..(m - 1)
  OBVIOUS
<1> QED
  BY <1>1

LEMMA ModPlus ==
  ASSUME NEW m \in Nat \ {0}, NEW a \in Nat, NEW b \in Nat, b % m = 0
  PROVE  (a + b) % m = a % m
<1>1. PICK k \in Nat, r \in 0..(m - 1) : a = m * k + r /\ a % m = r
  BY Division
<1>2. PICK d \in Nat : b = m * d
  <2>1. PICK d \in Nat : b = m * d + (b % m)
    BY Division
  <2>2. m * d \in Nat
    OBVIOUS
  <2> QED
    BY <2>1, <2>2
<1>3. m * (k + d) = m * k + m * d /\ m * k \in Nat /\ m * d \in Nat /\ k + d \in Nat
  OBVIOUS
<1>4. a + b = m * (k + d) + r
  BY <1>1, <1>2, <1>3
<1>5. (a + b) % m = r
  <2>1. a + b \in Nat
    OBVIOUS
  <2> QED
    BY <1>3, <1>4, <2>1, ModIs
<1> QED
  BY <1>1, <1>5

LEMMA WrapIsPlace ==
  ASSUME NEW x \in 0..(2 * UINT_MAX + 1)
  PROVE  Uint(x) % PIPESIZE = x % PIPESIZE
<1>1. PIPESIZE \in Nat \ {0} /\ UINT_MAX \in Nat /\ UINT_MAX + 1 \in Nat
  BY SizeAssumption
<1>2. (UINT_MAX + 1) % PIPESIZE = 0
  BY SizeAssumption
<1>3. CASE x <= UINT_MAX
  BY <1>1, <1>3, UintIs
<1>4. CASE ~(x <= UINT_MAX)
  <2>1. PICK y \in Nat : y = x - (UINT_MAX + 1)
    BY <1>1, <1>4
  <2>2. x = y + (UINT_MAX + 1)
    BY <1>1, <2>1
  <2>3. Uint(x) = y
    BY <1>1, <1>4, <2>1, UintIs
  <2>4. (y + (UINT_MAX + 1)) % PIPESIZE = y % PIPESIZE
    BY <1>1, <1>2, <2>1, ModPlus
  <2> QED
    BY <2>2, <2>3, <2>4
<1> QED
  BY <1>3, <1>4

LEMMA PlacesDiffer ==
  ASSUME NEW a \in Nat, NEW b \in Nat, a < b, b - a < PIPESIZE
  PROVE  a % PIPESIZE # b % PIPESIZE
<1>1. PIPESIZE \in Nat \ {0}
  BY SizeAssumption
<1>2. PICK k \in Nat : a = PIPESIZE * k + (a % PIPESIZE) /\ a % PIPESIZE \in 0..(PIPESIZE - 1)
  BY <1>1, Division
<1>3. PICK l \in Nat : b = PIPESIZE * l + (b % PIPESIZE) /\ b % PIPESIZE \in 0..(PIPESIZE - 1)
  BY <1>1, Division
<1> SUFFICES ASSUME a % PIPESIZE = b % PIPESIZE PROVE FALSE
  OBVIOUS
<1>4. b - a = PIPESIZE * (l - k)
  <2>1. PIPESIZE * (l - k) = PIPESIZE * l - PIPESIZE * k
    BY <1>1
  <2>2. PIPESIZE * l \in Nat /\ PIPESIZE * k \in Nat
    BY <1>1
  <2> QED
    BY <1>1, <1>2, <1>3, <2>1, <2>2
<1>5. l - k >= 1
  <2>1. CASE l - k <= 0
    <3>1. PIPESIZE * (l - k) <= 0
      BY <1>1, <2>1
    <3> QED
      BY <1>4, <3>1
  <2> QED
    BY <2>1
<1>6. PIPESIZE * (l - k) >= PIPESIZE
  BY <1>1, <1>5
<1> QED
  BY <1>1, <1>4, <1>6

-----------------------------------------------------------------------------
(* The bytes of the abstract queue, in the ring. *)
QueueOK == /\ Queue \in Seq(Bytes \cup {None})
           /\ Len(Queue) = Held
           /\ \A k \in 1..Held : Queue[k] = data[(nread + k - 1) % PIPESIZE]

LEMMA QueueIs == RingOK /\ Held <= PIPESIZE => QueueOK
<1> SUFFICES ASSUME RingOK, Held <= PIPESIZE PROVE QueueOK
  OBVIOUS
<1>1. /\ UINT_MAX \in Nat /\ PIPESIZE \in Nat \ {0} /\ PIPESIZE <= UINT_MAX
      /\ nread \in 0..UINT_MAX /\ Held \in 0..UINT_MAX
  BY SizeAssumption, HeldIs DEF RingOK
<1>2. ASSUME NEW k \in 1..Held
      PROVE  /\ Uint(nread + k - 1) % PIPESIZE = (nread + k - 1) % PIPESIZE
             /\ data[(nread + k - 1) % PIPESIZE] \in Bytes \cup {None}
  <2>1. nread + k - 1 \in 0..(2 * UINT_MAX + 1) /\ nread + k - 1 \in Nat
    BY <1>1
  <2>2. Uint(nread + k - 1) % PIPESIZE = (nread + k - 1) % PIPESIZE
    BY <2>1, WrapIsPlace
  <2>3. (nread + k - 1) % PIPESIZE \in 0..(PIPESIZE - 1)
    BY <2>1, IndexType
  <2> QED
    BY <2>2, <2>3 DEF RingOK
<1>3. Queue \in [1..Held -> Bytes \cup {None}]
  BY <1>2 DEF Queue
<1>4. Queue \in Seq(Bytes \cup {None})
  BY <1>1, <1>3, SeqDef
<1>5. Len(Queue) = Held
  BY <1>1, <1>3, <1>4, LenProperties
<1> QED
  BY <1>2, <1>4, <1>5 DEF Queue, QueueOK

LEMMA QueueIsNext == RingOK' /\ (Held <= PIPESIZE)' => QueueOK'
BY QueueIs, PTL

(* The next byte written takes the place after the last one. *)
LEMMA WritePlace ==
  ASSUME RingOK, Held <= PIPESIZE
  PROVE  nwrite % PIPESIZE = (nread + Held) % PIPESIZE
<1>1. /\ UINT_MAX \in Nat /\ PIPESIZE \in Nat \ {0} /\ PIPESIZE <= UINT_MAX
      /\ nread \in 0..UINT_MAX /\ nwrite \in 0..UINT_MAX
  BY SizeAssumption DEF RingOK
<1>2. Held = IF nread <= nwrite THEN nwrite - nread ELSE nwrite + UINT_MAX + 1 - nread
  BY HeldIs
<1>3. nread + Held \in 0..(2 * UINT_MAX + 1)
  BY <1>1, <1>2
<1>4. Uint(nread + Held) = nwrite
  BY <1>1, <1>2, <1>3, UintIs
<1> QED
  BY <1>3, <1>4, WrapIsPlace

(* A byte written is put at the end of the queue: the ring has a place     *)
(* that no byte of the queue is in.                                        *)
LEMMA WriteIsPut ==
  ASSUME IInv, IInv', NEW p \in Procs, NEW x \in Bytes, WriteByte(p, x)
  PROVE  Abstract!Put(x)
<1>1. /\ RingOK /\ RingOK' /\ Held <= PIPESIZE /\ Held' <= PIPESIZE
      /\ UINT_MAX \in Nat /\ PIPESIZE \in Nat \ {0}
      /\ nread \in Nat /\ Held \in Nat
      /\ nread' = nread
  BY TypeParts, SizeAssumption, HeldIs DEF IInv, RingOK, WriteByte
<1>2. Held' = Held + 1 /\ Held + 1 <= PIPESIZE
  BY <1>1, HeldPut DEF WriteByte
<1>3. readopen /\ UNCHANGED <<readopen, writeopen>> /\ ch' = x
  BY DEF WriteByte, IInv, LockInv, flags
<1>4. /\ Queue \in Seq(Bytes \cup {None}) /\ Len(Queue) = Held
      /\ \A k \in 1..Held : Queue[k] = data[(nread + k - 1) % PIPESIZE]
  BY <1>1, QueueIs DEF QueueOK
<1>5. /\ Queue' \in Seq(Bytes \cup {None}) /\ Len(Queue') = Held'
      /\ \A k \in 1..Held' : Queue'[k] = data'[(nread + k - 1) % PIPESIZE]
  BY <1>1, QueueIsNext DEF QueueOK
<1>6. Queue' = Append(Queue, x)
  <2>1. /\ Append(Queue, x) \in Seq(Bytes \cup {None})
        /\ Len(Append(Queue, x)) = Held + 1
        /\ \A k \in 1..Held : Append(Queue, x)[k] = Queue[k]
        /\ Append(Queue, x)[Held + 1] = x
    BY <1>4, AppendProperties
  <2>2. data' = [data EXCEPT ![(nread + Held) % PIPESIZE] = x]
    BY <1>1, WritePlace DEF WriteByte
  <2>3. ASSUME NEW k \in 1..(Held + 1) PROVE Queue'[k] = Append(Queue, x)[k]
    <3>1. (nread + k - 1) % PIPESIZE \in 0..(PIPESIZE - 1)
      BY <1>1, IndexType
    <3>2. CASE k = Held + 1
      <4>1. nread + k - 1 = nread + Held
        BY <1>1, <3>2
      <4>2. data'[(nread + k - 1) % PIPESIZE] = x
        BY <1>1, <2>2, <3>1, <4>1 DEF RingOK
      <4> QED
        BY <1>1, <1>2, <1>5, <2>1, <3>2, <4>2
    <3>3. CASE k \in 1..Held
      <4>1. (nread + k - 1) % PIPESIZE # (nread + Held) % PIPESIZE
        <5>1. /\ nread + k - 1 \in Nat /\ nread + Held \in Nat
              /\ nread + k - 1 < nread + Held
              /\ (nread + Held) - (nread + k - 1) < PIPESIZE
          BY <1>1, <1>2, <3>3
        <5> QED
          BY <5>1, PlacesDiffer
      <4>2. data'[(nread + k - 1) % PIPESIZE] = data[(nread + k - 1) % PIPESIZE]
        BY <1>1, <2>2, <3>1, <4>1 DEF RingOK
      <4> QED
        BY <1>1, <1>2, <1>4, <1>5, <2>1, <3>3, <4>2
    <3>4. k = Held + 1 \/ k \in 1..Held
      BY <1>1
    <3> QED
      BY <3>2, <3>3, <3>4
  <2> QED
    BY <1>1, <1>2, <1>5, <2>1, <2>3, SeqEqual
<1> QED
  BY <1>1, <1>2, <1>3, <1>4, <1>6 DEF Abstract!Put

(* A byte read is the first of the queue, and the others move up. *)
LEMMA ReadIsGet ==
  ASSUME IInv, IInv', NEW p \in Procs, ReadByte(p)
  PROVE  Abstract!Get
<1>1. /\ RingOK /\ RingOK' /\ Held <= PIPESIZE /\ Held' <= PIPESIZE
      /\ UINT_MAX \in Nat /\ PIPESIZE \in Nat \ {0} /\ PIPESIZE <= UINT_MAX
      /\ nread \in 0..UINT_MAX /\ Held \in Nat /\ Held # 0
      /\ nread' = Uint(nread + 1)
  BY TypeParts, SizeAssumption, HeldIs DEF IInv, RingOK, ReadByte
<1>2. Held' = Held - 1
  BY <1>1, HeldGet DEF ReadByte
<1>3. UNCHANGED <<readopen, writeopen>> /\ ch' = data[nread % PIPESIZE]
  BY DEF ReadByte, flags
<1>4. /\ Queue \in Seq(Bytes \cup {None}) /\ Len(Queue) = Held
      /\ \A k \in 1..Held : Queue[k] = data[(nread + k - 1) % PIPESIZE]
  BY <1>1, QueueIs DEF QueueOK
<1>5. /\ Queue' \in Seq(Bytes \cup {None}) /\ Len(Queue') = Held'
      /\ \A k \in 1..Held' : Queue'[k] = data'[(nread' + k - 1) % PIPESIZE]
  BY <1>1, QueueIsNext DEF QueueOK
<1>6. Queue # <<>> /\ Head(Queue) = Queue[1]
  BY <1>1, <1>4, EmptySeq
<1>7. Queue[1] = data[nread % PIPESIZE]
  <2>1. nread + 1 - 1 = nread /\ 1 \in 1..Held
    BY <1>1
  <2> QED
    BY <1>4, <2>1
<1>8. Queue' = Tail(Queue)
  <2>1. /\ Tail(Queue) \in Seq(Bytes \cup {None})
        /\ Len(Tail(Queue)) = Held - 1
        /\ \A k \in 1..(Held - 1) : Tail(Queue)[k] = Queue[k + 1]
    BY <1>4, <1>6, HeadTailProperties
  <2>2. ASSUME NEW k \in 1..(Held - 1) PROVE Queue'[k] = Tail(Queue)[k]
    <3>1. (nread' + k - 1) % PIPESIZE = (nread + k) % PIPESIZE
      <4>1. nread + k \in 0..(2 * UINT_MAX + 1) /\ nread + 1 \in 0..(2 * UINT_MAX + 1)
        BY <1>1
      <4>2. CASE nread + 1 <= UINT_MAX
        <5>1. nread' = nread + 1
          BY <1>1, <4>1, <4>2, UintIs
        <5>2. nread' + k - 1 = nread + k
          BY <1>1, <5>1
        <5> QED
          BY <5>2
      <4>3. CASE nread = UINT_MAX
        <5>1. nread' = 0
          BY <1>1, <4>1, <4>3, UintIs
        <5>2. Uint(nread + k) = nread' + k - 1
          BY <1>1, <4>1, <4>3, <5>1, UintIs
        <5> QED
          BY <4>1, <5>2, WrapIsPlace
      <4> QED
        BY <1>1, <4>2, <4>3
    <3>2. nread \in Nat /\ nread + k \in Nat /\ nread < nread + k /\ (nread + k) - nread < PIPESIZE
      BY <1>1
    <3>3. nread % PIPESIZE # (nread + k) % PIPESIZE /\ (nread + k) % PIPESIZE \in 0..(PIPESIZE - 1)
      BY <3>2, PlacesDiffer, IndexType
    <3>4. data'[(nread + k) % PIPESIZE] = data[(nread + k) % PIPESIZE]
      BY <1>1, <3>3 DEF ReadByte, RingOK
    <3>5. nread + (k + 1) - 1 = nread + k /\ k + 1 \in 1..Held /\ k \in 1..Held'
      BY <1>1, <1>2
    <3>6. Queue[k + 1] = data[(nread + k) % PIPESIZE]
      BY <1>4, <3>5
    <3>7. Queue'[k] = data'[(nread + k) % PIPESIZE]
      BY <1>5, <3>1, <3>5
    <3> QED
      BY <2>1, <3>4, <3>6, <3>7
  <2> QED
    BY <1>1, <1>2, <1>5, <2>1, <2>2, SeqEqual
<1> QED
  BY <1>3, <1>6, <1>7, <1>8 DEF Abstract!Get

(* The pipe is a channel: whatever processes come, fork, close, are killed *)
(* and sleep, bytes come out once and in the order they went in.           *)
THEOREM Refinement == Spec => ImplementsChannel
<1>1. Init => Abstract!Init
  <2> SUFFICES ASSUME Init PROVE Abstract!Init
    OBVIOUS
  <2>1. RingOK /\ Held <= PIPESIZE
    BY InitInv, TypeParts DEF IInv
  <2>2. Held = 0
    BY <2>1, HeldIs DEF Init, Empty
  <2>3. Queue = <<>>
    BY <2>1, <2>2, QueueIs, EmptySeq DEF QueueOK
  <2> QED
    BY <2>3 DEF Init, Abstract!Init
<1>2. IInv /\ [Next]_vars => [Abstract!Next]_(Abstract!vars)
  <2> SUFFICES ASSUME IInv, [Next]_vars PROVE [Abstract!Next]_(Abstract!vars)
    OBVIOUS
  <2>1. IInv'
    BY NextInv
  <2>2. ASSUME NEW p \in Procs, NEW x \in Bytes, WriteByte(p, x) PROVE Abstract!Next
    BY <2>1, <2>2, WriteIsPut DEF Abstract!Next
  <2>3. ASSUME NEW p \in Procs, ReadByte(p) PROVE Abstract!Next
    BY <2>1, <2>3, ReadIsGet DEF Abstract!Next
  <2>4. UNCHANGED ring => UNCHANGED Queue
    BY DEF ring, Queue, Held
  <2>5. ASSUME NEW p \in Procs, ch' = None, PipeClose(p) PROVE Abstract!Close
    <3>1. (pc[p] = "closer" => readopen) /\ (pc[p] = "closew" => writeopen)
      BY DEF IInv, RefInv, EndInv, At
    <3> QED
      BY <2>4, <2>5, <3>1 DEF PipeClose, Abstract!Close, At
  <2>6. ASSUME NEW p \in Procs, ch' = None,
               \/ Lock(p) \/ WriteTest(p) \/ WriteFails(p) \/ WriteFull(p) \/ CopyinFails(p)
               \/ WriteDone(p) \/ ReadTest(p) \/ ReadKilled(p) \/ ReadNotKilled(p)
               \/ ReadSleep(p) \/ ReadDone(p) \/ UserStep(p)
        PROVE  Abstract!Pause
    <3>1. UNCHANGED <<ring, flags>>
      BY <2>6 DEF Lock, WriteTest, WriteFails, WriteFull, CopyinFails, WriteDone, ReadTest,
           ReadKilled, ReadNotKilled, ReadSleep, ReadDone, UserStep, Call, Fork, FileClose, Kill
    <3> QED
      BY <2>4, <2>6, <3>1 DEF Abstract!Pause, flags
  <2>7. CASE UNCHANGED vars
    BY <2>4, <2>7 DEF vars, flags, Abstract!vars
  <2>8. ASSUME NEW p \in Procs, UserStep(p) PROVE ch' = None
    BY <2>8 DEF UserStep
  <2> QED
    BY <2>2, <2>3, <2>5, <2>6, <2>7, <2>8 DEF Next, PipeStep, MoveByte, Abstract!Next
<1> QED
  BY <1>1, <1>2, Invariance, PTL DEF Spec, ImplementsChannel, Abstract!Spec
=============================================================================
