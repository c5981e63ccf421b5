----------------------------- MODULE ProcProofs -----------------------------
(***************************************************************************)
(* Proofs about Proc, for any number of slots, CPUs, pids and callers of   *)
(* kill(): no kernel stack is used by two CPUs or given away too soon,     *)
(* sched() never panics, and no wakeup of wait() is lost.                  *)
(***************************************************************************)
EXTENDS Proc, TLAPS

LEMMA Slots ==
  /\ initproc \in Procs /\ 1 \in Procs
  /\ \A k \in Procs : k < NPROC => k + 1 \in Procs
  /\ None \notin Procs /\ None \notin CPUs
BY NPROCAssumption, NoneAssumption DEF Procs, initproc

LEMMA SlotNumbers ==
  NPROC \in Nat /\ \A q \in Procs : q \in Nat /\ 1 <= q /\ q <= NPROC
BY NPROCAssumption DEF Procs

LEMMA InitType == Init => TypeOK
BY Slots DEF Init, TypeOK, States, PCs

(* The types, in three groups of variables. *)
TableOK == /\ state \in [Procs -> States] /\ pid \in [Procs -> Nat]
           /\ parent \in [Procs -> Procs \cup {None}]
           /\ chan \in [Procs -> Procs \cup {None}]
           /\ killed \in [Procs -> BOOLEAN] /\ nextpid \in Nat
CpuOK == /\ wait_lock \in CPUs \cup {None}
         /\ plock \in [Procs -> CPUs \cup {None}]
         /\ cpu \in [CPUs -> Procs \cup {None}]
LocalOK == /\ wk \in [Procs -> Procs] /\ havekids \in [Procs -> BOOLEAN]
           /\ target \in [Procs -> Nat]
WalkOK == at \in [Procs -> Procs]
StandOK == pc \in [Procs -> PCs]
SpinOK == spin \in [Procs -> BOOLEAN]

LEMMA TypeParts ==
  /\ TypeOK <=> TableOK /\ CpuOK /\ LocalOK /\ WalkOK /\ StandOK /\ SpinOK
  /\ TypeOK' <=> TableOK' /\ CpuOK' /\ LocalOK' /\ WalkOK' /\ StandOK' /\ SpinOK'
BY DEF TypeOK, TableOK, CpuOK, LocalOK, WalkOK, StandOK, SpinOK

LEMMA Unchanged ==
  /\ TableOK /\ UNCHANGED table => TableOK'
  /\ CpuOK /\ UNCHANGED <<locks, cpu>> => CpuOK'
  /\ LocalOK /\ UNCHANGED <<wk, havekids, target>> => LocalOK'
  /\ WalkOK /\ UNCHANGED at => WalkOK'
  /\ StandOK /\ UNCHANGED pc => StandOK'
  /\ SpinOK /\ UNCHANGED spin => SpinOK'
BY DEF TableOK, CpuOK, LocalOK, WalkOK, StandOK, SpinOK, table, locks

LEMMA Updates ==
  ASSUME TypeOK, NEW p \in Procs
  PROVE  /\ \A l \in PCs : Goto(p, l) => StandOK'
         /\ \A k \in Procs : Visit(p, k) => WalkOK'
         /\ Go(p) => SpinOK'
         /\ NextSlot(p) => WalkOK' /\ StandOK'
         /\ \A ch : WakeupSlot(p, ch) => state' \in [Procs -> States]
<1>1. WalkOK /\ StandOK /\ SpinOK /\ state \in [Procs -> States] /\ wk[p] \in Procs
  BY TypeParts DEF TableOK, LocalOK
<1>2. ASSUME NEW l \in PCs, Goto(p, l) PROVE StandOK'
  BY <1>1, <1>2 DEF Goto, StandOK
<1>3. ASSUME NEW k \in Procs, Visit(p, k) PROVE WalkOK'
  BY <1>1, <1>3 DEF Visit, WalkOK
<1>4. ASSUME Go(p) PROVE SpinOK'
  BY <1>1, <1>4 DEF Go, SpinOK
<1>5. ASSUME NextSlot(p) PROVE WalkOK' /\ StandOK'
  <2>1. {"reparent", "wake_parent"} \subseteq PCs /\ 1 \in Procs
    BY Slots DEF PCs
  <2>2. at[p] \in Procs
    BY <1>1 DEF WalkOK
  <2> QED
    BY <1>2, <1>3, <1>5, <2>1, <2>2, Slots DEF NextSlot
<1>6. ASSUME NEW ch, WakeupSlot(p, ch) PROVE state' \in [Procs -> States]
  BY <1>1, <1>6 DEF WakeupSlot, States
<1> QED
  BY <1>2, <1>3, <1>4, <1>5, <1>6

-----------------------------------------------------------------------------
(* One step per action: each keeps the types. *)
LEMMA NextType == TypeOK /\ [Next]_vars => TypeOK'
<1> SUFFICES ASSUME TypeOK, [Next]_vars PROVE TypeOK'
  OBVIOUS
<1>1. TableOK /\ CpuOK /\ LocalOK /\ WalkOK /\ StandOK /\ SpinOK
  BY TypeParts
<1>2. /\ PCs = {"none", "user", "alloc", "link", "start", "exit", "reparent",
                "wake_init", "wake_parent", "zombie", "dead", "wait", "scan", "sleep",
                "asleep", "relock", "kill", "panic"}
      /\ \A q \in Procs : at[q] \in Procs /\ wk[q] \in Procs
  BY <1>1 DEF PCs, WalkOK, LocalOK
<1>3. ASSUME NEW c \in CPUs, NEW p \in Procs, Dispatch(c, p) PROVE TypeOK'
  <2>1. TableOK'
    BY <1>1, <1>3, <1>2 DEF Dispatch, TableOK, States
  <2>2. CpuOK'
    BY <1>1, <1>3 DEF Dispatch, CpuOK, locks
  <2>3. StandOK'
    BY <1>1, <1>3, <1>2, Updates, Unchanged DEF Dispatch
  <2> QED
    BY <1>1, <1>3, <2>1, <2>2, <2>3, Unchanged, Updates, TypeParts DEF Dispatch, table, locals, locks
<1>4. ASSUME NEW c \in CPUs, NEW p \in Procs, Yield(c, p) PROVE TypeOK'
  <2>1. TableOK'
    BY <1>1, <1>4, <1>2 DEF Yield, TableOK, States
  <2>2. CpuOK'
    BY <1>1, <1>4 DEF Yield, CpuOK, locks
  <2> QED
    BY <1>1, <1>4, <2>1, <2>2, Unchanged, Updates, TypeParts DEF Yield, table, locals, locks
<1>5. ASSUME NEW c \in CPUs, NEW p \in Procs, Sched(c, p) PROVE TypeOK'
  <2>1. CpuOK'
    BY <1>1, <1>5 DEF Sched, CpuOK, locks
  <2> QED
    BY <1>1, <1>5, <2>1, Unchanged, Updates, TypeParts DEF Sched, table, locals, locks
<1>6. ASSUME NEW c \in CPUs, NEW p \in Procs, CallFork(c, p) PROVE TypeOK'
  <2>1. WalkOK'
    BY <1>1, <1>6, <1>2, Slots, Updates, Unchanged DEF CallFork
  <2>2. StandOK'
    BY <1>1, <1>6, <1>2, Updates, Unchanged DEF CallFork
  <2> QED
    BY <1>1, <1>6, <2>1, <2>2, Unchanged, Updates, TypeParts DEF CallFork, table, locals, locks
<1>7. ASSUME NEW c \in CPUs, NEW p \in Procs, CallExit(c, p) PROVE TypeOK'
  <2>1. StandOK'
    BY <1>1, <1>7, <1>2, Updates, Unchanged DEF CallExit
  <2> QED
    BY <1>1, <1>7, <2>1, Unchanged, Updates, TypeParts DEF CallExit, table, locals, locks
<1>8. ASSUME NEW c \in CPUs, NEW p \in Procs, CallWait(c, p) PROVE TypeOK'
  <2>1. StandOK'
    BY <1>1, <1>8, <1>2, Updates, Unchanged DEF CallWait
  <2> QED
    BY <1>1, <1>8, <2>1, Unchanged, Updates, TypeParts DEF CallWait, table, locals, locks
<1>9. ASSUME NEW c \in CPUs, NEW p \in Procs, NEW t \in Targets, CallKill(c, p, t) PROVE TypeOK'
  <2>1. LocalOK'
    BY <1>1, <1>9, <1>2, Slots, TargetsAssumption DEF CallKill, LocalOK
  <2>2. WalkOK'
    BY <1>1, <1>9, <1>2, Slots, Updates, Unchanged DEF CallKill
  <2>3. StandOK'
    BY <1>1, <1>9, <1>2, Updates, Unchanged DEF CallKill
  <2> QED
    BY <1>1, <1>9, <2>1, <2>2, <2>3, Unchanged, Updates, TypeParts DEF CallKill, table, locals, locks
<1>10. ASSUME NEW c \in CPUs, NEW p \in Procs, AllocSkip(c, p) PROVE TypeOK'
  <2>1. WalkOK'
    BY <1>1, <1>10, <1>2, Slots, Updates, Unchanged DEF AllocSkip
  <2>2. StandOK'
    BY <1>1, <1>10, <1>2, Updates, Unchanged DEF AllocSkip
  <2> QED
    BY <1>1, <1>10, <2>1, <2>2, Unchanged, Updates, TypeParts DEF AllocSkip, table, locals, locks
<1>11. ASSUME NEW c \in CPUs, NEW p \in Procs, AllocFound(c, p) PROVE TypeOK'
  <2>1. TableOK'
    BY <1>1, <1>11, <1>2 DEF AllocFound, TableOK, States
  <2>2. StandOK'
    BY <1>1, <1>11, <1>2, Updates, Unchanged DEF AllocFound
  <2> QED
    BY <1>1, <1>11, <2>1, <2>2, Unchanged, Updates, TypeParts DEF AllocFound, table, locals, locks
<1>12. ASSUME NEW c \in CPUs, NEW p \in Procs, AllocFails(c, p) PROVE TypeOK'
  <2>1. TableOK'
    BY <1>1, <1>12, <1>2 DEF AllocFails, TableOK, States
  <2>2. WalkOK'
    BY <1>1, <1>12, <1>2, Slots, Updates, Unchanged DEF AllocFails
  <2>3. StandOK'
    BY <1>1, <1>12, <1>2, Updates, Unchanged DEF AllocFails
  <2> QED
    BY <1>1, <1>12, <2>1, <2>2, <2>3, Unchanged, Updates, TypeParts DEF AllocFails, table, locals, locks
<1>13. ASSUME NEW c \in CPUs, NEW p \in Procs, Link(c, p) PROVE TypeOK'
  <2>1. TableOK'
    BY <1>1, <1>13, <1>2 DEF Link, TableOK, States
  <2>2. StandOK'
    BY <1>1, <1>13, <1>2, Updates, Unchanged DEF Link
  <2> QED
    BY <1>1, <1>13, <2>1, <2>2, Unchanged, Updates, TypeParts DEF Link, table, locals, locks
<1>14. ASSUME NEW c \in CPUs, NEW p \in Procs, Start(c, p) PROVE TypeOK'
  <2>1. TableOK'
    BY <1>1, <1>14, <1>2 DEF Start, TableOK, States
  <2>2. WalkOK'
    BY <1>1, <1>14, <1>2, Slots, Updates, Unchanged DEF Start
  <2>3. StandOK'
    BY <1>1, <1>14, <1>2, Updates, Unchanged DEF Start, StandOK
  <2> QED
    BY <1>1, <1>14, <2>1, <2>2, <2>3, Unchanged, Updates, TypeParts DEF Start, table, locals, locks
<1>15. ASSUME NEW c \in CPUs, NEW p \in Procs, ExitLock(c, p) PROVE TypeOK'
  <2>1. CpuOK'
    BY <1>1, <1>15 DEF ExitLock, CpuOK, locks
  <2>2. WalkOK'
    BY <1>1, <1>15, <1>2, Slots, Updates, Unchanged DEF ExitLock
  <2>3. StandOK'
    BY <1>1, <1>15, <1>2, Updates, Unchanged DEF ExitLock
  <2> QED
    BY <1>1, <1>15, <2>1, <2>2, <2>3, Unchanged, Updates, TypeParts DEF ExitLock, table, locals, locks
<1>16. ASSUME NEW c \in CPUs, NEW p \in Procs, ReparentChild(c, p) PROVE TypeOK'
  <2>1. TableOK'
    BY <1>1, <1>16, <1>2, Slots DEF ReparentChild, TableOK, States
  <2>2. StandOK'
    BY <1>1, <1>16, <1>2, Updates, Unchanged DEF ReparentChild
  <2> QED
    BY <1>1, <1>16, <2>1, <2>2, Unchanged, Updates, TypeParts DEF ReparentChild, table, locals, locks
<1>17. ASSUME NEW c \in CPUs, NEW p \in Procs, ReparentSkip(c, p) PROVE TypeOK'
  <2>1. WalkOK'
    BY <1>1, <1>17, <1>2, Slots, Updates, Unchanged DEF ReparentSkip
  <2>2. StandOK'
    BY <1>1, <1>17, <1>2, Updates, Unchanged DEF ReparentSkip
  <2> QED
    BY <1>1, <1>17, <2>1, <2>2, Unchanged, Updates, TypeParts DEF ReparentSkip, table, locals, locks
<1>18. ASSUME NEW c \in CPUs, NEW p \in Procs, WakeInit(c, p) PROVE TypeOK'
  <2>1. TableOK'
    BY <1>1, <1>18, <1>2, Updates DEF WakeInit, TableOK, States
  <2>2. LocalOK'
    BY <1>1, <1>18, <1>2, Slots DEF WakeInit, LocalOK
  <2>3. WalkOK'
    BY <1>1, <1>18, <1>2, Slots, Updates, Unchanged DEF WakeInit
  <2>4. StandOK'
    BY <1>1, <1>18, <1>2, Updates, Unchanged DEF WakeInit
  <2> QED
    BY <1>1, <1>18, <2>1, <2>2, <2>3, <2>4, Unchanged, Updates, TypeParts DEF WakeInit, table, locals, locks
<1>19. ASSUME NEW c \in CPUs, NEW p \in Procs, WakeParent(c, p) PROVE TypeOK'
  <2>1. TableOK'
    BY <1>1, <1>19, <1>2, Updates DEF WakeParent, TableOK, States
  <2>2. LocalOK'
    BY <1>1, <1>19, <1>2, Slots DEF WakeParent, LocalOK
  <2>3. StandOK'
    BY <1>1, <1>19, <1>2, Updates, Unchanged DEF WakeParent
  <2> QED
    BY <1>1, <1>19, <2>1, <2>2, <2>3, Unchanged, Updates, TypeParts DEF WakeParent, table, locals, locks
<1>20. ASSUME NEW c \in CPUs, NEW p \in Procs, Zombie(c, p) PROVE TypeOK'
  <2>1. TableOK'
    BY <1>1, <1>20, <1>2 DEF Zombie, TableOK, States
  <2>2. CpuOK'
    BY <1>1, <1>20 DEF Zombie, CpuOK, locks
  <2>3. StandOK'
    BY <1>1, <1>20, <1>2, Updates, Unchanged DEF Zombie
  <2> QED
    BY <1>1, <1>20, <2>1, <2>2, <2>3, Unchanged, Updates, TypeParts DEF Zombie, table, locals, locks
<1>21. ASSUME NEW c \in CPUs, NEW p \in Procs, WaitLock(c, p) PROVE TypeOK'
  <2>1. CpuOK'
    BY <1>1, <1>21 DEF WaitLock, CpuOK, locks
  <2>2. LocalOK'
    BY <1>1, <1>21, <1>2, Slots DEF WaitLock, LocalOK
  <2>3. WalkOK'
    BY <1>1, <1>21, <1>2, Slots, Updates, Unchanged DEF WaitLock
  <2>4. StandOK'
    BY <1>1, <1>21, <1>2, Updates, Unchanged DEF WaitLock
  <2> QED
    BY <1>1, <1>21, <2>1, <2>2, <2>3, <2>4, Unchanged, Updates, TypeParts DEF WaitLock, table, locals, locks
<1>22. ASSUME NEW c \in CPUs, NEW p \in Procs, ScanOther(c, p) PROVE TypeOK'
  <2>1. CpuOK'
    BY <1>1, <1>22 DEF ScanOther, Scanned, CpuOK, locks
  <2>2. LocalOK'
    BY <1>1, <1>22, <1>2, Slots DEF ScanOther, Scanned, LocalOK
  <2>3. WalkOK'
    BY <1>1, <1>22, <1>2, Slots, Updates, Unchanged DEF ScanOther, Scanned
  <2>4. StandOK'
    BY <1>1, <1>22, <1>2, Updates, Unchanged DEF ScanOther, Scanned
  <2> QED
    BY <1>1, <1>22, <2>1, <2>2, <2>3, <2>4, Unchanged, Updates, TypeParts DEF ScanOther, Scanned, table, locals, locks
<1>23. ASSUME NEW c \in CPUs, NEW p \in Procs, ScanChild(c, p) PROVE TypeOK'
  <2>1. CpuOK'
    BY <1>1, <1>23 DEF ScanChild, Scanned, CpuOK, locks
  <2>2. LocalOK'
    BY <1>1, <1>23, <1>2, Slots DEF ScanChild, Scanned, LocalOK
  <2>3. WalkOK'
    BY <1>1, <1>23, <1>2, Slots, Updates, Unchanged DEF ScanChild, Scanned
  <2>4. StandOK'
    BY <1>1, <1>23, <1>2, Updates, Unchanged DEF ScanChild, Scanned
  <2> QED
    BY <1>1, <1>23, <2>1, <2>2, <2>3, <2>4, Unchanged, Updates, TypeParts DEF ScanChild, Scanned, table, locals, locks
<1>24. ASSUME NEW c \in CPUs, NEW p \in Procs, Reap(c, p) PROVE TypeOK'
  <2>1. TableOK'
    BY <1>1, <1>24, <1>2 DEF Reap, TableOK, States
  <2>2. CpuOK'
    BY <1>1, <1>24 DEF Reap, CpuOK, locks
  <2>3. LocalOK'
    BY <1>1, <1>24, <1>2, Slots DEF Reap, LocalOK
  <2>4. WalkOK'
    BY <1>1, <1>24, <1>2, Slots, Updates, Unchanged DEF Reap
  <2>5. StandOK'
    BY <1>1, <1>24, <1>2, Updates, Unchanged DEF Reap, StandOK
  <2> QED
    BY <1>1, <1>24, <2>1, <2>2, <2>3, <2>4, <2>5, Unchanged, Updates, TypeParts DEF Reap, table, locals, locks
<1>25. ASSUME NEW c \in CPUs, NEW p \in Procs, ReapFails(c, p) PROVE TypeOK'
  <2>1. CpuOK'
    BY <1>1, <1>25 DEF ReapFails, CpuOK, locks
  <2>2. LocalOK'
    BY <1>1, <1>25, <1>2, Slots DEF ReapFails, LocalOK
  <2>3. WalkOK'
    BY <1>1, <1>25, <1>2, Slots, Updates, Unchanged DEF ReapFails
  <2>4. StandOK'
    BY <1>1, <1>25, <1>2, Updates, Unchanged DEF ReapFails
  <2> QED
    BY <1>1, <1>25, <2>1, <2>2, <2>3, <2>4, Unchanged, Updates, TypeParts DEF ReapFails, table, locals, locks
<1>26. ASSUME NEW c \in CPUs, NEW p \in Procs, Sleep(c, p) PROVE TypeOK'
  <2>1. TableOK'
    BY <1>1, <1>26, <1>2 DEF Sleep, TableOK, States
  <2>2. CpuOK'
    BY <1>1, <1>26 DEF Sleep, CpuOK, locks
  <2>3. StandOK'
    BY <1>1, <1>26, <1>2, Updates, Unchanged DEF Sleep
  <2> QED
    BY <1>1, <1>26, <2>1, <2>2, <2>3, Unchanged, Updates, TypeParts DEF Sleep, table, locals, locks
<1>27. ASSUME NEW c \in CPUs, NEW p \in Procs, KillHit(c, p) PROVE TypeOK'
  <2>1. TableOK'
    BY <1>1, <1>27, <1>2 DEF KillHit, TableOK, States
  <2>2. LocalOK'
    BY <1>1, <1>27, <1>2, Slots DEF KillHit, LocalOK
  <2>3. WalkOK'
    BY <1>1, <1>27, <1>2, Slots, Updates, Unchanged DEF KillHit
  <2>4. StandOK'
    BY <1>1, <1>27, <1>2, Updates, Unchanged DEF KillHit
  <2> QED
    BY <1>1, <1>27, <2>1, <2>2, <2>3, <2>4, Unchanged, Updates, TypeParts DEF KillHit, table, locals, locks
<1>28. ASSUME NEW c \in CPUs, NEW p \in Procs, KillSkip(c, p) PROVE TypeOK'
  <2>1. LocalOK'
    BY <1>1, <1>28, <1>2, Slots DEF KillSkip, LocalOK
  <2>2. WalkOK'
    BY <1>1, <1>28, <1>2, Slots, Updates, Unchanged DEF KillSkip
  <2>3. StandOK'
    BY <1>1, <1>28, <1>2, Updates, Unchanged DEF KillSkip
  <2> QED
    BY <1>1, <1>28, <2>1, <2>2, <2>3, Unchanged, Updates, TypeParts DEF KillSkip, table, locals, locks
<1>29. ASSUME NEW c \in CPUs, NEW p \in Procs, Spin(c, p) PROVE TypeOK'
  <2>1. SpinOK'
    BY <1>1, <1>29 DEF Spin, SpinOK
  <2> QED
    BY <1>1, <1>29, <2>1, Unchanged, Updates, TypeParts DEF Spin, table, locals, locks
<1>30. CASE UNCHANGED vars
  BY <1>1, <1>30, Unchanged, TypeParts DEF vars, locals
<1> QED
  BY <1>3, <1>4, <1>5, <1>6, <1>7, <1>8, <1>9, <1>10, <1>11, <1>12, <1>13, <1>14, <1>15, <1>16, <1>17, <1>18, <1>19, <1>20, <1>21, <1>22, <1>23, <1>24, <1>25, <1>26, <1>27, <1>28, <1>29, <1>30
     DEF Next, Call, KernelStep

-----------------------------------------------------------------------------
(* A step that no lock changes hands in: the others' states change only    *)
(* when they are on no CPU, and nobody comes in or goes out of the section *)
(* under wait_lock.                                                        *)
LEMMA QuietStack ==
  ASSUME TypeOK, StackInv, UNCHANGED <<cpu, locks>>,
         \A q \in Procs : /\ pc'[q] \in WaitLocked <=> pc[q] \in WaitLocked
                          /\ state'[q] = state[q]
                             \/ /\ \A c \in CPUs : cpu[c] # q
                                /\ state'[q] # "RUNNING"
  PROVE  StackInv'
BY DEF StackInv, TypeOK, locks

LEMMA NextStack == TypeOK /\ StackInv /\ SlotInv /\ [Next]_vars => StackInv'
<1> SUFFICES ASSUME TypeOK, StackInv, SlotInv, [Next]_vars PROVE StackInv'
  OBVIOUS
<1>1. /\ state \in [Procs -> States] /\ pc \in [Procs -> PCs] /\ at \in [Procs -> Procs]
      /\ wk \in [Procs -> Procs]
      /\ wait_lock \in CPUs \cup {None} /\ plock \in [Procs -> CPUs \cup {None}]
      /\ cpu \in [CPUs -> Procs \cup {None}]
  BY DEF TypeOK
<1>2. None \notin Procs /\ None \notin CPUs
  BY Slots
<1> DEFINE Quiet == \A q \in Procs : /\ pc'[q] \in WaitLocked <=> pc[q] \in WaitLocked
                                     /\ state'[q] = state[q]
                                        \/ /\ \A c \in CPUs : cpu[c] # q
                                           /\ state'[q] # "RUNNING"
<1>3. /\ \A q \in Procs : Free(q) /\ state[q] # "RUNNING" => \A c \in CPUs : cpu[c] # q
      /\ \A q \in Procs : state[q] \in {"UNUSED", "USED"} => \A c \in CPUs : cpu[c] # q
      /\ \A q \in Procs : pc[q] \in Forking => state[at[q]] = "USED"
      /\ \A q \in Procs : state[q] \in {"UNUSED", "USED"} <=> pc[q] = "none"
      /\ \A q \in Procs : pc[q] \in WaitLocked => state[q] = "RUNNING"
  BY <1>2 DEF StackInv, SlotInv, Free
<1> USE DEF On, Goto
<1>4. ASSUME NEW c \in CPUs, NEW p \in Procs, Dispatch(c, p) PROVE StackInv'
  BY <1>1, <1>2, <1>3, <1>4 DEF Dispatch, StackInv, locks, Free, WaitLocked
<1>5. ASSUME NEW c \in CPUs, NEW p \in Procs, Yield(c, p) PROVE StackInv'
  BY <1>1, <1>2, <1>5 DEF Yield, StackInv, Free
<1>6. ASSUME NEW c \in CPUs, NEW p \in Procs, Sched(c, p) PROVE StackInv'
  BY <1>1, <1>2, <1>3, <1>6 DEF Sched, StackInv, table
<1>7. ASSUME NEW c \in CPUs, NEW p \in Procs,
             \/ CallFork(c, p) \/ CallExit(c, p) \/ CallWait(c, p)
             \/ \E t \in Targets : CallKill(c, p, t)
             \/ AllocSkip(c, p) \/ AllocFails(c, p) \/ Link(c, p)
             \/ KillSkip(c, p) \/ Spin(c, p)
      PROVE  StackInv'
  <2> USE <1>7 DEF CallFork, CallExit, CallWait, CallKill, AllocSkip, AllocFails, Link,
                   KillSkip, Spin
  <2>1. UNCHANGED <<cpu, locks, state>>
    BY DEF table
  <2>2. \A q \in Procs : pc'[q] \in WaitLocked <=> pc[q] \in WaitLocked
    BY <1>1 DEF WaitLocked
  <2> QED
    BY <2>1, <2>2, QuietStack
<1>8. ASSUME NEW c \in CPUs, NEW p \in Procs,
             ReparentChild(c, p) \/ ReparentSkip(c, p)
      PROVE  StackInv'
  <2> USE <1>8 DEF ReparentChild, ReparentSkip, NextSlot
  <2>1. UNCHANGED <<cpu, locks, state>>
    BY DEF table
  <2>2. \A q \in Procs : pc'[q] \in WaitLocked <=> pc[q] \in WaitLocked
    BY <1>1 DEF WaitLocked
  <2> QED
    BY <2>1, <2>2, QuietStack
<1>9. ASSUME NEW c \in CPUs, NEW p \in Procs, AllocFound(c, p) PROVE StackInv'
  <2>1. Quiet
    BY <1>1, <1>3, <1>9 DEF AllocFound, WaitLocked
  <2> QED
    BY <1>9, <2>1, QuietStack DEF AllocFound
<1>10. ASSUME NEW c \in CPUs, NEW p \in Procs, Start(c, p) PROVE StackInv'
  <2>1. Quiet
    BY <1>1, <1>3, <1>10 DEF Start, WaitLocked, Forking
  <2> QED
    BY <1>10, <2>1, QuietStack DEF Start
<1>11. ASSUME NEW c \in CPUs, NEW p \in Procs, KillHit(c, p) PROVE StackInv'
  <2>1. Quiet
    BY <1>1, <1>3, <1>11 DEF KillHit, WaitLocked
  <2> QED
    BY <1>11, <2>1, QuietStack DEF KillHit
<1>12. ASSUME NEW c \in CPUs, NEW p \in Procs, WakeInit(c, p) \/ WakeParent(c, p) PROVE StackInv'
  <2>1. Quiet
    <3>1. ASSUME NEW ch, WakeupSlot(p, ch)
          PROVE  \A q \in Procs : state'[q] = state[q]
                                  \/ /\ \A d \in CPUs : cpu[d] # q
                                     /\ state'[q] # "RUNNING"
      BY <1>1, <1>3, <3>1 DEF WakeupSlot
    <3>2. \A q \in Procs : pc'[q] \in WaitLocked <=> pc[q] \in WaitLocked
      BY <1>1, <1>12 DEF WakeInit, WakeParent, NextSlot, WaitLocked
    <3> QED
      BY <1>12, <3>1, <3>2 DEF WakeInit, WakeParent
  <2> QED
    BY <1>12, <2>1, QuietStack DEF WakeInit, WakeParent
<1>13. ASSUME NEW c \in CPUs, NEW p \in Procs, ExitLock(c, p) \/ WaitLock(c, p) PROVE StackInv'
  <2>1. /\ cpu[c] = p /\ wait_lock = None /\ wait_lock' = c
        /\ pc'[p] \in WaitLocked
        /\ \A q \in Procs : q # p => pc'[q] = pc[q]
        /\ UNCHANGED <<cpu, plock, state>>
    BY <1>1, <1>13 DEF ExitLock, WaitLock, table, WaitLocked
  <2> QED
    BY <1>1, <1>2, <2>1 DEF StackInv
<1>14. ASSUME NEW c \in CPUs, NEW p \in Procs, Zombie(c, p) \/ Sleep(c, p) PROVE StackInv'
  <2>1. /\ cpu[c] = p /\ state[p] = "RUNNING" /\ pc[p] \in WaitLocked
        /\ wait_lock' = None /\ plock' = [plock EXCEPT ![p] = c]
        /\ state'[p] \in {"ZOMBIE", "SLEEPING"} /\ pc'[p] \notin WaitLocked
        /\ \A q \in Procs : q # p => pc'[q] = pc[q] /\ state'[q] = state[q]
        /\ UNCHANGED cpu
    BY <1>1, <1>14 DEF Zombie, Sleep, WaitLocked
  <2> QED
    BY <1>1, <1>2, <2>1 DEF StackInv
<1>15. ASSUME NEW c \in CPUs, NEW p \in Procs,
              \/ ScanOther(c, p) \/ ScanChild(c, p) \/ ReapFails(c, p) \/ Reap(c, p)
       PROVE  StackInv'
  <2>1. /\ cpu[c] = p /\ state[p] = "RUNNING" /\ pc[p] \in WaitLocked
        /\ UNCHANGED <<cpu, plock>>
    BY <1>15 DEF ScanOther, ScanChild, ReapFails, Reap, WaitLocked
  <2>2. \/ UNCHANGED wait_lock /\ pc'[p] \in WaitLocked
        \/ wait_lock' = None /\ pc'[p] \notin WaitLocked
    BY <1>1, <1>3, <1>15 DEF ScanOther, ScanChild, Scanned, ReapFails, Reap, WaitLocked
  <2>3. \A q \in Procs : q # p =>
          \/ pc'[q] = pc[q] /\ state'[q] = state[q]
          \/ /\ \A d \in CPUs : cpu[d] # q
             /\ state[q] = "ZOMBIE" /\ state'[q] = "UNUSED" /\ pc'[q] \notin WaitLocked
    BY <1>1, <1>3, <1>15 DEF ScanOther, ScanChild, Scanned, ReapFails, Reap, table, WaitLocked
  <2>4. state'[p] = "RUNNING"
    BY <1>1, <1>15 DEF ScanOther, ScanChild, Scanned, ReapFails, Reap, table
  <2> QED
    BY <1>1, <1>2, <2>1, <2>2, <2>3, <2>4 DEF StackInv
<1>16. CASE UNCHANGED vars
  BY <1>16, QuietStack DEF vars, table
<1> QED
  BY <1>4, <1>5, <1>6, <1>7, <1>8, <1>9, <1>10, <1>11, <1>12, <1>13, <1>14, <1>15, <1>16
     DEF Next, Call, KernelStep

-----------------------------------------------------------------------------
LEMMA NextSlotInv == TypeOK /\ StackInv /\ SlotInv /\ [Next]_vars => SlotInv'
<1> SUFFICES ASSUME TypeOK, StackInv, SlotInv, [Next]_vars PROVE SlotInv'
  OBVIOUS
<1>1. /\ state \in [Procs -> States] /\ pc \in [Procs -> PCs] /\ at \in [Procs -> Procs]
      /\ wk \in [Procs -> Procs] /\ chan \in [Procs -> Procs \cup {None}]
      /\ parent \in [Procs -> Procs \cup {None}]
  BY DEF TypeOK
<1> USE DEF On, Goto, Visit, WaitLocked, Forking, SlotInv
<1>2. ASSUME NEW c \in CPUs, NEW p \in Procs, Dispatch(c, p) PROVE SlotInv'
  BY <1>1, <1>2 DEF Dispatch, table, locals
<1>3. ASSUME NEW c \in CPUs, NEW p \in Procs, Yield(c, p) PROVE SlotInv'
  <2>1. pc[p] \notin WaitLocked
    BY <1>3 DEF Yield, Held, StackInv
  <2> QED
    BY <1>1, <1>3, <2>1 DEF Yield, table, locals
<1>4. ASSUME NEW c \in CPUs, NEW p \in Procs, Sched(c, p) PROVE SlotInv'
  BY <1>1, <1>4 DEF Sched, table, locals
<1>5. ASSUME NEW c \in CPUs, NEW p \in Procs, CallFork(c, p) PROVE SlotInv'
  BY <1>1, <1>5 DEF CallFork, table, locals
<1>6. ASSUME NEW c \in CPUs, NEW p \in Procs, CallExit(c, p) PROVE SlotInv'
  BY <1>1, <1>6 DEF CallExit, table, locals
<1>7. ASSUME NEW c \in CPUs, NEW p \in Procs, CallWait(c, p) PROVE SlotInv'
  BY <1>1, <1>7 DEF CallWait, table, locals
<1>8. ASSUME NEW c \in CPUs, NEW p \in Procs, NEW t \in Targets, CallKill(c, p, t) PROVE SlotInv'
  BY <1>1, <1>8 DEF CallKill, table, locals
<1>9. ASSUME NEW c \in CPUs, NEW p \in Procs, AllocSkip(c, p) PROVE SlotInv'
  BY <1>1, <1>9 DEF AllocSkip, table, locals
<1>10. ASSUME NEW c \in CPUs, NEW p \in Procs, AllocFound(c, p) PROVE SlotInv'
  BY <1>1, <1>10 DEF AllocFound, table, locals
<1>11. ASSUME NEW c \in CPUs, NEW p \in Procs, AllocFails(c, p) PROVE SlotInv'
  BY <1>1, <1>11 DEF AllocFails, table, locals
<1>12. ASSUME NEW c \in CPUs, NEW p \in Procs, Link(c, p) PROVE SlotInv'
  BY <1>1, <1>12 DEF Link, table, locals
<1>13. ASSUME NEW c \in CPUs, NEW p \in Procs, Start(c, p) PROVE SlotInv'
  BY <1>1, <1>13 DEF Start, table, locals
<1>14. ASSUME NEW c \in CPUs, NEW p \in Procs, ExitLock(c, p) PROVE SlotInv'
  BY <1>1, <1>14 DEF ExitLock, table, locals
<1>15. ASSUME NEW c \in CPUs, NEW p \in Procs, ReparentChild(c, p) PROVE SlotInv'
  BY <1>1, <1>15, Slots DEF ReparentChild, table, locals
<1>16. ASSUME NEW c \in CPUs, NEW p \in Procs, ReparentSkip(c, p) PROVE SlotInv'
  BY <1>1, <1>16 DEF ReparentSkip, table, locals, NextSlot
<1>17. ASSUME NEW c \in CPUs, NEW p \in Procs, WakeInit(c, p) PROVE SlotInv'
  BY <1>1, <1>17 DEF WakeInit, table, locals, WakeupSlot, NextSlot
<1>18. ASSUME NEW c \in CPUs, NEW p \in Procs, WakeParent(c, p) PROVE SlotInv'
  BY <1>1, <1>18 DEF WakeParent, table, locals, WakeupSlot
<1>19. ASSUME NEW c \in CPUs, NEW p \in Procs, Zombie(c, p) PROVE SlotInv'
  BY <1>1, <1>19 DEF Zombie, table, locals
<1>20. ASSUME NEW c \in CPUs, NEW p \in Procs, WaitLock(c, p) PROVE SlotInv'
  BY <1>1, <1>20 DEF WaitLock, table, locals
<1>21. ASSUME NEW c \in CPUs, NEW p \in Procs, ScanOther(c, p) PROVE SlotInv'
  BY <1>1, <1>21 DEF ScanOther, table, locals, Scanned
<1>22. ASSUME NEW c \in CPUs, NEW p \in Procs, ScanChild(c, p) PROVE SlotInv'
  BY <1>1, <1>22 DEF ScanChild, table, locals, Scanned
<1>23. ASSUME NEW c \in CPUs, NEW p \in Procs, Reap(c, p) PROVE SlotInv'
  BY <1>1, <1>23 DEF Reap, table, locals
<1>24. ASSUME NEW c \in CPUs, NEW p \in Procs, ReapFails(c, p) PROVE SlotInv'
  BY <1>1, <1>24 DEF ReapFails, table, locals
<1>25. ASSUME NEW c \in CPUs, NEW p \in Procs, Sleep(c, p) PROVE SlotInv'
  BY <1>1, <1>25 DEF Sleep, table, locals
<1>26. ASSUME NEW c \in CPUs, NEW p \in Procs, KillHit(c, p) PROVE SlotInv'
  BY <1>1, <1>26 DEF KillHit, table, locals
<1>27. ASSUME NEW c \in CPUs, NEW p \in Procs, KillSkip(c, p) PROVE SlotInv'
  BY <1>1, <1>27 DEF KillSkip, table, locals
<1>28. ASSUME NEW c \in CPUs, NEW p \in Procs, Spin(c, p) PROVE SlotInv'
  BY <1>1, <1>28 DEF Spin, table, locals
<1>29. CASE UNCHANGED vars
  BY <1>29 DEF vars, table, locals
<1> QED
  BY <1>2, <1>3, <1>4, <1>5, <1>6, <1>7, <1>8, <1>9, <1>10, <1>11, <1>12, <1>13, <1>14, <1>15, <1>16, <1>17, <1>18, <1>19, <1>20, <1>21, <1>22, <1>23, <1>24, <1>25, <1>26, <1>27, <1>28, <1>29
     DEF Next, Call, KernelStep

-----------------------------------------------------------------------------
(* One process at a time is in the section under wait_lock, and a process  *)
(* that can enter it finds nobody there.                                   *)
LEMMA AloneInside ==
  ASSUME TypeOK, StackInv, SlotInv, WaitInv, NEW p \in Procs,
         pc[p] \in WaitLocked \/ wait_lock = None
  PROVE  \A q \in Procs : q # p => pc[q] \notin WaitLocked /\ wk[q] = 1
<1> SUFFICES ASSUME NEW q \in Procs, q # p PROVE pc[q] \notin WaitLocked /\ wk[q] = 1
  OBVIOUS
<1>1. \A r \in Procs : pc[r] \in WaitLocked => \E c \in CPUs : cpu[c] = r /\ wait_lock = c
  BY DEF StackInv, SlotInv
<1>2. pc[q] \notin WaitLocked
  BY <1>1, Slots
<1>3. pc[q] \notin {"wake_init", "wake_parent"}
  BY <1>2 DEF WaitLocked
<1> QED
  BY <1>2, <1>3 DEF WaitInv, WakeInv

(* A step outside the loops under wait_lock: nobody falls asleep or exits, *)
(* no process loses a child, and a child got is no zombie.                 *)
Looping == {"wake_init", "wake_parent", "zombie", "scan", "sleep"}

Outside ==
  /\ \A q \in Procs :
       /\ state'[q] = "SLEEPING" => state[q] = "SLEEPING"
       /\ state'[q] = "ZOMBIE" => state[q] = "ZOMBIE"
       /\ pc'[q] # pc[q] => pc[q] \notin Looping /\ pc'[q] \notin Looping
       /\ pc[q] \in Looping => UNCHANGED <<at[q], havekids[q], parent[q]>>
       /\ UNCHANGED wk[q]
       /\ \A r \in Procs : /\ Child(q, r) => Child(q, r)'
                           /\ Child(q, r)' /\ state'[q] = "ZOMBIE" => Child(q, r)
  /\ pc'[initproc] \notin Exiting \cup {"none"}

LEMMA OutsideKeeps ==
  ASSUME TypeOK, WaitInv, NoLostWakeup, Outside
  PROVE  WaitInv' /\ NoLostWakeup'
<1>1. \A p \in Procs : ScanInv(p)'
  <2> SUFFICES ASSUME NEW p \in Procs PROVE ScanInv(p)'
    OBVIOUS
  <2>1. ScanInv(p)
    BY DEF WaitInv
  <2>2. CASE pc'[p] \in {"scan", "sleep"}
    <3>1. pc'[p] = pc[p] /\ UNCHANGED <<at[p], havekids[p]>>
      BY <2>2 DEF Outside, Looping
    <3> QED
      BY <2>1, <3>1 DEF Outside, ScanInv
  <2>3. CASE pc'[p] \notin {"scan", "sleep"}
    BY <2>3 DEF ScanInv
  <2> QED
    BY <2>2, <2>3
<1>2. \A p \in Procs : WakeInv(p)'
  <2> SUFFICES ASSUME NEW p \in Procs PROVE WakeInv(p)'
    OBVIOUS
  <2>1. WakeInv(p) /\ initproc \in Procs
    BY Slots DEF WaitInv
  <2>2. CASE pc'[p] = pc[p] /\ pc[p] \in Looping
    BY <2>1, <2>2 DEF Outside, WakeInv
  <2>3. CASE pc'[p] \notin Looping /\ pc[p] \notin Looping
    BY <2>1, <2>3 DEF Outside, WakeInv, Looping
  <2> QED
    BY <2>2, <2>3 DEF Outside
<1>3. NoLostWakeup'
  BY DEF Outside, NoLostWakeup, Looping
<1> QED
  BY <1>1, <1>2, <1>3 DEF WaitInv, Outside

LEMMA MostAreOutside ==
  ASSUME TypeOK, StackInv, SlotInv, WaitInv, NEW c \in CPUs, NEW p \in Procs,
         \/ Dispatch(c, p) \/ Yield(c, p) \/ Sched(c, p) \/ Call(c, p)
         \/ AllocSkip(c, p) \/ AllocFound(c, p) \/ AllocFails(c, p)
         \/ Link(c, p) \/ Start(c, p) \/ ExitLock(c, p)
         \/ KillHit(c, p) \/ KillSkip(c, p) \/ Spin(c, p)
  PROVE  Outside
<1>1. /\ state \in [Procs -> States] /\ pc \in [Procs -> PCs] /\ at \in [Procs -> Procs]
      /\ parent \in [Procs -> Procs \cup {None}] /\ wk \in [Procs -> Procs]
      /\ initproc \in Procs /\ None \notin Procs
  BY Slots DEF TypeOK
<1>2. /\ pc[initproc] \notin Exiting \cup {"none"}
      /\ \A q \in Procs : /\ state[q] \in {"UNUSED", "USED"} <=> pc[q] = "none"
                          /\ pc[q] \in Forking => state[at[q]] = "USED"
                          /\ state[q] = "UNUSED" => parent[q] = None
                          /\ pc[q] = "link" => parent[at[q]] = None
  BY DEF WaitInv, SlotInv
<1> USE DEF On, Goto, Visit, Outside, Looping, Child, Exiting
<1>3. CASE Dispatch(c, p)
  BY <1>1, <1>2, <1>3 DEF Dispatch, locals
<1>4. CASE Yield(c, p)
  BY <1>1, <1>2, <1>4 DEF Yield, locals
<1>5. CASE Sched(c, p)
  BY <1>1, <1>2, <1>5 DEF Sched, locals, table
<1>6. CASE CallFork(c, p) \/ CallWait(c, p)
  BY <1>1, <1>2, <1>6 DEF CallFork, CallWait, locals, table
<1>7. CASE CallExit(c, p)
  BY <1>1, <1>2, <1>7 DEF CallExit, locals, table
<1>8. CASE \E t \in Targets : CallKill(c, p, t)
  BY <1>1, <1>2, <1>8 DEF CallKill, table
<1>9. CASE AllocSkip(c, p)
  BY <1>1, <1>2, <1>9 DEF AllocSkip, table
<1>10. CASE AllocFound(c, p)
  BY <1>1, <1>2, <1>10 DEF AllocFound, locals
<1>11. CASE AllocFails(c, p)
  BY <1>1, <1>2, <1>11 DEF AllocFails
<1>12. CASE Link(c, p)
  BY <1>1, <1>2, <1>12 DEF Link, locals, Forking
<1>13. CASE Start(c, p)
  BY <1>1, <1>2, <1>13 DEF Start, Forking
<1>14. CASE ExitLock(c, p)
  BY <1>1, <1>2, <1>14 DEF ExitLock, table
<1>15. CASE KillHit(c, p)
  BY <1>1, <1>2, <1>15 DEF KillHit
<1>16. CASE KillSkip(c, p)
  BY <1>1, <1>2, <1>16 DEF KillSkip, table
<1>17. CASE Spin(c, p)
  BY <1>1, <1>2, <1>17 DEF Spin, locals, table
<1> QED
  BY <1>3, <1>4, <1>5, <1>6, <1>7, <1>8, <1>9, <1>10, <1>11, <1>12, <1>13, <1>14, <1>15,
     <1>16, <1>17 DEF Call

(* Inside, the others stay outside: what is left to show is about p.       *)
LEMMA InsideKeeps ==
  ASSUME TypeOK, StackInv, SlotInv, WaitInv, NEW p \in Procs,
         pc[p] \in WaitLocked \/ wait_lock = None,
         \A q \in Procs : q # p => pc'[q] \in {pc[q], "none"} /\ wk'[q] = wk[q],
         p # initproc => pc'[initproc] = pc[initproc],
         pc'[p] \notin Exiting \cup {"none"} \/ p # initproc,
         ScanInv(p)', WakeInv(p)'
  PROVE  WaitInv'
<1>1. \A q \in Procs : q # p => pc'[q] \notin WaitLocked /\ wk'[q] = 1
  BY AloneInside DEF WaitLocked
<1>2. ASSUME NEW q \in Procs, q # p PROVE ScanInv(q)' /\ WakeInv(q)'
  <2>1. pc'[q] \notin {"scan", "sleep", "wake_init", "wake_parent", "zombie"}
    BY <1>1, <1>2 DEF WaitLocked
  <2> QED
    BY <1>1, <1>2, <2>1 DEF ScanInv, WakeInv
<1> QED
  BY <1>2, Slots DEF WaitInv

(* What the proofs of the actions inside use: the types, the place of a    *)
(* sleeper, that p is not one and is alone.                                *)
LEMMA InsideFacts ==
  ASSUME IInv, NEW c \in CPUs, NEW p \in Procs, On(c, p, pc[p]),
         pc[p] \in WaitLocked \/ wait_lock = None
  PROVE  /\ state \in [Procs -> States] /\ pc \in [Procs -> PCs] /\ at \in [Procs -> Procs]
         /\ parent \in [Procs -> Procs \cup {None}] /\ wk \in [Procs -> Procs]
         /\ havekids \in [Procs -> BOOLEAN]
         /\ initproc \in Procs /\ None \notin Procs
         /\ state[p] = "RUNNING"
         /\ pc[p] \in Exiting => p # initproc
         /\ \A q \in Procs : state[q] = "SLEEPING" => chan[q] = q
         /\ \A q \in Procs : state[q] = "UNUSED" => parent[q] = None
         /\ \A q \in Procs : q # p => pc[q] \notin WaitLocked
         /\ ScanInv(p) /\ WakeInv(p) /\ NoLostWakeup
         /\ \A q \in Procs : q <= NPROC /\ ~(q < 1) /\ (q < at[p] + 1 <=> q < at[p] \/ q = at[p])
<1>1. /\ TypeOK /\ StackInv /\ SlotInv /\ WaitInv /\ NoLostWakeup
  BY DEF IInv
<1>2. \A q \in Procs : q # p => pc[q] \notin WaitLocked
  BY <1>1, AloneInside
<1>3. \A q \in Procs : q <= NPROC /\ ~(q < 1) /\ (q < at[p] + 1 <=> q < at[p] \/ q = at[p])
  <2>1. at[p] \in Procs
    BY <1>1 DEF TypeOK
  <2> QED
    BY <2>1, SlotNumbers
<1> QED
  BY <1>1, <1>2, <1>3, Slots DEF TypeOK, SlotInv, WaitInv, On

LEMMA ReparentKeeps ==
  ASSUME IInv, NEW c \in CPUs, NEW p \in Procs, ReparentChild(c, p) \/ ReparentSkip(c, p)
  PROVE  WaitInv' /\ NoLostWakeup'
<1>1. On(c, p, pc[p]) /\ pc[p] = "reparent" /\ pc[p] \in WaitLocked /\ pc[p] \in Exiting
  BY DEF ReparentChild, ReparentSkip, On, WaitLocked, Exiting
<1>2. TypeOK /\ StackInv /\ SlotInv /\ WaitInv
  BY DEF IInv
<1>3. /\ pc'[p] \in {"reparent", "wake_init", "wake_parent"}
      /\ \A q \in Procs : q # p => pc'[q] = pc[q]
      /\ UNCHANGED <<state, wk>>
  BY <1>1, InsideFacts DEF ReparentChild, ReparentSkip, NextSlot, Goto, table, locals
<1>4. ScanInv(p)' /\ WakeInv(p)'
  <2>1. wk'[p] = 1
    BY <1>1, <1>2, <1>3 DEF WaitInv, WakeInv
  <2>2. \A q \in Procs : 1 <= q
    BY SlotNumbers
  <2> QED
    BY <1>3, <2>1, <2>2 DEF ScanInv, WakeInv
<1>5. WaitInv'
  BY <1>1, <1>2, <1>3, <1>4, InsideFacts, InsideKeeps
<1>6. NoLostWakeup'
  <2>1. CASE ReparentChild(c, p)
    <3>1. /\ parent' = [parent EXCEPT ![at[p]] = initproc]
          /\ parent[at[p]] = p /\ pc'[p] = "wake_init"
      BY <1>1, <2>1, InsideFacts DEF ReparentChild, Goto
    <3> QED
      BY <1>1, <1>3, <3>1, InsideFacts DEF NoLostWakeup, Child, WaitLocked
  <2>2. CASE ReparentSkip(c, p)
    <3>1. UNCHANGED parent
      BY <2>2 DEF ReparentSkip, table
    <3> QED
      BY <1>1, <1>3, <3>1, InsideFacts DEF NoLostWakeup, Child, WaitLocked
  <2> QED
    BY <2>1, <2>2
<1> QED
  BY <1>5, <1>6

LEMMA WakeInitKeeps ==
  ASSUME IInv, NEW c \in CPUs, NEW p \in Procs, WakeInit(c, p)
  PROVE  WaitInv' /\ NoLostWakeup'
<1>1. On(c, p, pc[p]) /\ pc[p] = "wake_init" /\ pc[p] \in WaitLocked /\ pc[p] \in Exiting
  BY DEF WakeInit, On, WaitLocked, Exiting
<1>2. TypeOK /\ StackInv /\ SlotInv /\ WaitInv
  BY DEF IInv
<1>3. /\ pc'[p] \in {"wake_init", "reparent", "wake_parent"}
      /\ \A q \in Procs : q # p => pc'[q] = pc[q] /\ wk'[q] = wk[q]
      /\ pc'[p] # "wake_init" => wk'[p] = 1
      /\ UNCHANGED parent
  BY <1>1, InsideFacts DEF WakeInit, NextSlot, Goto
<1>4. \A q \in Procs : \/ state'[q] = state[q]
                       \/ state[q] = "SLEEPING" /\ state'[q] = "RUNNABLE"
  BY <1>1, InsideFacts DEF WakeInit, WakeupSlot
<1>5. state'[initproc] # "SLEEPING"
  <2>1. state[initproc] = "SLEEPING" => wk[p] = initproc /\ p # initproc /\ chan[initproc] = initproc
    BY <1>1, InsideFacts DEF WakeInv, initproc
  <2> QED
    BY <1>1, <1>4, <2>1, InsideFacts DEF WakeInit, WakeupSlot
<1>6. ScanInv(p)' /\ WakeInv(p)'
  <2>1. \A q \in Procs : 1 <= q
    BY SlotNumbers
  <2> QED
    BY <1>3, <1>5, <2>1 DEF ScanInv, WakeInv
<1>7. WaitInv'
  BY <1>1, <1>2, <1>3, <1>6, InsideFacts, InsideKeeps
<1>8. NoLostWakeup'
  BY <1>1, <1>3, <1>4, <1>5, InsideFacts DEF NoLostWakeup, Child
<1> QED
  BY <1>7, <1>8

LEMMA WakeParentKeeps ==
  ASSUME IInv, NEW c \in CPUs, NEW p \in Procs, WakeParent(c, p)
  PROVE  WaitInv' /\ NoLostWakeup'
<1>1. On(c, p, pc[p]) /\ pc[p] = "wake_parent" /\ pc[p] \in WaitLocked /\ pc[p] \in Exiting
  BY DEF WakeParent, On, WaitLocked, Exiting
<1>2. TypeOK /\ StackInv /\ SlotInv /\ WaitInv
  BY DEF IInv
<1>3. /\ \A q \in Procs : q # p => pc'[q] = pc[q] /\ wk'[q] = wk[q]
      /\ \/ wk[p] < NPROC /\ pc'[p] = "wake_parent" /\ wk'[p] = wk[p] + 1
         \/ ~(wk[p] < NPROC) /\ pc'[p] = "zombie" /\ wk'[p] = 1
      /\ UNCHANGED parent
  BY <1>1, InsideFacts DEF WakeParent, Goto
<1>4. \A q \in Procs : \/ state'[q] = state[q]
                       \/ state[q] = "SLEEPING" /\ state'[q] = "RUNNABLE"
  BY <1>1, InsideFacts DEF WakeParent, WakeupSlot
<1>5. ASSUME NEW q \in Procs, parent[p] = q, state'[q] = "SLEEPING" PROVE wk[p] < q
  <2>1. state[q] = "SLEEPING" /\ wk[p] <= q /\ chan[q] = q /\ q # p
    BY <1>1, <1>4, <1>5, InsideFacts DEF WakeInv
  <2>2. wk[p] # q
    BY <1>1, <1>5, <2>1, InsideFacts DEF WakeParent, WakeupSlot
  <2> QED
    <3>1. wk[p] \in Procs
      BY <1>1, InsideFacts
    <3> QED
      BY <2>1, <2>2, <3>1, SlotNumbers
<1>6. ScanInv(p)' /\ WakeInv(p)'
  <2>1. \A q \in Procs : wk[p] < q => wk[p] + 1 <= q /\ wk[p] < NPROC
    <3>1. wk[p] \in Procs
      BY <1>1, InsideFacts
    <3> QED
      BY <3>1, SlotNumbers
  <2> QED
    BY <1>3, <1>5, <2>1 DEF ScanInv, WakeInv
<1>7. WaitInv'
  BY <1>1, <1>2, <1>3, <1>6, InsideFacts, InsideKeeps
<1>8. NoLostWakeup'
  BY <1>1, <1>3, <1>4, InsideFacts DEF NoLostWakeup, Child, WaitLocked
<1> QED
  BY <1>7, <1>8

LEMMA ZombieKeeps ==
  ASSUME IInv, NEW c \in CPUs, NEW p \in Procs, Zombie(c, p)
  PROVE  WaitInv' /\ NoLostWakeup'
<1>1. On(c, p, pc[p]) /\ pc[p] = "zombie" /\ pc[p] \in WaitLocked /\ pc[p] \in Exiting
  BY DEF Zombie, On, WaitLocked, Exiting
<1>2. TypeOK /\ StackInv /\ SlotInv /\ WaitInv
  BY DEF IInv
<1>3. /\ pc'[p] = "dead" /\ state'[p] = "ZOMBIE"
      /\ \A q \in Procs : q # p => pc'[q] = pc[q] /\ state'[q] = state[q]
      /\ UNCHANGED <<parent, wk>>
  BY <1>1, InsideFacts DEF Zombie, Goto, locals
<1>4. ScanInv(p)' /\ WakeInv(p)'
  BY <1>1, <1>2, <1>3 DEF ScanInv, WakeInv, WaitInv
<1>5. WaitInv'
  BY <1>1, <1>2, <1>3, <1>4, InsideFacts, InsideKeeps
<1>6. \A q \in Procs : parent[p] = q => state[q] # "SLEEPING"
  BY <1>1, InsideFacts DEF WakeInv
<1>7. NoLostWakeup'
  BY <1>1, <1>3, <1>6, InsideFacts DEF NoLostWakeup, Child, WaitLocked
<1> QED
  BY <1>5, <1>7

LEMMA WaitLockKeeps ==
  ASSUME IInv, NEW c \in CPUs, NEW p \in Procs, WaitLock(c, p)
  PROVE  WaitInv' /\ NoLostWakeup'
<1>1. On(c, p, pc[p]) /\ pc[p] \in {"wait", "relock"} /\ wait_lock = None
  BY DEF WaitLock
<1>2. TypeOK /\ StackInv /\ SlotInv /\ WaitInv
  BY DEF IInv
<1>3. /\ pc'[p] = "scan" /\ at'[p] = 1 /\ havekids'[p] = FALSE
      /\ \A q \in Procs : q # p => pc'[q] = pc[q]
      /\ UNCHANGED <<state, parent, wk>>
  BY <1>1, InsideFacts DEF WaitLock, Goto, Visit, table
<1>4. ScanInv(p)' /\ WakeInv(p)'
  <2>1. wk[p] = 1
    BY <1>1, <1>2 DEF WaitInv, WakeInv
  <2>2. \A q \in Procs : ~(q < 1)
    BY SlotNumbers
  <2> QED
    BY <1>3, <2>1, <2>2 DEF ScanInv, WakeInv
<1>5. WaitInv'
  BY <1>1, <1>2, <1>3, <1>4, InsideFacts, InsideKeeps DEF Exiting
<1>6. NoLostWakeup'
  BY <1>1, <1>3, InsideFacts DEF NoLostWakeup, Child, WaitLocked
<1> QED
  BY <1>5, <1>6

(* A slot passed in wait() is no zombie child of p; past the last one, all *)
(* of them have been passed.                                               *)
LEMMA ScanKeeps ==
  ASSUME IInv, NEW c \in CPUs, NEW p \in Procs, ScanOther(c, p) \/ ScanChild(c, p)
  PROVE  WaitInv' /\ NoLostWakeup'
<1>1. On(c, p, pc[p]) /\ pc[p] = "scan" /\ pc[p] \in WaitLocked
  BY DEF ScanOther, ScanChild, On, WaitLocked
<1>2. TypeOK /\ StackInv /\ SlotInv /\ WaitInv
  BY DEF IInv
<1>3. /\ \A q \in Procs : q # p => pc'[q] = pc[q]
      /\ pc'[p] \in {"scan", "sleep", "user"}
      /\ UNCHANGED <<state, parent, wk>>
  BY <1>1, InsideFacts DEF ScanOther, ScanChild, Scanned, Goto, table
<1>4. PICK kids \in BOOLEAN : /\ Scanned(p, kids)
                              /\ kids => havekids[p] \/ Child(at[p], p)
                              /\ Child(at[p], p) => state[at[p]] # "ZOMBIE"
  <2>1. at[p] \in Procs
    BY <1>1, InsideFacts
  <2>2. CASE ScanOther(c, p)
    BY <1>1, <2>1, <2>2, InsideFacts DEF ScanOther, Child
  <2>3. CASE ScanChild(c, p)
    BY <1>1, <2>1, <2>3, InsideFacts DEF ScanChild, Child
  <2> QED
    BY <2>2, <2>3
<1>5. /\ \A q \in Procs : (q < at[p] \/ q = at[p]) /\ Child(q, p) => state[q] # "ZOMBIE"
      /\ kids => \E q \in Procs : (q < at[p] \/ q = at[p]) /\ Child(q, p)
  BY <1>1, <1>4, InsideFacts DEF ScanInv
<1>6. \A q, r \in Procs : Child(q, r)' <=> Child(q, r)
  BY <1>3 DEF Child
<1>7. ScanInv(p)' /\ WakeInv(p)'
  <2>1. CASE at[p] < NPROC
    <3>1. at'[p] = at[p] + 1 /\ havekids'[p] = kids /\ pc'[p] = "scan" /\ wk'[p] = 1
      BY <1>1, <1>2, <1>3, <1>4, <2>1, InsideFacts DEF Scanned, Visit, WaitInv, WakeInv
    <3> QED
      BY <1>1, <1>3, <1>5, <1>6, <3>1, InsideFacts DEF ScanInv, WakeInv
  <2>2. CASE ~(at[p] < NPROC)
    <3>1. \A q \in Procs : q < at[p] \/ q = at[p]
      <4>1. at[p] \in Procs
        BY <1>1, InsideFacts
      <4> QED
        BY <2>2, <4>1, SlotNumbers
    <3>2. /\ (pc'[p] = "sleep" /\ kids) \/ pc'[p] = "user"
          /\ wk'[p] = 1
      BY <1>1, <1>2, <1>3, <1>4, <2>2, InsideFacts DEF Scanned, Goto, WaitInv, WakeInv
    <3> QED
      BY <1>3, <1>5, <1>6, <3>1, <3>2 DEF ScanInv, WakeInv
  <2> QED
    BY <2>1, <2>2
<1>8. WaitInv'
  BY <1>1, <1>2, <1>3, <1>7, InsideFacts, InsideKeeps DEF Exiting
<1>9. NoLostWakeup'
  BY <1>1, <1>3, <1>6, InsideFacts DEF NoLostWakeup, WaitLocked
<1> QED
  BY <1>8, <1>9

LEMMA ReapKeeps ==
  ASSUME IInv, NEW c \in CPUs, NEW p \in Procs, Reap(c, p) \/ ReapFails(c, p)
  PROVE  WaitInv' /\ NoLostWakeup'
<1>1. On(c, p, pc[p]) /\ pc[p] = "scan" /\ pc[p] \in WaitLocked
  BY DEF Reap, ReapFails, On, WaitLocked
<1>2. TypeOK /\ StackInv /\ SlotInv /\ WaitInv
  BY DEF IInv
<1>3. /\ state[at[p]] = "ZOMBIE" /\ parent[at[p]] = p /\ at[p] \in Procs
      /\ at[p] # p /\ at[p] # initproc
  BY <1>1, <1>2, InsideFacts DEF Reap, ReapFails, SlotInv, WaitInv, Exiting
<1>4. /\ pc'[p] = "user" /\ UNCHANGED wk
      /\ \A q \in Procs : q # p /\ q # at[p] => pc'[q] = pc[q]
      /\ pc'[at[p]] \in {pc[at[p]], "none"}
      /\ \A q \in Procs : q # at[p] => state'[q] = state[q] /\ parent'[q] = parent[q]
      /\ \/ state'[at[p]] = "UNUSED" /\ parent'[at[p]] = None
         \/ state'[at[p]] = state[at[p]] /\ parent'[at[p]] = parent[at[p]]
  BY <1>1, <1>3, InsideFacts DEF Reap, ReapFails, Goto, table
<1>5. ScanInv(p)' /\ WakeInv(p)'
  BY <1>1, <1>2, <1>4 DEF ScanInv, WakeInv, WaitInv
<1>6. WaitInv'
  BY <1>1, <1>2, <1>3, <1>4, <1>5, InsideFacts, InsideKeeps DEF Exiting
<1>7. NoLostWakeup'
  BY <1>1, <1>3, <1>4, InsideFacts DEF NoLostWakeup, Child, WaitLocked
<1> QED
  BY <1>6, <1>7

LEMMA SleepKeeps ==
  ASSUME IInv, NEW c \in CPUs, NEW p \in Procs, Sleep(c, p)
  PROVE  WaitInv' /\ NoLostWakeup'
<1>1. On(c, p, pc[p]) /\ pc[p] = "sleep" /\ pc[p] \in WaitLocked
  BY DEF Sleep, On, WaitLocked
<1>2. TypeOK /\ StackInv /\ SlotInv /\ WaitInv
  BY DEF IInv
<1>3. /\ pc'[p] = "asleep" /\ state'[p] = "SLEEPING"
      /\ \A q \in Procs : q # p => pc'[q] = pc[q] /\ state'[q] = state[q]
      /\ UNCHANGED <<parent, wk>>
  BY <1>1, InsideFacts DEF Sleep, Goto, locals
<1>4. ScanInv(p)' /\ WakeInv(p)'
  BY <1>1, <1>2, <1>3 DEF ScanInv, WakeInv, WaitInv
<1>5. WaitInv'
  BY <1>1, <1>2, <1>3, <1>4, InsideFacts, InsideKeeps DEF Exiting
<1>6. NoLostWakeup'
  BY <1>1, <1>3, InsideFacts DEF NoLostWakeup, Child, WaitLocked, ScanInv
<1> QED
  BY <1>5, <1>6

-----------------------------------------------------------------------------
LEMMA InitInv == Init => IInv
<1> SUFFICES ASSUME Init PROVE IInv
  OBVIOUS
<1>1. TypeOK
  BY InitType
<1>2. StackInv /\ SlotInv
  BY Slots DEF Init, StackInv, SlotInv, WaitLocked, Forking
<1>3. WaitInv /\ NoLostWakeup
  BY Slots DEF Init, WaitInv, ScanInv, WakeInv, Exiting, NoLostWakeup
<1> QED
  BY <1>1, <1>2, <1>3 DEF IInv

LEMMA NextInv == IInv /\ [Next]_vars => IInv'
<1> SUFFICES ASSUME IInv, [Next]_vars PROVE IInv'
  OBVIOUS
<1>1. TypeOK' /\ StackInv' /\ SlotInv'
  BY NextType, NextStack, NextSlotInv DEF IInv
<1>2. WaitInv' /\ NoLostWakeup'
  <2>1. CASE UNCHANGED vars
    BY <2>1 DEF vars, table, locals, IInv, WaitInv, ScanInv, WakeInv, NoLostWakeup, Child
  <2>2. CASE \E c \in CPUs, p \in Procs :
               \/ Dispatch(c, p) \/ Yield(c, p) \/ Sched(c, p) \/ Call(c, p)
               \/ AllocSkip(c, p) \/ AllocFound(c, p) \/ AllocFails(c, p)
               \/ Link(c, p) \/ Start(c, p) \/ ExitLock(c, p)
               \/ KillHit(c, p) \/ KillSkip(c, p) \/ Spin(c, p)
    <3>1. Outside
      BY <2>2, MostAreOutside DEF IInv
    <3> QED
      BY <3>1, OutsideKeeps DEF IInv
  <2>3. CASE \E c \in CPUs, p \in Procs :
               \/ ReparentChild(c, p) \/ ReparentSkip(c, p) \/ WakeInit(c, p)
               \/ WakeParent(c, p) \/ Zombie(c, p) \/ WaitLock(c, p)
               \/ ScanOther(c, p) \/ ScanChild(c, p) \/ Reap(c, p) \/ ReapFails(c, p)
               \/ Sleep(c, p)
    BY <2>3, ReparentKeeps, WakeInitKeeps, WakeParentKeeps, ZombieKeeps, WaitLockKeeps,
       ScanKeeps, ReapKeeps, SleepKeeps
  <2> QED
    BY <2>1, <2>2, <2>3 DEF Next, KernelStep
<1> QED
  BY <1>1, <1>2 DEF IInv

(* The inductive invariant holds in every reachable state: types, which    *)
(* CPU is where with which locks, where a thread stands in each state, and *)
(* what the loops under wait_lock have established so far.                 *)
THEOREM Invariance == Spec => []IInv
<1>1. Init => IInv
  BY InitInv
<1>2. IInv /\ [Next]_vars => IInv'
  BY NextInv
<1> QED
  BY <1>1, <1>2, PTL DEF Spec

(* The variables keep their types: no loop over proc[] leaves the table.   *)
THEOREM TypeCorrect == Spec => []TypeOK
<1>1. IInv => TypeOK
  BY DEF IInv
<1> QED
  BY <1>1, Invariance, PTL

(* No kernel stack is used by two CPUs, nor freed with a CPU on it: the    *)
(* zombie keeps its lock until the scheduler has left its stack.           *)
THEOREM OneCpuPerStack == Spec => []OneStack
<1>1. IInv => OneStack
  BY DEF IInv, StackInv, OneStack
<1> QED
  BY <1>1, Invariance, PTL

(* sched() is entered with one lock held, p->lock: it does not panic.      *)
THEOREM SchedNeverPanics == Spec => []SchedHoldsOneLock
<1>1. IInv => SchedHoldsOneLock
  <2> SUFFICES ASSUME IInv, NEW c \in CPUs, NEW p \in Procs, cpu[c] = p, state[p] # "RUNNING"
               PROVE  Held(c) = {p}
    BY DEF SchedHoldsOneLock
  <2>1. \A q \in Procs : plock[q] = c <=> q = p
    BY DEF IInv, StackInv
  <2>2. wait_lock # c
    BY DEF IInv, StackInv, SlotInv
  <2> QED
    BY <2>1, <2>2 DEF Held
<1> QED
  BY <1>1, Invariance, PTL

(* Whoever sleeps in wait() has a child that lives, and none that has      *)
(* exited without waking it, however fork(), exit(), wait() and kill()     *)
(* interleave: sleep() lets go of wait_lock with p->lock held.             *)
THEOREM WakeupsAreKept == Spec => []NoLostWakeup
<1>1. IInv => NoLostWakeup
  BY DEF IInv
<1> QED
  BY <1>1, Invariance, PTL
=============================================================================
