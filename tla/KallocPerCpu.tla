---------------------------- MODULE KallocPerCpu ----------------------------
(***************************************************************************)
(* lab9-lock/kernel/kalloc.c: the page allocator with a free list and a    *)
(* lock for each CPU.  A kalloc() whose own list is empty keeps its lock   *)
(* while it takes the other lists' locks one after the other.              *)
(*                                                                         *)
(* cpuid() is called with interrupts on, so the caller may be on another   *)
(* CPU when it acquires the lock of the CPU it was on; with a CPU for each *)
(* process any choice of that CPU is possible.  A section that acquires no *)
(* second lock is one action.  The order in a free list is abstracted.     *)
(***************************************************************************)
EXTENDS Naturals

CONSTANTS Procs,   \* processes in the kernel, each on a CPU
          NCPU,    \* number of free lists
          Pages,   \* the pages of physical memory
          None     \* the owner of a free lock

CPUs == 0..(NCPU - 1)

ASSUME NCPUAssumption == NCPU \in Nat \ {0}
ASSUME NoneAssumption == None \notin Procs

VARIABLES freelist,   \* kmem.freelist
          lock,       \* the owner of each kmem.lock
          pc,
          cpu,        \* the local CPU
          i,          \* the list kalloc()'s loop has reached
          held,       \* pages each process has got from kalloc()
          exhausted,  \* history: no page was free at some time in the call
          freed       \* history: a page was freed during the call

kmem == <<freelist, lock>>
locals == <<pc, cpu, i, held>>
history == <<exhausted, freed>>
vars == <<kmem, locals, history>>

PCs == {"idle", "take", "scan", "failed", "free"}

(* kinit() gives each list its share of the pages.                         *)
Init == /\ freelist \in [CPUs -> SUBSET Pages]
        /\ UNION {freelist[c] : c \in CPUs} = Pages
        /\ \A c, d \in CPUs : c # d => freelist[c] \cap freelist[d] = {}
        /\ lock = [c \in CPUs |-> None]
        /\ pc = [p \in Procs |-> "idle"]
        /\ cpu = [p \in Procs |-> 0]
        /\ i = [p \in Procs |-> 0]
        /\ held = [p \in Procs |-> {}]
        /\ exhausted = [p \in Procs |-> FALSE]
        /\ freed = [p \in Procs |-> FALSE]

Goto(p, l) == pc' = [pc EXCEPT ![p] = l]

InKalloc(p) == pc[p] \in {"take", "scan"}

(* What happens while each call of kalloc() lasts. *)
NoneFree == \A c \in CPUs : freelist[c] = {}

Record ==
  LET Lasts(p) == pc'[p] \in {"take", "scan", "failed"} IN
  /\ exhausted' = [p \in Procs |->
       Lasts(p) /\ (exhausted[p] \/ (pc[p] # "failed" /\ NoneFree'))]
  /\ freed' = [p \in Procs |->
       Lasts(p) /\ (freed[p] \/ (InKalloc(p) /\ \E c \in CPUs :
                                   ~(freelist'[c] \subseteq freelist[c])))]

(* int CPU = cpuid(), in kalloc(). *)
CallKalloc(p, c) == /\ pc[p] = "idle"
                    /\ cpu' = [cpu EXCEPT ![p] = c]
                    /\ Goto(p, "take")
                    /\ UNCHANGED <<kmem, i, held>>
                    /\ Record

(* r is taken from list c. *)
Pop(p, c, r) == /\ freelist' = [freelist EXCEPT ![c] = @ \ {r}]
                /\ held' = [held EXCEPT ![p] = @ \cup {r}]
                /\ Goto(p, "idle")

TakeOwn(p) == /\ pc[p] = "take"
              /\ lock[cpu[p]] = None
              /\ \E r \in freelist[cpu[p]] : Pop(p, cpu[p], r)
              /\ UNCHANGED <<lock, cpu, i>>
              /\ Record

(* The list is empty: the loop over the others begins, its lock held. *)
OwnIsEmpty(p) == /\ pc[p] = "take"
                 /\ lock[cpu[p]] = None
                 /\ freelist[cpu[p]] = {}
                 /\ lock' = [lock EXCEPT ![cpu[p]] = p]
                 /\ i' = [i EXCEPT ![p] = 0]
                 /\ Goto(p, "scan")
                 /\ UNCHANGED <<freelist, cpu, held>>
                 /\ Record

(* Mutation: a page is taken from another list and stays on it. *)
M_Steal(p) == /\ pc[p] = "scan"
              /\ i[p] # cpu[p]
              /\ lock[i[p]] = None
              /\ \E r \in freelist[i[p]] :
                   held' = [held EXCEPT ![p] = @ \cup {r}]
              /\ Goto(p, "idle")
              /\ lock' = [lock EXCEPT ![cpu[p]] = None]
              /\ i' = [i EXCEPT ![p] = 0]
              /\ UNCHANGED <<freelist, cpu>>
              /\ Record

Steal(p) == /\ pc[p] = "scan"
            /\ i[p] # cpu[p]
            /\ lock[i[p]] = None
            /\ \E r \in freelist[i[p]] : Pop(p, i[p], r)
            /\ lock' = [lock EXCEPT ![cpu[p]] = None]
            /\ i' = [i EXCEPT ![p] = 0]
            /\ UNCHANGED cpu
            /\ Record

(* Mutation: the last list is not looked at. *)
M_NextList(p) ==
  /\ pc[p] = "scan"
  /\ i[p] = cpu[p] \/ (lock[i[p]] = None /\ freelist[i[p]] = {})
  /\ IF i[p] + 2 < NCPU
       THEN i' = [i EXCEPT ![p] = @ + 1] /\ UNCHANGED <<lock, pc>>
       ELSE /\ i' = [i EXCEPT ![p] = 0]
            /\ lock' = [lock EXCEPT ![cpu[p]] = None]
            /\ Goto(p, "failed")
  /\ UNCHANGED <<freelist, cpu, held>>
  /\ Record

(* The loop's own list, or one that is empty too; past the last list       *)
(* kalloc() returns 0.                                                     *)
NextList(p) ==
  /\ pc[p] = "scan"
  /\ i[p] = cpu[p] \/ (lock[i[p]] = None /\ freelist[i[p]] = {})
  /\ IF i[p] + 1 < NCPU
       THEN i' = [i EXCEPT ![p] = @ + 1] /\ UNCHANGED <<lock, pc>>
       ELSE /\ i' = [i EXCEPT ![p] = 0]
            /\ lock' = [lock EXCEPT ![cpu[p]] = None]
            /\ Goto(p, "failed")
  /\ UNCHANGED <<freelist, cpu, held>>
  /\ Record

(* The caller has seen the 0. *)
Return(p) == /\ pc[p] = "failed"
             /\ Goto(p, "idle")
             /\ UNCHANGED <<kmem, cpu, i, held>>
             /\ Record

(* int CPU = cpuid(), in kfree(). *)
CallKfree(p, c) == /\ pc[p] = "idle"
                   /\ held[p] # {}
                   /\ cpu' = [cpu EXCEPT ![p] = c]
                   /\ Goto(p, "free")
                   /\ UNCHANGED <<kmem, i, held>>
                   /\ Record

Kfree(p) == /\ pc[p] = "free"
            /\ lock[cpu[p]] = None
            /\ \E r \in held[p] :
                 /\ freelist' = [freelist EXCEPT ![cpu[p]] = @ \cup {r}]
                 /\ held' = [held EXCEPT ![p] = @ \ {r}]
            /\ Goto(p, "idle")
            /\ UNCHANGED <<lock, cpu, i>>
            /\ Record

Step(p) == TakeOwn(p) \/ OwnIsEmpty(p) \/ Steal(p) \/ NextList(p) \/ Kfree(p)

Next == \E p \in Procs : \/ Step(p)
                         \/ Return(p)
                         \/ \E c \in CPUs : CallKalloc(p, c) \/ CallKfree(p, c)

Spec == Init /\ [][Next]_vars

(* A process in the allocator goes on, and spins for no lock for ever that *)
(* is released again and again.                                            *)
Fairness == \A p \in Procs : SF_vars(Step(p))

FairSpec == Spec /\ Fairness

-----------------------------------------------------------------------------
TypeOK == /\ freelist \in [CPUs -> SUBSET Pages]
          /\ lock \in [CPUs -> Procs \cup {None}]
          /\ pc \in [Procs -> PCs]
          /\ cpu \in [Procs -> CPUs]
          /\ i \in [Procs -> CPUs]
          /\ held \in [Procs -> SUBSET Pages]
          /\ exhausted \in [Procs -> BOOLEAN]
          /\ freed \in [Procs -> BOOLEAN]

(* Every page is on one free list or with one process, and nowhere else:   *)
(* none is lost, and none is given out twice.                              *)
PagesArePartitioned ==
  /\ \A r \in Pages : \/ \E c \in CPUs : r \in freelist[c]
                      \/ \E p \in Procs : r \in held[p]
  /\ \A c, d \in CPUs : c # d => freelist[c] \cap freelist[d] = {}
  /\ \A p, q \in Procs : p # q => held[p] \cap held[q] = {}
  /\ \A c \in CPUs, p \in Procs : freelist[c] \cap held[p] = {}

(* "Returns 0 if the memory cannot be allocated" (line 81): some time in   *)
(* the call there was no page to allocate, or a kfree() put one on a list  *)
(* the loop had passed.  No other kalloc() can make it miss a page.        *)
FailsOnlyWhenExhaustedOrRaced ==
  \A p \in Procs : pc[p] = "failed" => exhausted[p] \/ freed[p]

(* The lists the loop has passed are still empty, unless a kfree() has     *)
(* filled one since.                                                       *)
VisitedAreEmpty ==
  \A p \in Procs : pc[p] = "scan" =>
    \/ freed[p]
    \/ \A c \in CPUs : c < i[p] \/ c = cpu[p] => freelist[c] = {}

(* The inductive invariant.                                                *)
IInv == /\ TypeOK
        /\ PagesArePartitioned
        /\ VisitedAreEmpty
        /\ FailsOnlyWhenExhaustedOrRaced

(* "Allocate one page.  Returns 0 if the memory cannot be allocated"       *)
(* (lines 79-81): kalloc() returns.                                        *)
KallocReturns == \A p \in Procs : InKalloc(p) ~> ~InKalloc(p)
=============================================================================
