-------------------------------- MODULE Proc --------------------------------
(***************************************************************************)
(* kernel/proc.c: the process table, the per-CPU schedulers and fork(),    *)
(* exit(), wait(), kill(), sleep() and wakeup().                           *)
(*                                                                         *)
(* A section that takes one p->lock and no other lock inside is one        *)
(* action.  wait_lock, and a p->lock that is still held when another lock  *)
(* is acquired or the CPU switches to its scheduler, are variables.  Loops *)
(* over proc[] visit one slot per action.  A local that is dead is given   *)
(* back its first value.                                                   *)
(***************************************************************************)
EXTENDS Naturals, FiniteSets

CONSTANTS NPROC,     \* maximum number of processes
          CPUs,      \* one scheduler each
          Targets,   \* bound: the pids programs pass to kill()
          Killers,   \* bound: the slots of the programs that call kill()
          MaxPid,    \* bound on allocpid(): programs stop calling fork()
          None       \* a null pointer, or the owner of a free lock

Procs == 1..NPROC    \* indices in proc[]
initproc == 1        \* userinit() gets the first slot, and pid 1

ASSUME NPROCAssumption == NPROC \in Nat \ {0}
ASSUME TargetsAssumption == Targets \subseteq Nat
ASSUME KillersAssumption == Killers \subseteq Procs
ASSUME MaxPidAssumption == MaxPid \in Nat \ {0}
ASSUME NoneAssumption == None \notin Procs \cup CPUs

VARIABLES state, pid, parent, chan, killed,  \* the fields of struct proc
          nextpid,
          wait_lock,   \* its owner
          plock,       \* the owner of each p->lock
          cpu,         \* c->proc: the process whose kernel thread runs on c
          pc,          \* where each kernel thread stands
          at,          \* the slot its loop has reached, or fork()'s np
          wk,          \* the slot the loop of wakeup() has reached
          havekids,    \* wait()'s
          target,      \* kill()'s pid
          spin         \* inside acquire(), with interrupts off

table == <<state, pid, parent, chan, killed, nextpid>>
locks == <<wait_lock, plock>>
locals == <<at, wk, havekids, target>>
vars == <<table, locks, cpu, pc, locals, spin>>

States == {"UNUSED", "USED", "SLEEPING", "RUNNABLE", "RUNNING", "ZOMBIE"}

PCs == {"none", "user", "alloc", "link", "start", "exit", "reparent",
        "wake_init", "wake_parent", "zombie", "dead", "wait", "scan", "sleep",
        "asleep", "relock", "kill", "panic"}

Init == /\ state = [p \in Procs |-> IF p = initproc THEN "RUNNABLE" ELSE "UNUSED"]
        /\ pid = [p \in Procs |-> IF p = initproc THEN 1 ELSE 0]
        /\ parent = [p \in Procs |-> None]
        /\ chan = [p \in Procs |-> None]
        /\ killed = [p \in Procs |-> FALSE]
        /\ nextpid = 2
        /\ wait_lock = None
        /\ plock = [p \in Procs |-> None]
        /\ cpu = [c \in CPUs |-> None]
        /\ pc = [p \in Procs |-> IF p = initproc THEN "user" ELSE "none"]
        /\ at = [p \in Procs |-> 1]
        /\ wk = [p \in Procs |-> 1]
        /\ havekids = [p \in Procs |-> FALSE]
        /\ target = [p \in Procs |-> 0]
        /\ spin = [p \in Procs |-> FALSE]

(* p has acquired the lock it wanted, if any. *)
Go(p) == spin' = [spin EXCEPT ![p] = FALSE]

Goto(p, l) == pc' = [pc EXCEPT ![p] = l]
Visit(p, i) == at' = [at EXCEPT ![p] = i]

(* p runs on c and stands at l. *)
On(c, p, l) == cpu[c] = p /\ state[p] = "RUNNING" /\ pc[p] = l

(* acquire(&np->lock) can succeed. *)
Free(np) == plock[np] = None

-----------------------------------------------------------------------------
(* scheduler(), sched() and yield().                                       *)

(* The loop of scheduler() comes to a RUNNABLE process and switches to it; *)
(* forkret(), yield() or sleep() then releases p->lock.                    *)
Dispatch(c, p) ==
  /\ cpu[c] = None
  /\ Free(p)
  /\ state[p] = "RUNNABLE"
  /\ state' = [state EXCEPT ![p] = "RUNNING"]
  /\ cpu' = [cpu EXCEPT ![c] = p]
  /\ IF pc[p] = "asleep"
       THEN chan' = [chan EXCEPT ![p] = None] /\ Goto(p, "relock")
       ELSE UNCHANGED <<chan, pc>>
  /\ UNCHANGED <<pid, parent, killed, nextpid, locks, locals, spin>>

(* The locks a CPU holds, its noff: interrupts are off when there are any. *)
Held(c) == {p \in Procs : plock[p] = c} \cup IF wait_lock = c THEN {None} ELSE {}

(* A timer interrupt, in user space or anywhere in the kernel that         *)
(* interrupts are on: yield() takes p->lock and the scheduler releases it. *)
Yield(c, p) ==
  /\ cpu[c] = p
  /\ state[p] = "RUNNING"
  /\ Held(c) = {} /\ ~spin[p]
  /\ Free(p)
  /\ plock' = [plock EXCEPT ![p] = c]
  /\ state' = [state EXCEPT ![p] = "RUNNABLE"]
  /\ UNCHANGED <<pid, parent, chan, killed, nextpid, wait_lock, cpu, pc, locals, spin>>

(* sched(): the CPU leaves the process's kernel stack for its scheduler's, *)
(* which releases p->lock.                                                 *)
Sched(c, p) ==
  /\ cpu[c] = p
  /\ state[p] # "RUNNING"
  /\ cpu' = [cpu EXCEPT ![c] = None]
  /\ plock' = [plock EXCEPT ![p] = None]
  /\ UNCHANGED <<table, wait_lock, pc, locals, spin>>

-----------------------------------------------------------------------------
(* fork().                                                                 *)

CallFork(c, p) == /\ On(c, p, "user")
                  /\ ~killed[p]
                  /\ nextpid <= MaxPid
                  /\ Goto(p, "alloc")
                  /\ Visit(p, 1)
                  /\ UNCHANGED <<table, locks, cpu, wk, havekids, target, spin>>

(* allocproc() passes a slot in use; past the last one, fork() fails. *)
AllocSkip(c, p) ==
  /\ On(c, p, "alloc")
  /\ Free(at[p])
  /\ state[at[p]] # "UNUSED"
  /\ IF at[p] < NPROC THEN Visit(p, at[p] + 1) /\ UNCHANGED pc
                      ELSE Visit(p, 1) /\ Goto(p, "user")
  /\ Go(p)
  /\ UNCHANGED <<table, locks, cpu, wk, havekids, target>>

(* allocproc() takes a free slot, and fork() fills it in. *)
AllocFound(c, p) ==
  /\ On(c, p, "alloc")
  /\ Free(at[p])
  /\ state[at[p]] = "UNUSED"
  /\ pid' = [pid EXCEPT ![at[p]] = nextpid]
  /\ nextpid' = nextpid + 1
  /\ state' = [state EXCEPT ![at[p]] = "USED"]
  /\ Goto(p, "link")
  /\ Go(p)
  /\ UNCHANGED <<parent, chan, killed, locks, cpu, locals>>

(* No memory for the trapframe, the page table or the copy: freeproc(np). *)
AllocFails(c, p) ==
  /\ On(c, p, "alloc")
  /\ Free(at[p])
  /\ state[at[p]] = "UNUSED"
  /\ nextpid' = nextpid + 1
  /\ killed' = [killed EXCEPT ![at[p]] = FALSE]
  /\ Visit(p, 1)
  /\ Goto(p, "user")
  /\ Go(p)
  /\ UNCHANGED <<state, pid, parent, chan, locks, cpu, wk, havekids, target>>

Link(c, p) == /\ On(c, p, "link")
              /\ wait_lock = None
              /\ parent' = [parent EXCEPT ![at[p]] = p]
              /\ Goto(p, "start")
              /\ Go(p)
              /\ UNCHANGED <<state, pid, chan, killed, nextpid, locks, cpu, locals>>

(* The child starts in forkret(), which returns to user space. *)
Start(c, p) == /\ On(c, p, "start")
               /\ Free(at[p])
               /\ state' = [state EXCEPT ![at[p]] = "RUNNABLE"]
               /\ pc' = [pc EXCEPT ![p] = "user", ![at[p]] = "user"]
               /\ Visit(p, 1)
               /\ Go(p)
               /\ UNCHANGED <<pid, parent, chan, killed, nextpid, locks, cpu,
                              wk, havekids, target>>

-----------------------------------------------------------------------------
(* exit().                                                                 *)

(* By choice, which init does not make (user/init.c), or because usertrap() *)
(* finds p->killed set.  The files are closed here, with no lock of this    *)
(* module held.                                                             *)
CallExit(c, p) ==
  /\ On(c, p, "user")
  /\ p = initproc => killed[p]
  /\ Goto(p, IF p = initproc THEN "panic" ELSE "exit")
  /\ UNCHANGED <<table, locks, cpu, locals, spin>>

ExitLock(c, p) == /\ On(c, p, "exit")
                  /\ wait_lock = None
                  /\ wait_lock' = c
                  /\ Goto(p, "reparent")
                  /\ Visit(p, 1)
                  /\ Go(p)
                  /\ UNCHANGED <<table, plock, cpu, wk, havekids, target>>

NextSlot(p) == IF at[p] < NPROC THEN Visit(p, at[p] + 1) /\ Goto(p, "reparent")
                                ELSE Visit(p, 1) /\ Goto(p, "wake_parent")

(* reparent(): a child is given to init, and wakeup(initproc) begins. *)
ReparentChild(c, p) ==
  /\ On(c, p, "reparent")
  /\ parent[at[p]] = p
  /\ parent' = [parent EXCEPT ![at[p]] = initproc]
  /\ Goto(p, "wake_init")
  /\ Go(p)
  /\ UNCHANGED <<state, pid, chan, killed, nextpid, locks, cpu, locals>>

ReparentSkip(c, p) == /\ On(c, p, "reparent")
                      /\ parent[at[p]] # p
                      /\ NextSlot(p)
                      /\ Go(p)
                      /\ UNCHANGED <<table, locks, cpu, wk, havekids, target>>

(* wakeup(ch) by p, at slot wk[p]. *)
WakeupSlot(p, ch) ==
  LET q == wk[p] IN
  IF q = p THEN UNCHANGED state
  ELSE /\ Free(q)
       /\ state' = IF state[q] = "SLEEPING" /\ chan[q] = ch
                     THEN [state EXCEPT ![q] = "RUNNABLE"] ELSE state

WakeInit(c, p) ==
  /\ On(c, p, "wake_init")
  /\ WakeupSlot(p, initproc)
  /\ IF wk[p] < NPROC
       THEN wk' = [wk EXCEPT ![p] = @ + 1] /\ UNCHANGED <<pc, at>>
       ELSE wk' = [wk EXCEPT ![p] = 1] /\ NextSlot(p)
  /\ Go(p)
  /\ UNCHANGED <<pid, parent, chan, killed, nextpid, locks, cpu, havekids, target>>

WakeParent(c, p) ==
  /\ On(c, p, "wake_parent")
  /\ WakeupSlot(p, parent[p])
  /\ IF wk[p] < NPROC
       THEN wk' = [wk EXCEPT ![p] = @ + 1] /\ UNCHANGED pc
       ELSE wk' = [wk EXCEPT ![p] = 1] /\ Goto(p, "zombie")
  /\ Go(p)
  /\ UNCHANGED <<pid, parent, chan, killed, nextpid, locks, cpu, at, havekids, target>>

(* Mutation: exit() enters sched() with wait_lock held. *)
M_ZombieKeeps(c, p) ==
  /\ On(c, p, "zombie")
  /\ Free(p)
  /\ plock' = [plock EXCEPT ![p] = c]
  /\ state' = [state EXCEPT ![p] = "ZOMBIE"]
  /\ Goto(p, "dead")
  /\ Go(p)
  /\ UNCHANGED <<pid, parent, chan, killed, nextpid, wait_lock, cpu, locals>>

(* The zombie holds its lock until it has left its kernel stack. *)
Zombie(c, p) == /\ On(c, p, "zombie")
                /\ Free(p)
                /\ plock' = [plock EXCEPT ![p] = c]
                /\ state' = [state EXCEPT ![p] = "ZOMBIE"]
                /\ wait_lock' = None
                /\ Goto(p, "dead")
                /\ Go(p)
                /\ UNCHANGED <<pid, parent, chan, killed, nextpid, cpu, locals>>

-----------------------------------------------------------------------------
(* wait() and sleep().                                                     *)

CallWait(c, p) == /\ On(c, p, "user")
                  /\ ~killed[p]
                  /\ Goto(p, "wait")
                  /\ UNCHANGED <<table, locks, cpu, locals, spin>>

(* acquire(&wait_lock), on entry or at the end of sleep(). *)
WaitLock(c, p) == /\ pc[p] \in {"wait", "relock"}
                  /\ On(c, p, pc[p])
                  /\ wait_lock = None
                  /\ wait_lock' = c
                  /\ Goto(p, "scan")
                  /\ Visit(p, 1)
                  /\ havekids' = [havekids EXCEPT ![p] = FALSE]
                  /\ Go(p)
                  /\ UNCHANGED <<table, plock, cpu, wk, target>>

(* Mutation: sleep() releases wait_lock before it takes p->lock. *)
M_Scanned(p, kids) ==
  IF at[p] < NPROC
    THEN /\ Visit(p, at[p] + 1)
         /\ havekids' = [havekids EXCEPT ![p] = kids]
         /\ UNCHANGED <<pc, wait_lock>>
    ELSE /\ Visit(p, 1)
         /\ havekids' = [havekids EXCEPT ![p] = FALSE]
         /\ wait_lock' = None
         /\ Goto(p, IF ~kids \/ killed[p] THEN "user" ELSE "sleep")

(* Mutation: the last slot of the table is not looked at. *)
M_ScannedShort(p, kids) ==
  IF at[p] + 1 < NPROC
    THEN /\ Visit(p, at[p] + 1)
         /\ havekids' = [havekids EXCEPT ![p] = kids]
         /\ UNCHANGED <<pc, wait_lock>>
    ELSE /\ Visit(p, 1)
         /\ havekids' = [havekids EXCEPT ![p] = FALSE]
         /\ IF ~kids \/ killed[p]
              THEN wait_lock' = None /\ Goto(p, "user")
              ELSE Goto(p, "sleep") /\ UNCHANGED wait_lock

(* A slot has been looked at; past the last one, wait() returns or sleeps. *)
Scanned(p, kids) ==
  IF at[p] < NPROC
    THEN /\ Visit(p, at[p] + 1)
         /\ havekids' = [havekids EXCEPT ![p] = kids]
         /\ UNCHANGED <<pc, wait_lock>>
    ELSE /\ Visit(p, 1)
         /\ havekids' = [havekids EXCEPT ![p] = FALSE]
         /\ IF ~kids \/ killed[p]
              THEN wait_lock' = None /\ Goto(p, "user")
              ELSE Goto(p, "sleep") /\ UNCHANGED wait_lock

ScanOther(c, p) == /\ On(c, p, "scan")
                   /\ parent[at[p]] # p
                   /\ Scanned(p, havekids[p])
                   /\ Go(p)
                   /\ UNCHANGED <<table, plock, cpu, wk, target>>

ScanChild(c, p) == /\ On(c, p, "scan")
                   /\ parent[at[p]] = p
                   /\ Free(at[p])
                   /\ state[at[p]] # "ZOMBIE"
                   /\ Scanned(p, TRUE)
                   /\ Go(p)
                   /\ UNCHANGED <<table, plock, cpu, wk, target>>

(* Mutation: the parent does not wait for the zombie's lock. *)
M_Reap(c, p) ==
  /\ On(c, p, "scan")
  /\ parent[at[p]] = p
  /\ state[at[p]] = "ZOMBIE"
  /\ state' = [state EXCEPT ![at[p]] = "UNUSED"]
  /\ pid' = [pid EXCEPT ![at[p]] = 0]
  /\ parent' = [parent EXCEPT ![at[p]] = None]
  /\ killed' = [killed EXCEPT ![at[p]] = FALSE]
  /\ wait_lock' = None
  /\ pc' = [pc EXCEPT ![p] = "user", ![at[p]] = "none"]
  /\ Visit(p, 1)
  /\ havekids' = [havekids EXCEPT ![p] = FALSE]
  /\ Go(p)
  /\ UNCHANGED <<chan, nextpid, plock, cpu, wk, target>>

(* wait() has found an exited child: freeproc(np), and its pid is returned. *)
Reap(c, p) ==
  /\ On(c, p, "scan")
  /\ parent[at[p]] = p
  /\ Free(at[p])
  /\ state[at[p]] = "ZOMBIE"
  /\ state' = [state EXCEPT ![at[p]] = "UNUSED"]
  /\ pid' = [pid EXCEPT ![at[p]] = 0]
  /\ parent' = [parent EXCEPT ![at[p]] = None]
  /\ chan' = [chan EXCEPT ![at[p]] = None]
  /\ killed' = [killed EXCEPT ![at[p]] = FALSE]
  /\ wait_lock' = None
  /\ pc' = [pc EXCEPT ![p] = "user", ![at[p]] = "none"]
  /\ Visit(p, 1)
  /\ havekids' = [havekids EXCEPT ![p] = FALSE]
  /\ Go(p)
  /\ UNCHANGED <<nextpid, plock, cpu, wk, target>>

(* copyout() of the exit status fails: wait() returns -1, the zombie stays. *)
(* init does not ask for the status.                                        *)
ReapFails(c, p) == /\ On(c, p, "scan")
                   /\ parent[at[p]] = p
                   /\ Free(at[p])
                   /\ state[at[p]] = "ZOMBIE"
                   /\ p # initproc
                   /\ wait_lock' = None
                   /\ Goto(p, "user")
                   /\ Visit(p, 1)
                   /\ havekids' = [havekids EXCEPT ![p] = FALSE]
                   /\ Go(p)
                   /\ UNCHANGED <<table, plock, cpu, wk, target>>

(* sleep(p, &wait_lock): p->lock is taken before wait_lock is released. *)
Sleep(c, p) == /\ On(c, p, "sleep")
               /\ Free(p)
               /\ plock' = [plock EXCEPT ![p] = c]
               /\ wait_lock' = None
               /\ chan' = [chan EXCEPT ![p] = p]
               /\ state' = [state EXCEPT ![p] = "SLEEPING"]
               /\ Goto(p, "asleep")
               /\ Go(p)
               /\ UNCHANGED <<pid, parent, killed, nextpid, cpu, locals>>

-----------------------------------------------------------------------------
(* kill().                                                                 *)

CallKill(c, p, t) == /\ p \in Killers
                     /\ On(c, p, "user")
                     /\ ~killed[p]
                     /\ target' = [target EXCEPT ![p] = t]
                     /\ Goto(p, "kill")
                     /\ Visit(p, 1)
                     /\ UNCHANGED <<table, locks, cpu, wk, havekids, spin>>

KillHit(c, p) ==
  /\ On(c, p, "kill")
  /\ Free(at[p])
  /\ pid[at[p]] = target[p]
  /\ killed' = [killed EXCEPT ![at[p]] = TRUE]
  /\ state' = IF state[at[p]] = "SLEEPING"
                THEN [state EXCEPT ![at[p]] = "RUNNABLE"] ELSE state
  /\ target' = [target EXCEPT ![p] = 0]
  /\ Visit(p, 1)
  /\ Goto(p, "user")
  /\ Go(p)
  /\ UNCHANGED <<pid, parent, chan, nextpid, locks, cpu, wk, havekids>>

KillSkip(c, p) ==
  /\ On(c, p, "kill")
  /\ Free(at[p])
  /\ pid[at[p]] # target[p]
  /\ IF at[p] < NPROC
       THEN Visit(p, at[p] + 1) /\ UNCHANGED <<target, pc>>
       ELSE Visit(p, 1) /\ Goto(p, "user") /\ target' = [target EXCEPT ![p] = 0]
  /\ Go(p)
  /\ UNCHANGED <<table, locks, cpu, wk, havekids>>

-----------------------------------------------------------------------------
(* acquire() finds its lock taken and spins: push_off() has turned the     *)
(* interrupts off (spinlock.c, line 24).                                   *)
Spin(c, p) == /\ On(c, p, pc[p])
              /\ \/ pc[p] \in {"link", "exit", "wait", "relock"} /\ wait_lock # None
                 \/ pc[p] \in {"alloc", "start", "kill"} /\ ~Free(at[p])
              /\ ~spin[p]
              /\ spin' = [spin EXCEPT ![p] = TRUE]
              /\ UNCHANGED <<table, locks, cpu, pc, locals>>

KernelStep(c, p) ==
  \/ AllocSkip(c, p) \/ AllocFound(c, p) \/ AllocFails(c, p)
  \/ Link(c, p) \/ Start(c, p)
  \/ ExitLock(c, p) \/ ReparentChild(c, p) \/ ReparentSkip(c, p)
  \/ WakeInit(c, p) \/ WakeParent(c, p) \/ Zombie(c, p)
  \/ WaitLock(c, p) \/ ScanOther(c, p) \/ ScanChild(c, p)
  \/ Reap(c, p) \/ ReapFails(c, p) \/ Sleep(c, p)
  \/ KillHit(c, p) \/ KillSkip(c, p) \/ Spin(c, p)

Call(c, p) == \/ CallFork(c, p) \/ CallExit(c, p) \/ CallWait(c, p)
              \/ \E t \in Targets : CallKill(c, p, t)

Next == \E c \in CPUs, p \in Procs :
          \/ Dispatch(c, p) \/ Yield(c, p) \/ Sched(c, p)
          \/ Call(c, p)
          \/ KernelStep(c, p)

Spec == Init /\ [][Next]_vars

(* The scheduler's loop comes to every RUNNABLE process, timer interrupts  *)
(* come, a process in the kernel goes on, no acquire() spins for ever, and *)
(* init calls wait() for ever (user/init.c).                               *)
Fairness ==
  /\ \A p \in Procs :
       /\ SF_vars(\E c \in CPUs : Dispatch(c, p))
       /\ SF_vars(\E c \in CPUs : KernelStep(c, p))
       /\ WF_vars(\E c \in CPUs : Yield(c, p) \/ Sched(c, p))
  /\ SF_vars(\E c \in CPUs : CallWait(c, initproc))

FairSpec == Spec /\ Fairness

-----------------------------------------------------------------------------
TypeOK == /\ state \in [Procs -> States]
          /\ pid \in [Procs -> Nat]
          /\ parent \in [Procs -> Procs \cup {None}]
          /\ chan \in [Procs -> Procs \cup {None}]
          /\ killed \in [Procs -> BOOLEAN]
          /\ nextpid \in Nat
          /\ wait_lock \in CPUs \cup {None}
          /\ plock \in [Procs -> CPUs \cup {None}]
          /\ cpu \in [CPUs -> Procs \cup {None}]
          /\ pc \in [Procs -> PCs]
          /\ at \in [Procs -> Procs]
          /\ wk \in [Procs -> Procs]
          /\ havekids \in [Procs -> BOOLEAN]
          /\ target \in [Procs -> Nat]
          /\ spin \in [Procs -> BOOLEAN]

(* A kernel stack has one CPU on it at most, and is not given to a new     *)
(* process while the exited one is still on it: wait() makes "sure the     *)
(* child isn't still in exit() or swtch()" (line 436).                     *)
OneStack == \A c \in CPUs, p \in Procs :
              cpu[c] = p => /\ state[p] \notin {"UNUSED", "USED"}
                            /\ \A d \in CPUs : cpu[d] = p => d = c

(* sched() never panics: it is entered with p->lock held and no other lock *)
(* (lines 519-522).                                                        *)
SchedHoldsOneLock == \A c \in CPUs, p \in Procs :
                       cpu[c] = p /\ state[p] # "RUNNING" => Held(c) = {p}

Child(q, p) == parent[q] = p /\ state[q] # "UNUSED"

(* No lost wakeup: a process asleep in wait() has a child that will wake   *)
(* it, and none that has exited, but for the instant before reparent()     *)
(* wakes init up.                                                          *)
NoLostWakeup ==
  \A p \in Procs : state[p] = "SLEEPING" =>
    /\ \E q \in Procs : Child(q, p) /\ state[q] # "ZOMBIE"
    /\ \A q \in Procs : Child(q, p) /\ state[q] = "ZOMBIE"
         => p = initproc /\ \E r \in Procs : pc[r] = "wake_init"

(* The parts of the inductive invariant.  A CPU that is not in a running   *)
(* process has that process's lock and no other, and wait_lock is held at  *)
(* known points, by a process that runs.                                   *)
WaitLocked == {"reparent", "wake_init", "wake_parent", "zombie", "scan", "sleep"}

StackInv ==
  /\ \A c \in CPUs, p \in Procs :
       /\ cpu[c] = p => /\ state[p] \notin {"UNUSED", "USED"}
                        /\ \A d \in CPUs : cpu[d] = p => d = c
                        /\ wait_lock = c <=> pc[p] \in WaitLocked
       /\ plock[p] = c <=> cpu[c] = p /\ state[p] # "RUNNING"
  /\ \A p \in Procs : state[p] = "RUNNING" => \E c \in CPUs : cpu[c] = p
  /\ \A c \in CPUs : wait_lock = c => cpu[c] # None

(* Where a kernel thread stands in each state, and the slot that fork()    *)
(* fills in: in use, fork()'s alone, nobody's child before it is linked.   *)
Forking == {"link", "start"}

SlotInv ==
  \A p \in Procs :
    /\ state[p] \in {"UNUSED", "USED"} <=> pc[p] = "none"
    /\ state[p] = "ZOMBIE" <=> pc[p] = "dead"
    /\ state[p] = "SLEEPING" => pc[p] = "asleep" /\ chan[p] = p
    /\ pc[p] = "asleep" => state[p] \in {"SLEEPING", "RUNNABLE"}
    /\ pc[p] \in WaitLocked => state[p] = "RUNNING"
    /\ pc[p] \in Forking => /\ state[at[p]] = "USED"
                            /\ \A q \in Procs : pc[q] \in Forking /\ at[q] = at[p] => q = p
    /\ state[p] = "UNUSED" => parent[p] = None
    /\ pc[p] = "link" => parent[at[p]] = None

(* What the loops under wait_lock have established so far: wakeup() leaves *)
(* nobody asleep behind it, and wait() has passed no zombie of its own.    *)
Exiting == {"exit", "reparent", "wake_init", "wake_parent", "zombie", "dead"}

ScanInv(p) ==
  /\ pc[p] = "scan" =>
       /\ \A q \in Procs : q < at[p] /\ Child(q, p) => state[q] # "ZOMBIE"
       /\ havekids[p] => \E q \in Procs : q < at[p] /\ Child(q, p)
  /\ pc[p] = "sleep" =>
       /\ \A q \in Procs : Child(q, p) => state[q] # "ZOMBIE"
       /\ \E q \in Procs : Child(q, p)

WakeInv(p) ==
  /\ pc[p] \notin {"wake_init", "wake_parent"} => wk[p] = 1
  /\ pc[p] = "wake_init" /\ state[initproc] = "SLEEPING" => wk[p] = 1
  /\ \A q \in Procs : parent[p] = q /\ state[q] = "SLEEPING" =>
       /\ pc[p] = "wake_parent" => wk[p] <= q
       /\ pc[p] # "zombie"

WaitInv == /\ pc[initproc] \notin Exiting \cup {"none"}
           /\ \A p \in Procs : ScanInv(p) /\ WakeInv(p)

IInv == TypeOK /\ StackInv /\ SlotInv /\ WaitInv /\ NoLostWakeup

(* q's parent has exited, or q has been given to init. *)
Orphan(q) == \E p \in Procs : /\ parent[q] = p
                              /\ p = initproc \/ state[p] \in {"ZOMBIE", "UNUSED"}

(* What an exited parent leaves behind, init reaps: reparent() misses no    *)
(* child, whoever forks, exits or waits meanwhile, and the scan of wait()   *)
(* comes to it (lines 347-360 and 434-455).                                 *)
OrphansAreReaped ==
  \A q \in Procs \ {initproc} :
    (state[q] = "ZOMBIE" /\ Orphan(q)) ~> state[q] = "UNUSED"
=============================================================================
