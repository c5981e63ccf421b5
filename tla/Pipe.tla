-------------------------------- MODULE Pipe --------------------------------
(***************************************************************************)
(* lab11-mmap/kernel/pipe.c, with file.c's references to its two ends: one *)
(* pipe, shared by processes that read, write, fork, close and are killed. *)
(*                                                                         *)
(* pi->lock is a variable: a step is one access under it, since killed is  *)
(* set without it.  sleep() releases the lock in the step that makes the   *)
(* process sleep and wakeup() makes it compete for the lock again: Proc    *)
(* shows that no wakeup() is missed.  Processes have a descriptor of an    *)
(* end at most once.                                                       *)
(***************************************************************************)
EXTENDS Naturals, FiniteSets

CONSTANTS Procs,
          Creator,    \* the process that called pipe()
          Bytes,
          PIPESIZE,
          UINT_MAX,   \* the largest nread and nwrite
          MaxN,       \* bound: the most bytes of one call
          None        \* the owner of a free lock

ASSUME SizeAssumption == /\ PIPESIZE \in Nat \ {0}
                         /\ UINT_MAX \in Nat
                         /\ (UINT_MAX + 1) % PIPESIZE = 0
                         /\ PIPESIZE <= UINT_MAX
                         /\ MaxN \in Nat
ASSUME ProcsAssumption == /\ Creator \in Procs /\ None \notin Procs
                          /\ IsFiniteSet(Procs)

VARIABLES nread, nwrite, data,
          readopen, writeopen,
          freed,      \* kfree(pi) has been called
          lock,       \* the owner of pi->lock
          ref,        \* the ref of the files of the two ends
          fd,         \* the ends each process has open
          killed,
          pc,
          n, i,       \* the arguments and counts of the calls
          ch,         \* the byte the last step moved, or None
          unannounced \* history: bytes were written, and no wakeup() followed

ring == <<nread, nwrite, data>>
flags == <<readopen, writeopen, freed>>
files == <<ref, fd>>
call == <<n, i>>
vars == <<ring, flags, lock, files, killed, pc, call, ch, unannounced>>

Ends == {"r", "w"}
InWrite == {"wlock", "wtest", "wbody", "wsleep", "wdone"}
InRead == {"rlock", "rtest", "rkilled", "rgo", "rsleep", "rcopy", "rdone"}
InClose == {"closer", "closew"}
PCs == {"idle"} \cup InWrite \cup InRead \cup InClose

(* pipealloc() has succeeded. *)
Init == /\ nread = 0 /\ nwrite = 0
        /\ data = [k \in 0..(PIPESIZE - 1) |-> None]
        /\ readopen = TRUE /\ writeopen = TRUE /\ freed = FALSE
        /\ lock = None
        /\ ref = [e \in Ends |-> 1]
        /\ fd = [p \in Procs |-> IF p = Creator THEN Ends ELSE {}]
        /\ killed = [p \in Procs |-> FALSE]
        /\ pc = [p \in Procs |-> "idle"]
        /\ n = [p \in Procs |-> 0]
        /\ i = [p \in Procs |-> 0]
        /\ ch = None
        /\ unannounced = FALSE

Uint(x) == x % (UINT_MAX + 1)

Empty == nread = nwrite
(* Mutation: one byte too many. *)
M_Full == nwrite = Uint(nread + PIPESIZE + 1)

Full == nwrite = Uint(nread + PIPESIZE)

At(p, l) == pc[p] = l
Goto(p, l) == pc' = [pc EXCEPT ![p] = l]

(* The sleepers of one channel compete for the lock; p goes on at l. *)
WakeAndGoto(p, l, sleep, retry) ==
  pc' = [q \in Procs |-> IF q = p THEN l
                         ELSE IF pc[q] = sleep THEN retry ELSE pc[q]]

WakeReadersAndGoto(p, l) == /\ WakeAndGoto(p, l, "rsleep", "rlock")
                            /\ unannounced' = FALSE
WakeWritersAndGoto(p, l) == WakeAndGoto(p, l, "wsleep", "wlock")

Acquire(p) == lock = None /\ lock' = p
Release(p) == lock = p /\ lock' = None

-----------------------------------------------------------------------------
(* A call returns: its locals are gone. *)
Forget(p) == /\ n' = [n EXCEPT ![p] = 0]
             /\ i' = [i EXCEPT ![p] = 0]

Call(p, end, k, l) == /\ At(p, "idle")
                      /\ ~killed[p]
                      /\ end \in fd[p]
                      /\ n' = [n EXCEPT ![p] = k]
                      /\ Goto(p, l)
                      /\ UNCHANGED <<ring, flags, lock, files, killed, i, unannounced>>

(* acquire(&pi->lock), at the call or after sleep(). *)
Lock(p) == /\ \/ At(p, "wlock") /\ Goto(p, "wtest")
              \/ At(p, "rlock") /\ Goto(p, "rtest")
           /\ Acquire(p)
           /\ UNCHANGED <<ring, flags, files, killed, call, unannounced>>

-----------------------------------------------------------------------------
(* pipewrite() *)

WriteTest(p) == /\ At(p, "wtest")
                /\ i[p] < n[p]
                /\ readopen /\ ~killed[p]
                /\ Goto(p, "wbody")
                /\ UNCHANGED <<ring, flags, lock, files, killed, call, unannounced>>

(* Nobody can read, or the writer has been killed: -1. *)
WriteFails(p) == /\ At(p, "wtest")
                 /\ i[p] < n[p]
                 /\ ~readopen \/ killed[p]
                 /\ Release(p)
                 /\ Goto(p, "idle")
                 /\ Forget(p)
                 /\ UNCHANGED <<ring, flags, files, killed, unannounced>>

WriteFull(p) == /\ At(p, "wbody")
                /\ Full
                /\ WakeReadersAndGoto(p, "wsleep")
                /\ Release(p)
                /\ UNCHANGED <<ring, flags, files, killed, call>>

WriteByte(p, x) == /\ At(p, "wbody")
                   /\ ~Full
                   /\ data' = [data EXCEPT ![nwrite % PIPESIZE] = x]
                   /\ nwrite' = Uint(nwrite + 1)
                   /\ ch' = x
                   /\ i' = [i EXCEPT ![p] = @ + 1]
                   /\ unannounced' = TRUE
                   /\ Goto(p, "wtest")
                   /\ UNCHANGED <<nread, flags, lock, files, killed, n>>

(* copyin() fails. *)
CopyinFails(p) == /\ At(p, "wbody")
                  /\ ~Full
                  /\ Goto(p, "wdone")
                  /\ UNCHANGED <<ring, flags, lock, files, killed, call, unannounced>>

WriteDone(p) == /\ At(p, "wdone") \/ (At(p, "wtest") /\ ~(i[p] < n[p]))
                /\ WakeReadersAndGoto(p, "idle")
                /\ Release(p)
                /\ Forget(p)
                /\ UNCHANGED <<ring, flags, files, killed>>

-----------------------------------------------------------------------------
(* piperead() *)

ReadTest(p) == /\ At(p, "rtest")
               /\ Goto(p, IF Empty /\ writeopen THEN "rkilled" ELSE "rcopy")
               /\ UNCHANGED <<ring, flags, lock, files, killed, call, unannounced>>

ReadKilled(p) == /\ At(p, "rkilled")
                 /\ killed[p]
                 /\ Release(p)
                 /\ Goto(p, "idle")
                 /\ Forget(p)
                 /\ UNCHANGED <<ring, flags, files, killed, unannounced>>

ReadNotKilled(p) == /\ At(p, "rkilled")
                    /\ ~killed[p]
                    /\ Goto(p, "rgo")
                    /\ UNCHANGED <<ring, flags, lock, files, killed, call, unannounced>>

ReadSleep(p) == /\ At(p, "rgo")
                /\ Release(p)
                /\ Goto(p, "rsleep")
                /\ UNCHANGED <<ring, flags, files, killed, call, unannounced>>

(* One byte; copyout() may fail, when it has left the pipe. *)
ReadByte(p) == /\ At(p, "rcopy")
               /\ i[p] < n[p] /\ ~Empty
               /\ ch' = data[nread % PIPESIZE]
               /\ nread' = Uint(nread + 1)
               /\ \/ Goto(p, "rdone") /\ UNCHANGED i
                  \/ i' = [i EXCEPT ![p] = @ + 1] /\ UNCHANGED pc
               /\ data' = [data EXCEPT ![nread % PIPESIZE] = None]
               /\ UNCHANGED <<nwrite, flags, lock, files, killed, n, unannounced>>

(* Mutation: no wakeup(). *)
M_ReadDone(p) == /\ At(p, "rdone") \/ (At(p, "rcopy") /\ ~(i[p] < n[p] /\ ~Empty))
                 /\ Goto(p, "idle")
                 /\ Release(p)
                 /\ Forget(p)
                 /\ UNCHANGED <<ring, flags, files, killed, unannounced>>

ReadDone(p) == /\ At(p, "rdone") \/ (At(p, "rcopy") /\ ~(i[p] < n[p] /\ ~Empty))
               /\ WakeWritersAndGoto(p, "idle")
               /\ Release(p)
               /\ Forget(p)
               /\ UNCHANGED <<ring, flags, files, killed, unannounced>>

-----------------------------------------------------------------------------
(* Mutation: no filedup(). *)
M_Fork(p, c) == /\ At(p, "idle") /\ At(c, "idle")
                /\ ~killed[p]
                /\ fd[p] # {} /\ fd[c] = {}
                /\ fd' = [fd EXCEPT ![c] = fd[p]]
                /\ killed' = [killed EXCEPT ![c] = FALSE]
                /\ UNCHANGED <<ring, flags, lock, ref, pc, call, unannounced>>

(* fork(): filedup() for every descriptor of the parent. *)
Fork(p, c) == /\ At(p, "idle") /\ At(c, "idle")
              /\ ~killed[p]
              /\ fd[p] # {} /\ fd[c] = {}
              /\ fd' = [fd EXCEPT ![c] = fd[p]]
              /\ ref' = [e \in Ends |-> IF e \in fd[p] THEN ref[e] + 1 ELSE ref[e]]
              /\ killed' = [killed EXCEPT ![c] = FALSE]
              /\ UNCHANGED <<ring, flags, lock, pc, call, unannounced>>

(* close(), or exit()'s: fileclose() under ftable.lock. *)
FileClose(p, e) == /\ At(p, "idle")
                   /\ e \in fd[p]
                   /\ fd' = [fd EXCEPT ![p] = @ \ {e}]
                   /\ ref' = [ref EXCEPT ![e] = @ - 1]
                   /\ Goto(p, IF ref[e] > 1 THEN "idle"
                              ELSE IF e = "r" THEN "closer" ELSE "closew")
                   /\ UNCHANGED <<ring, flags, lock, killed, call, unannounced>>

(* Mutation: no wakeup(). *)
M_PipeClose(p) ==
  /\ lock = None
  /\ \/ At(p, "closew") /\ writeopen' = FALSE /\ UNCHANGED readopen
     \/ At(p, "closer") /\ readopen' = FALSE /\ UNCHANGED writeopen
  /\ Goto(p, "idle")
  /\ freed' = (~readopen' /\ ~writeopen')
  /\ UNCHANGED <<ring, lock, files, killed, call, unannounced>>

(* pipeclose(), the last reference gone: one section under pi->lock. *)
PipeClose(p) ==
  /\ lock = None
  /\ \/ /\ At(p, "closew")
        /\ writeopen' = FALSE /\ UNCHANGED readopen
        /\ WakeReadersAndGoto(p, "idle")
     \/ /\ At(p, "closer")
        /\ readopen' = FALSE /\ UNCHANGED writeopen
        /\ WakeWritersAndGoto(p, "idle") /\ UNCHANGED unannounced
  /\ freed' = (~readopen' /\ ~writeopen')
  /\ UNCHANGED <<ring, lock, files, killed, call>>

(* kill(): a sleeping victim is made to run. *)
Kill(p) == /\ fd[p] # {}
           /\ ~killed[p]
           /\ killed' = [killed EXCEPT ![p] = TRUE]
           /\ pc' = [pc EXCEPT ![p] = IF @ = "rsleep" THEN "rlock"
                                      ELSE IF @ = "wsleep" THEN "wlock" ELSE @]
           /\ UNCHANGED <<ring, flags, lock, files, call, unannounced>>

-----------------------------------------------------------------------------
MoveByte(p) == ReadByte(p) \/ \E x \in Bytes : WriteByte(p, x)

PipeStep(p) == \/ MoveByte(p)
               \/ /\ ch' = None
                  /\ \/ Lock(p)
                     \/ WriteTest(p) \/ WriteFails(p) \/ WriteFull(p)
                     \/ CopyinFails(p) \/ WriteDone(p)
                     \/ ReadTest(p) \/ ReadKilled(p) \/ ReadNotKilled(p)
                     \/ ReadSleep(p) \/ ReadDone(p)
                     \/ PipeClose(p)

UserStep(p) == /\ ch' = None
               /\ \/ \E k \in 0..MaxN : \/ Call(p, "w", k, "wlock")
                                        \/ Call(p, "r", k, "rlock")
                  \/ \E c \in Procs : Fork(p, c)
                  \/ \E e \in Ends : FileClose(p, e)
                  \/ Kill(p)

Next == \E p \in Procs : PipeStep(p) \/ UserStep(p)

Spec == Init /\ [][Next]_vars

(* A process in the kernel runs, and spins for pi->lock, which is always   *)
(* released, only so often.                                                *)
FairSpec == Spec /\ \A p \in Procs : SF_vars(PipeStep(p))

-----------------------------------------------------------------------------
TypeOK == /\ {nread, nwrite} \subseteq 0..UINT_MAX
          /\ data \in [0..(PIPESIZE - 1) -> Bytes \cup {None}]
          /\ {readopen, writeopen, freed, unannounced} \subseteq BOOLEAN
          /\ lock \in Procs \cup {None}
          /\ ref \in [Ends -> Nat]
          /\ fd \in [Procs -> SUBSET Ends]
          /\ killed \in [Procs -> BOOLEAN]
          /\ pc \in [Procs -> PCs]
          /\ n \in [Procs -> 0..MaxN] /\ i \in [Procs -> 0..MaxN]
          /\ ch \in Bytes \cup {None}

(* An end is closed when no process has a descriptor for it any more, and  *)
(* the page of the pipe is freed when none will touch it again: no sleeper *)
(* and no process about to acquire its lock is left inside a call.         *)
NoUseAfterFree == /\ ~writeopen => \A p \in Procs : "w" \notin fd[p]
                  /\ ~readopen => \A p \in Procs : "r" \notin fd[p]
                  /\ freed => \A p \in Procs : At(p, "idle")

(* A process sleeps in piperead() only while the pipe is empty ("pipe-     *)
(* empty", line 113) and can be written, in pipewrite() only while it is   *)
(* full ("pipewrite-full", line 88) and can be read.  One path leaves a    *)
(* reader asleep with bytes to read: a writer that has put some and is     *)
(* killed returns with no wakeup(&pi->nread) (lines 84-87).                *)
SleepersMustWait ==
  lock = None => \A p \in Procs :
    /\ At(p, "rsleep") => (Empty \/ unannounced) /\ writeopen
    /\ At(p, "wsleep") => Full /\ readopen

(* The parts of the inductive invariant.  The lock is held by the process  *)
(* that is between acquire() and release(), and the tests it has made      *)
(* under the lock still hold.                                              *)
Locked == {"wtest", "wbody", "wdone", "rtest", "rkilled", "rgo", "rcopy", "rdone"}

LockInv == \A p \in Procs :
  /\ pc[p] \in Locked <=> lock = p
  /\ At(p, "wbody") => i[p] < n[p] /\ readopen
  /\ pc[p] \in {"rkilled", "rgo"} => Empty /\ writeopen

(* The references of a file are counted; a process in a call has the file  *)
(* open, and the one that makes the last reference go closes the end.      *)
Holders(e) == {p \in Procs : e \in fd[p]}

EndInv(e, open, closing) ==
  /\ ref[e] = Cardinality(Holders(e))
  /\ Holders(e) # {} => open
  /\ \A p \in Procs : At(p, closing) => /\ open
                                        /\ Holders(e) = {}
                                        /\ \A q \in Procs : At(q, closing) => q = p

RefInv == /\ EndInv("r", readopen, "closer")
          /\ EndInv("w", writeopen, "closew")
          /\ \A p \in Procs : /\ pc[p] \in InRead => "r" \in fd[p]
                              /\ pc[p] \in InWrite => "w" \in fd[p]
          /\ freed <=> ~readopen /\ ~writeopen

(* While a reader takes bytes a writer may sleep with room in the pipe:    *)
(* the reader will wake it before it lets go of the lock.                  *)
SleepInv == \A p \in Procs :
  /\ At(p, "rsleep") => (Empty \/ unannounced) /\ writeopen
  /\ At(p, "wsleep") => /\ readopen
                        /\ Full \/ \E q \in Procs : pc[q] \in {"rcopy", "rdone"}

(* The bytes in the pipe: never more than it has room for. *)
Held == Uint(nwrite + UINT_MAX + 1 - nread)

IInv == TypeOK /\ LockInv /\ RefInv /\ SleepInv /\ Held <= PIPESIZE

(* The pipe is a channel. *)
Queue == [k \in 1..Held |->
            data[Uint(nread + k - 1) % PIPESIZE]]

Abstract == INSTANCE Channel WITH q <- Queue, rdopen <- readopen, wropen <- writeopen

ImplementsChannel == Abstract!Spec

(* A reader is told when the last writer has closed its end, and a writer  *)
(* when the last reader has.                                               *)
NoWriter == \A p \in Procs : "w" \notin fd[p]
NoReader == \A p \in Procs : "r" \notin fd[p]

HangupIsTold == \A p \in Procs : /\ NoWriter /\ pc[p] \in InRead ~> pc[p] \notin InRead
                                 /\ NoReader /\ pc[p] \in InWrite ~> pc[p] \notin InWrite
=============================================================================
