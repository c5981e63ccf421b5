-------------------------------- MODULE Log ---------------------------------
(***************************************************************************)
(* kernel/log.c: the write-ahead log that makes a group of file-system     *)
(* system calls atomic with respect to crashes, with the part of bio.c it  *)
(* rests on: a block is cached until its buffer is recycled, and bpin()    *)
(* keeps a logged block from being recycled before it is installed.        *)
(*                                                                         *)
(* log.lock is held from each acquire to its release with no sleep but     *)
(* sleep(&log, &log.lock), so each such section is one action.  commit()   *)
(* runs without it: each bwrite() in it is an action of its own, and the   *)
(* machine may crash between any two.  A bwrite of a block is atomic.  The *)
(* log's own blocks are only changed by bwrite, so their cached copies are *)
(* the disk's.                                                             *)
(***************************************************************************)
EXTENDS Naturals, Sequences, FiniteSets, Functions

CONSTANTS Blocks,       \* home block numbers
          Values,       \* contents of a block
          Procs,        \* processes that make FS system calls
          MAXOPBLOCKS,  \* max # of blocks any FS op writes
          LOGSIZE,      \* length of log.lh.block[]
          NLOG,         \* log.size: blocks in the on-disk log, the header's too
          None          \* no buffer, or no cached copy

ASSUME NoneAssumption == None \notin Blocks \cup Values
ASSUME SizeAssumption == /\ MAXOPBLOCKS \in Nat \ {0}
                         /\ LOGSIZE \in Nat /\ MAXOPBLOCKS <= LOGSIZE
                         /\ NLOG \in Nat \ {0} /\ NLOG - 1 <= LOGSIZE
ASSUME ProcsAssumption == IsFiniteSet(Procs)

VARIABLES home,         \* disk: the blocks at their home locations
          dhead,        \* disk: the log header, the block numbers it lists
          slot,         \* disk: the log blocks
          cache,        \* cached copy of each block
          pin,          \* references bpin() holds on each block's buffer
          lh,           \* log.lh in memory
          outstanding,  \* log.outstanding
          committing,   \* log.committing
          tail,         \* tail in write_log() and install_trans()
          pc,           \* where each process stands
          buf,          \* the buffer each process holds, modified
          wrote,        \* the blocks its system call has modified
          kernel        \* where the kernel stands in recovery

disk == <<home, dhead, slot>>
memory == <<cache, pin, lh, outstanding, committing, tail>>
procs == <<pc, buf, wrote>>
vars == <<disk, memory, procs, kernel>>

PCs == {"idle", "begin", "asleep", "op", "copy", "head", "install", "erase",
        "finish"}
Committing == {"copy", "head", "install", "erase", "finish"}

MemoryInit == /\ cache = [b \in Blocks |-> None]
              /\ pin = [b \in Blocks |-> 0]
              /\ lh = <<>>
              /\ outstanding = 0
              /\ committing = FALSE
              /\ tail = 0
              /\ pc = [p \in Procs |-> "idle"]
              /\ buf = [p \in Procs |-> None]
              /\ wrote = [p \in Procs |-> {}]
              /\ kernel = "read_head"

(* mkfs writes any file system, and an empty log. *)
Init == /\ home \in [Blocks -> Values]
        /\ dhead = <<>>
        /\ slot \in [1..LOGSIZE -> Values]
        /\ MemoryInit

Goto(p, l) == pc' = [pc EXCEPT ![p] = l]

Logged == Range(lh)

(* Contents of block b as bread() returns it. *)
View(b) == IF cache[b] = None THEN home[b] ELSE cache[b]

-----------------------------------------------------------------------------
(* The system calls.                                                       *)

CallBeginOp(p) == /\ kernel = "up"
                  /\ pc[p] = "idle"
                  /\ Goto(p, "begin")
                  /\ UNCHANGED <<disk, memory, buf, wrote, kernel>>

(* Mutation: begin_op looks at the space in the log only. *)
M_MayBegin == Len(lh) + (outstanding + 1) * MAXOPBLOCKS <= LOGSIZE

(* Mutation: begin_op forgets the blocks already logged. *)
M_MayBeginFull == ~committing /\ (outstanding + 1) * MAXOPBLOCKS <= LOGSIZE

MayBegin == /\ ~committing
            /\ Len(lh) + (outstanding + 1) * MAXOPBLOCKS <= LOGSIZE

BeginOp(p) == /\ kernel = "up"
              /\ pc[p] = "begin"
              /\ MayBegin
              /\ outstanding' = outstanding + 1
              /\ Goto(p, "op")
              /\ UNCHANGED <<disk, cache, pin, lh, committing, tail, buf, wrote, kernel>>

BeginOpSleep(p) == /\ kernel = "up"
                   /\ pc[p] = "begin"
                   /\ ~MayBegin
                   /\ Goto(p, "asleep")
                   /\ UNCHANGED <<disk, memory, buf, wrote, kernel>>

(* wakeup(&log), while p goes to l. *)
WakeupAndGoto(p, l) ==
  pc' = [q \in Procs |-> IF q = p THEN l
                         ELSE IF pc[q] = "asleep" THEN "begin" ELSE pc[q]]

(* bread(b) and a change of its data, with b's sleep lock held.  What a    *)
(* caller owes log.c: it modifies at most MAXOPBLOCKS blocks.              *)
Modify(p, b, v) ==
  /\ kernel = "up"
  /\ pc[p] = "op" /\ buf[p] = None
  /\ \A q \in Procs : buf[q] # b
  /\ Cardinality(wrote[p] \cup {b}) <= MAXOPBLOCKS
  /\ cache' = [cache EXCEPT ![b] = v]
  /\ wrote' = [wrote EXCEPT ![p] = @ \cup {b}]
  /\ buf' = [buf EXCEPT ![p] = b]
  /\ UNCHANGED <<disk, pin, lh, outstanding, committing, tail, pc, kernel>>

TooBig == Len(lh) >= LOGSIZE \/ Len(lh) >= NLOG - 1

(* Mutation: log_write records the block and does not pin its buffer. *)
M_LogWrite(p) ==
  /\ kernel = "up"
  /\ pc[p] = "op" /\ buf[p] # None
  /\ ~TooBig
  /\ lh' = IF buf[p] \in Logged THEN lh ELSE Append(lh, buf[p])
  /\ buf' = [buf EXCEPT ![p] = None]
  /\ UNCHANGED <<disk, cache, pin, outstanding, committing, tail, pc, wrote, kernel>>

(* log_write(bp); brelse(bp), with log absorption. *)
LogWrite(p) ==
  /\ kernel = "up"
  /\ pc[p] = "op" /\ buf[p] # None
  /\ ~TooBig
  /\ IF buf[p] \in Logged
       THEN UNCHANGED <<lh, pin>>
       ELSE /\ lh' = Append(lh, buf[p])
            /\ pin' = [pin EXCEPT ![buf[p]] = @ + 1]
  /\ buf' = [buf EXCEPT ![p] = None]
  /\ UNCHANGED <<disk, cache, outstanding, committing, tail, pc, wrote, kernel>>

(* panic("too big a transaction"): the kernel stops, as in a crash. *)
LogWritePanic(p) == /\ kernel = "up"
                    /\ pc[p] = "op" /\ buf[p] # None
                    /\ TooBig
                    /\ kernel' = "panic"
                    /\ UNCHANGED <<disk, memory, procs>>

(* The last process out commits; commit() does nothing if the log is empty. *)
EndOp(p) ==
  /\ kernel = "up"
  /\ pc[p] = "op" /\ buf[p] = None
  /\ outstanding' = outstanding - 1
  /\ IF outstanding = 1
       THEN /\ committing' = TRUE
            /\ tail' = 0
            /\ Goto(p, IF lh = <<>> THEN "finish" ELSE "copy")
       ELSE /\ WakeupAndGoto(p, "idle")
            /\ UNCHANGED <<committing, tail>>
  /\ wrote' = [wrote EXCEPT ![p] = {}]
  /\ UNCHANGED <<disk, cache, pin, lh, buf, kernel>>

-----------------------------------------------------------------------------
(* commit(), by the process whose end_op() started it.                     *)

Block == lh[tail + 1]

(* write_log(): copy a modified block from the cache to the log. *)
WriteLog(p) ==
  /\ kernel = "up"
  /\ pc[p] = "copy"
  /\ slot' = [slot EXCEPT ![tail + 1] = View(Block)]
  /\ cache' = [cache EXCEPT ![Block] = View(Block)]
  /\ IF tail + 1 < Len(lh)
       THEN tail' = tail + 1 /\ UNCHANGED pc
       ELSE tail' = 0 /\ Goto(p, "head")
  /\ UNCHANGED <<home, dhead, pin, lh, outstanding, committing, buf, wrote, kernel>>

(* write_head(): "the true point at which the current transaction commits". *)
WriteHead(p) ==
  /\ kernel = "up"
  /\ pc[p] = "head"
  /\ dhead' = lh
  /\ Goto(p, "install")
  /\ UNCHANGED <<home, slot, memory, buf, wrote, kernel>>

(* One turn of install_trans(): the log block goes to its home location    *)
(* through the cached copy, which is unpinned unless this is a recovery.   *)
InstallBlock(unpinned) ==
  /\ home' = [home EXCEPT ![Block] = slot[tail + 1]]
  /\ cache' = [cache EXCEPT ![Block] = slot[tail + 1]]
  /\ pin' = IF unpinned THEN [pin EXCEPT ![Block] = @ - 1] ELSE pin
  /\ UNCHANGED <<dhead, slot, outstanding, committing>>

Install(p) ==
  /\ kernel = "up"
  /\ pc[p] = "install"
  /\ InstallBlock(TRUE)
  /\ IF tail + 1 < Len(lh)
       THEN tail' = tail + 1 /\ UNCHANGED <<pc, lh>>
       ELSE tail' = 0 /\ lh' = <<>> /\ Goto(p, "erase")
  /\ UNCHANGED <<buf, wrote, kernel>>

EraseHead(p) == /\ kernel = "up"
                /\ pc[p] = "erase"
                /\ dhead' = lh
                /\ Goto(p, "finish")
                /\ UNCHANGED <<home, slot, memory, buf, wrote, kernel>>

(* Mutation: end_op clears log.committing and wakes nobody up. *)
M_FinishCommit(p) == /\ kernel = "up"
                     /\ pc[p] = "finish"
                     /\ committing' = FALSE
                     /\ Goto(p, "idle")
                     /\ UNCHANGED <<disk, cache, pin, lh, outstanding, tail, buf, wrote, kernel>>

FinishCommit(p) ==
  /\ kernel = "up"
  /\ pc[p] = "finish"
  /\ committing' = FALSE
  /\ WakeupAndGoto(p, "idle")
  /\ UNCHANGED <<disk, cache, pin, lh, outstanding, tail, buf, wrote, kernel>>

-----------------------------------------------------------------------------
(* The rest of the machine.                                                *)

(* Some process that makes no change reads b into the cache. *)
Read(b) == /\ kernel = "up"
           /\ cache[b] = None
           /\ cache' = [cache EXCEPT ![b] = home[b]]
           /\ UNCHANGED <<disk, pin, lh, outstanding, committing, tail, procs, kernel>>

(* bget() recycles a buffer whose refcnt is 0. *)
Recycle(b) == /\ kernel # "panic"
              /\ cache[b] # None
              /\ pin[b] = 0
              /\ \A p \in Procs : buf[p] # b
              /\ cache' = [cache EXCEPT ![b] = None]
              /\ UNCHANGED <<disk, pin, lh, outstanding, committing, tail, procs, kernel>>

(* Power is lost, or a panic ends in a reset: only the disk is left. *)
Crash == /\ cache' = [b \in Blocks |-> None]
         /\ pin' = [b \in Blocks |-> 0]
         /\ lh' = <<>>
         /\ outstanding' = 0
         /\ committing' = FALSE
         /\ tail' = 0
         /\ pc' = [p \in Procs |-> "idle"]
         /\ buf' = [p \in Procs |-> None]
         /\ wrote' = [p \in Procs |-> {}]
         /\ kernel' = "read_head"
         /\ UNCHANGED disk

(* recover_from_log(), in the boot that follows, before any system call. *)
ReadHead == /\ kernel = "read_head"
            /\ lh' = dhead
            /\ kernel' = IF dhead = <<>> THEN "clear_head" ELSE "install"
            /\ UNCHANGED <<disk, cache, pin, outstanding, committing, tail, procs>>

(* Mutation: recovery clears the log before it has installed all of it. *)
M_RecoverInstall ==
  /\ kernel = "install"
  /\ InstallBlock(FALSE)
  /\ lh' = <<>>
  /\ kernel' = "clear_head"
  /\ UNCHANGED <<tail, procs>>

RecoverInstall ==
  /\ kernel = "install"
  /\ InstallBlock(FALSE)
  /\ IF tail + 1 < Len(lh)
       THEN tail' = tail + 1 /\ UNCHANGED <<lh, kernel>>
       ELSE tail' = 0 /\ lh' = <<>> /\ kernel' = "clear_head"
  /\ UNCHANGED procs

ClearHead == /\ kernel = "clear_head"
             /\ dhead' = lh
             /\ kernel' = "up"
             /\ UNCHANGED <<home, slot, memory, procs>>

Recovery == ReadHead \/ RecoverInstall \/ ClearHead

CommitStep(p) == \/ WriteLog(p) \/ WriteHead(p) \/ Install(p)
                 \/ EraseHead(p) \/ FinishCommit(p)

OpStep(p) == \/ BeginOp(p) \/ BeginOpSleep(p) \/ LogWrite(p)
             \/ LogWritePanic(p) \/ EndOp(p) \/ CommitStep(p)

Next == \/ \E p \in Procs : \/ CallBeginOp(p)
                            \/ OpStep(p)
                            \/ \E b \in Blocks, v \in Values : Modify(p, b, v)
        \/ \E b \in Blocks : Read(b) \/ Recycle(b)
        \/ Recovery
        \/ Crash

Spec == Init /\ [][Next]_vars

(* The scheduler runs every runnable process, a system call that has begun *)
(* stops writing and calls end_op(), and a stopped machine is rebooted.    *)
Fairness == /\ \A p \in Procs : /\ WF_vars(OpStep(p) /\ pc[p] # "op")
                                /\ WF_vars(LogWrite(p) \/ LogWritePanic(p))
                                /\ SF_vars(EndOp(p))
            /\ WF_vars(Recovery)
            /\ WF_vars(kernel = "panic" /\ Crash)

FairSpec == Spec /\ Fairness

-----------------------------------------------------------------------------
TypeOK == /\ home \in [Blocks -> Values]
          /\ dhead \in Seq(Blocks) /\ Len(dhead) <= LOGSIZE
          /\ slot \in [1..LOGSIZE -> Values]
          /\ cache \in [Blocks -> Values \cup {None}]
          /\ pin \in [Blocks -> 0..1]
          /\ lh \in Seq(Blocks) /\ Len(lh) <= LOGSIZE
          /\ outstanding \in Nat
          /\ committing \in BOOLEAN
          /\ tail \in 0..LOGSIZE
          /\ pc \in [Procs -> PCs]
          /\ buf \in [Procs -> Blocks \cup {None}]
          /\ wrote \in [Procs -> SUBSET Blocks]
          /\ kernel \in {"read_head", "install", "clear_head", "up", "panic"}

InOp == {p \in Procs : pc[p] = "op"}

(* "The logging system only commits when there are no FS system calls      *)
(* active" (lines 13-14), and two processes never commit at a time.        *)
CommitAlone == \A p \in Procs : pc[p] \in Committing =>
                 /\ InOp = {}
                 /\ \A q \in Procs : pc[q] \in Committing => q = p

(* A cached change that the home location lacks is in the log or in the    *)
(* hands of a process that is about to log it, and its buffer cannot be    *)
(* recycled.                                                               *)
DirtyIsKept == \A b \in Blocks :
                 /\ kernel = "up"
                 /\ cache[b] # None
                 /\ cache[b] # home[b]
                 => \/ b \in Logged /\ pin[b] = 1
                    \/ \E p \in Procs : buf[p] = b

(* begin_op() reserves: if every system call in progress goes on to modify *)
(* MAXOPBLOCKS blocks, log.lh.block[] is still long enough.  A call counts *)
(* the places it may still take.                                           *)
Unused(p) == MAXOPBLOCKS - Cardinality(wrote[p])
         + IF buf[p] # None /\ buf[p] \notin Logged THEN 1 ELSE 0

Reserved == {r \in InOp \X (1..MAXOPBLOCKS) : r[2] <= Unused(r[1])}

SpaceIsReserved == Len(lh) + Cardinality(Reserved) <= LOGSIZE

(* Who sleeps in begin_op() is woken up. *)
SleepersWake == \A p \in Procs : pc[p] = "asleep" ~> pc[p] # "asleep"

(* The disk after the recovery that would follow a crash now. *)
InHead(b) == {i \in DOMAIN dhead : dhead[i] = b}
Recovered == [b \in Blocks |-> IF InHead(b) = {} THEN home[b]
                               ELSE slot[CHOOSE i \in InHead(b) : TRUE]]

Abs == INSTANCE TransactionalDisk
         WITH durable <- Recovered,
              current <- IF kernel \in {"up", "panic"}
                           THEN [b \in Blocks |-> View(b)] ELSE Recovered,
              active  <- InOp

(* System calls are atomic with respect to crashes. *)
ImplementsTransactionalDisk == Abs!Spec

-----------------------------------------------------------------------------
(* The inductive invariant behind the refinement.                          *)

(* A buffer is held by one process at most, inside a system call.          *)
HoldInv == \A p \in Procs :
             /\ buf[p] # None => pc[p] = "op" /\ cache[buf[p]] # None
             /\ \A q \in Procs : buf[p] = buf[q] /\ buf[p] # None => p = q

CountInv == outstanding = Cardinality(InOp)

CommitInv == /\ committing <=> \E p \in Procs : pc[p] \in Committing
             /\ CommitAlone

BootInv == kernel \notin {"up", "panic"}
             => /\ \A p \in Procs : pc[p] = "idle"
                /\ \A b \in Blocks : pin[b] = 0

HeadInv == IsInjective(lh) /\ IsInjective(dhead)

Installing == \E p \in Procs : pc[p] = "install"

(* The blocks that are logged and not yet installed are pinned.            *)
PinInv == kernel \in {"up", "panic"} =>
            \A b \in Blocks :
              /\ pin[b] = 1 <=> \E i \in DOMAIN lh : /\ lh[i] = b
                                                     /\ Installing => i > tail
              /\ pin[b] = 1 => cache[b] # None

DirtyInv == \A b \in Blocks : cache[b] \notin {None, home[b]}
              => pin[b] = 1 \/ \E p \in Procs : buf[p] = b

Installed == \A i \in DOMAIN dhead : home[dhead[i]] = slot[i]

RecoveryInv ==
  /\ kernel = "read_head" => lh = <<>> /\ tail = 0
  /\ kernel = "install" => /\ lh = dhead /\ tail < Len(lh)
                           /\ \A i \in 1..tail : home[lh[i]] = slot[i]
  /\ kernel = "clear_head" => lh = <<>> /\ tail = 0 /\ Installed

(* How far the log and the home locations have got at each point of        *)
(* commit(): a crash at any of them loses nothing that is committed.       *)
PhaseInv ==
  /\ \A p \in Procs :
       /\ pc[p] = "copy" => /\ dhead = <<>> /\ tail < Len(lh)
                            /\ \A i \in 1..tail : slot[i] = cache[lh[i]]
       /\ pc[p] = "head" => /\ dhead = <<>> /\ tail = 0 /\ lh # <<>>
                            /\ \A i \in 1..Len(lh) : slot[i] = cache[lh[i]]
       /\ pc[p] = "install" => /\ dhead = lh /\ tail < Len(lh)
                               /\ \A i \in 1..Len(lh) :
                                    /\ i <= tail => home[lh[i]] = slot[i]
                                    /\ i > tail => slot[i] = cache[lh[i]]
       /\ pc[p] = "erase" => lh = <<>> /\ tail = 0 /\ Installed
       /\ pc[p] = "finish" => lh = <<>> /\ tail = 0 /\ dhead = <<>>
  /\ kernel \in {"up", "panic"} /\ ~committing => dhead = <<>> /\ tail = 0

IInv == /\ TypeOK /\ HoldInv /\ CountInv /\ CommitInv /\ BootInv /\ HeadInv
        /\ PinInv /\ DirtyInv /\ RecoveryInv /\ PhaseInv

(* What a system call has modified is logged, but for the block it holds,  *)
(* and it has modified MAXOPBLOCKS blocks at most.                         *)
WroteInv == \A p \in Procs :
              /\ buf[p] # None => buf[p] \in wrote[p]
              /\ IsFiniteSet(wrote[p]) /\ Cardinality(wrote[p]) <= MAXOPBLOCKS
              /\ wrote[p] \ {buf[p]} \subseteq Logged
              /\ pc[p] # "op" => wrote[p] = {}

SpaceInv == WroteInv /\ SpaceIsReserved
=============================================================================
