# Verification of the xv6 labs

This directory holds TLA+ specifications of the concurrent core of the
repository, the TLC runs that check them, and proofs that TLAPS checks.

The repository holds copies of the xv6 teaching kernel, one per lab of
MIT 6.S081 (2021), each changed for its lab. The copies share most of their
kernel. `lab11-mmap/kernel` is taken as the base kernel; where a lab replaces
a part (`lab9-lock` the allocator and the buffer cache, `lab7-thread` the
barrier, `lab6-cow` the pages of user memory, `lab8-net` the network), the
specification follows that lab's directory. Paths below are
relative to `src/`, line numbers are those of the file named.

## 1. Inventory

### Base kernel (`lab11-mmap/kernel`)

| part | state | operations | called by, calls | what is hard | correct when |
|---|---|---|---|---|---|
| processes, `proc.c` | `proc[NPROC]`: state, pid, parent, chan, killed; a `p->lock` each; `wait_lock`, `nextpid`; a scheduler context per hart | fork, exit, wait, kill, sleep, wakeup, yield, scheduler | every part sleeps and wakes through it; trap.c yields | two kinds of lock, one of them handed over across a context switch; a wakeup before the state it announces; preemption | one CPU per kernel stack; no lost wakeup; no orphan; every zombie is reaped |
| log, `log.c` | in-memory header, `outstanding`, `committing`; header and log blocks on the disk | begin_op, log_write, end_op, commit, recovery | file system calls; buffer cache | a crash between any two disk writes, group commit, log space | system calls are atomic with respect to crashes |
| buffer cache, `bio.c`, sleep locks, `sleeplock.c` | NBUF buffers in an LRU list, refcnt, a sleep lock each | bread, bwrite, brelse, bpin, bunpin | fs.c, log.c; the disk | recycling against pinning and waiting | one buffer per block, never recycled in use |
| disk driver, `virtio_disk.c` | 8 descriptors, avail and used ring, `info[]` | virtio_disk_rw, virtio_disk_intr | bio.c; the device, an interrupt | the device runs concurrently, finishes in any order, and interrupts race with the handler | each call is one transfer of its block; descriptors do not leak; no completion is missed |
| pipes, `pipe.c` | ring of 512 bytes, `nread`, `nwrite`, two open flags | pipewrite, piperead, pipeclose | file.c; sleep, wakeup, kill | killed and failing callers in the middle of a transfer; the last close frees | a bounded FIFO; no use after free; nobody sleeps for what is there |
| inodes, directories, `fs.c` | inode table with refs, valid, lock; on-disk inodes and bitmap | iget, ilock, iput, ialloc, bmap, itrunc, namei, dirlink | sysfile.c; log, cache | last reference against new lookup, order of locks | an inode in use is not freed |
| file table, `file.c`, `sysfile.c` | `ftable` with refs; each process' descriptors | filealloc, filedup, fileclose, read, write | system calls; pipes, inodes | close against fork and exit | a file is closed once, by its last reference |
| console and UART, `console.c`, `uart.c` | two ring buffers | consoleread, consoleintr, uartputc, uartintr | file.c; interrupts | processes against interrupts; line editing | nothing lost but by overflow; lines are read as typed |
| traps, `trap.c`, `sysproc.c` | `ticks` | usertrap, kerneltrap, sys_sleep | all | - | - |
| memory, `vm.c`, `kalloc.c`, `exec.c` | page tables, free list | - | all | sequential per process | - |

### What the labs change

| lab | part | state | what is hard | correct when |
|---|---|---|---|---|
| 4 | `sigalarm`, `sigreturn` in trap.c, sysproc.c | saved trap frame, `handlerlock` | a timer interrupt in the handler | the interrupted code cannot tell |
| 5 | lazy allocation in trap.c, vm.c | page table | system calls on absent pages | reads and writes as with eager allocation |
| 6 | copy-on-write in kalloc.c, vm.c, trap.c | a reference count per page | counts changed without a lock by several CPUs | a page is freed once, by its last owner |
| 7 | `notxv6/barrier.c` | mutex, condition variable, count, round | a thread may lap the others; spurious wakeups | a rendezvous; the test's assertion |
| 7 | `notxv6/ph.c` | hash table, a mutex per bucket | lookup and insertion are two critical sections | no key is lost or doubled |
| 7 | `user/uthread.c` | threads and contexts | - | round robin, no thread forgotten |
| 8 | e1000.c, sysnet.c, net.c | two descriptor rings, sockets with queues | the card runs concurrently; close against delivery | packets once and in order; nothing used after free |
| 9 | per-CPU free lists, `kalloc.c` | a list and a lock per CPU | stealing with two locks; preemption after cpuid() | no page lost or given twice |
| 9 | hashed buffer cache, `bio.c` | buckets with a lock each | two bucket locks; buffers move between buckets | as the buffer cache |
| 10 | large files, symbolic links | a tree of blocks; link chains | log space of itrunc(); references along a chain | blocks freed once |
| 11 | mmap in sysproc.c, trap.c, proc.c | areas of a process | partial unmapping, write back | a mapping is the file's contents |

## 2. Modules

| module | models | kind |
|---|---|---|
| `Barrier`, `Rendezvous` | lab7 `barrier.c`; what the threads may rely on | detailed, abstract |
| `BarrierProofs` | | proofs |
| `Log`, `TransactionalDisk` | `log.c` with the cache it rests on; a disk whose system calls are atomic | detailed, abstract |
| `LogProofs` | | proofs |
| `Proc` | `proc.c` | detailed |
| `ProcProofs` | | proofs |
| `KallocPerCpu` | lab9 `kalloc.c` | detailed |
| `BcacheHash` | lab9 `bio.c` | detailed |
| `Pipe`, `Channel` | `pipe.c` with the references of `file.c`; a bounded FIFO | detailed, abstract |
| `PipeProofs` | | proofs |
| `VirtioDisk`, `AtomicDisk` | `virtio_disk.c` and its device; one transfer per call | detailed, abstract |
| `VirtioDiskProofs` | | proofs |
| `Files` | the inode table of `fs.c`, the file table of `file.c`, the calls of `sysfile.c` and the areas of `mmap` that count references in them | detailed |
| `FilesProofs` | | proofs |
| `Cow` | lab6 `kalloc.c`, `vm.c`, `trap.c`: shared pages and their counts | detailed |
| `PoolProofs` | KallocPerCpu, BcacheHash and Cow: what is handed out, counted and taken back | proofs |
| `Net`, `Mailboxes` | lab8 `e1000.c`, `sysnet.c`, `net.c` and the card; packets from a wire into mailboxes | detailed, abstract |
| `NetProofs` | | proofs |
| `MC...` | instances for TLC: symmetry sets and constraints | model checking |

`PROJECT.json` maps every definition to the lines it stands for. Definitions
named `M_...` are the code with one plausible bug; each stands before the
definition it is a variant of, and a run with the variant in place shows that
the property it is meant for can fail.

### How state and actions correspond to the code

*Atomicity.* A section between acquire() and release() of one spin lock, in
which no other lock is taken and nothing is accessed that others change
without that lock, is one action: no other thread can see its inside. Where
that fails the section is cut: at a second acquire(), at sleep(), at a context
switch, at a field others write without the lock (`killed` in a pipe, buffers
and lists under the wrong bucket lock in lab9) and where the device looks
(the rings of virtio). `pc` says where each thread stands, locals that matter
later are variables, and a local that is dead is given back a fixed value.

*Barrier.* The mutex is a variable, since a thread that tests and waits does
so in several steps. `Step` is one thread's code from the unlocked read of
line 55 to the broadcast of line 43; `SpuriousWakeup` is what POSIX allows.

*Log.* `home`, `dhead` and `slot` are the disk; everything else is memory and
lost in `Crash`, which is enabled in every state. Each bwrite() of commit() and
of recovery is an action. `cache` holds a copy of a block or none: `Recycle`
drops an unpinned copy at any time, which is what losing a race for buffers
looks like from here. A process modifies one buffer at a time (`buf`) as
between bread() and brelse(). It writes at most MAXOPBLOCKS blocks in a call,
which is what param.h promises of the file system.

*Proc.* `plock` and `wait_lock` record the CPU that owns a lock, as
`struct spinlock` does: a lock is handed from a kernel thread to the scheduler
of its CPU. The loops over `proc[]` visit one slot per action. A process is
preempted (`Yield`) wherever its CPU holds no lock; `spin` marks a process in
acquire(), where interrupts are off.

*KallocPerCpu.* The CPU a call works with is chosen freely at the call, since
cpuid() is read with interrupts on. `exhausted` and `freed` are history: what
happened while a call lasted.

*BcacheHash.* `Idx` is the bucket of the block asked for, `other` the one
bget() computed for the buffer it looks at, `Mine` the buffer's dev and blockno
when they are read. Since `other` may be the wrong bucket, nothing can be said
to be under a lock before it is proved, and each access is an action: the lists
are pointers (`first`, `next`), a round of the loops of find() and erase() is a
step (`at` is how far it has come), dev and blockno are loaded and assigned one
after the other, with a value in between that is neither (`key` is what has
been loaded), and so are the other assignments of bio.c:114-116 and the two of
insert(). `stale` is history: a buffer was found unused under another bucket's
lock than its own, or while another process was recycling it.

*Pipe.* `ref` and `fd` are the references of the two files in `ftable` and in
the processes: forking and closing is what makes an end close. A step is one
access under `pi->lock`, since kill() does not take it. `ch` is the byte a step
moves; a slot of the ring that has been read is forgotten, so that reading it
again would show.

*VirtioDisk.* A buffer stands for the process that holds its sleep lock. The
device is four actions: it takes chains in order, transfers, puts them into
the used ring in any order, and interrupts after it has moved the index. The
device is external: it does what the driver assumes of it (comments in
`virtio_disk.c` and the standard it cites) and nothing else.

*Files.* `itable.lock` and `ftable.lock` cover a few statements each, so a
section under one of them is an action and they are not variables; the sleep
locks of the directory (`dirlock`) and of the inodes (`lock`) are. `then` is
where ilock() or iput() returns to, `put` the argument of iput(). iput() is cut
at line 344, where it gives up `itable.lock` to free the inode, and again at
line 353. fork(), exit(), mmap() and munmap() are there with what they do to
references. `vma` is the file of a process's mapped area, `gone` the files of
its areas of size 0, which munmap() leaves in `p->vma[]` and fork() and exit()
skip. `Unchecked` is what mmap(), munmap() and the page fault do without
looking: `MunmapAgain`, `FaultGone`, `MmapEmpty`, `MmapClosed`; `unchecked`
records that it has happened. Which free entry is taken is left open, so that a property cannot
rest on the order of a scan. One directory and one mapped area per process
stand for all of them; blocks and contents are left out.

*Cow.* The counts have no lock in lab6, so every load and every store of one is
an action (`reg` is what was loaded), while kmem.lock makes the free list
atomic. A process has one page. `Enter` starts an operation (`op`) that goes
through kalloc() and kfree() with it. `Using` is the page whose count a process
is in the middle of using; `raced` records that two processes were in that
position for one page.

*Net.* The card writes a packet into the descriptor at `rdh`, sets DD and
raises the interrupt, and sends the frame at `tdh`, whenever it likes; it is
external and does what e1000.c relies on. e1000_intr() is an actor of its own,
on one CPU at a time. `lock` (of the list of sockets) and `slock` (of each
socket) are variables where a section holds both or sleeps. A packet is its
address and a body; an ARP request or a packet net.c drops is "other". An mbuf
is identified with what holds it, and `nfree` counts the rest. A frame to be
sent is one of `Frames`, which every write() and every ARP answer chooses;
`frames` is history: those the card was given and has not sent, in order.

*Interaction.* Proc shows that sleep() and wakeup() lose no wakeup, for the
pair of locks of wait() and exit(). Log, Pipe, VirtioDisk and Net rely on that:
in them sleep() releases the lock and sleeps in one step, and wakeup() makes
the sleepers compete for the lock again. Log relies on a bwrite() that is
atomic and returns when the block is on the disk; VirtioDisk shows that
virtio_disk_rw() is such a transfer. Files relies on Log: a system call is one
transaction, so a crash does not show in it. Files and Pipe share
fileclose(): Files shows that the last reference, and no other, closes a file;
Pipe shows what that does to a pipe, Net what it does to a socket. Net and Pipe
contain the fork() and close() that make an end close.

## 3. Runs

| run | instance | shows |
|---|---|---|
| `barrier` | 3 threads, 3 rounds, with fairness | `AssertHolds` (the assertion of thread()), `ReadIsNotRacy`, `NoLostWakeup`, `ImplementsRendezvous`, `AllPass` |
| `log` | 2 processes, 2 blocks, 2 values, 2 blocks per call, log of 4 with 3 on the disk, with fairness | `ImplementsTransactionalDisk`, `CommitAlone`, `DirtyIsKept`, `SpaceIsReserved`, `SleepersWake` |
| `proc` | 3 slots, 2 CPUs, 3 pids, one killer, with fairness | `OneStack`, `SchedHoldsOneLock`, `NoLostWakeup`, `OrphansAreReaped` |
| `kalloc` | 3 processes, 3 CPUs, 2 pages | `PagesArePartitioned`, `FailsOnlyWhenExhaustedOrRaced` |
| `kalloc_stuck` | 2 processes, 2 CPUs, 1 page, with fairness | **violated**: `KallocReturns` |
| `bcache_hash` | 3 processes, 3 buffers, 3 buckets, 3 blocks in two of them, until a buffer is recycled under a wrong lock | `GetsItsBlock`, `OneBufferPerBlock`, `RefcntCounts` |
| `bcache_wrong` | 2 processes, 2 buffers, 3 buckets with a block each | **violated**: `ReturnsItsBlock` |
| `pipe` | 2 processes, ring of 2, 2 byte values, calls of up to 2 bytes, indices mod 4, with fairness | `NoUseAfterFree`, `SleepersMustWait`, `ImplementsChannel`, `HangupIsTold` |
| `virtio` | 3 requests, 3 blocks, 2 values, 7 descriptors | `ImplementsAtomicDisk`, `ChainsAreLive`, `DescriptorsAreOwned`, `SleepersAreWoken` |
| `files` | 2 processes, 2 names, 2 inodes, 2 table entries, 1 open file, 2 descriptors each, areas of size 0 | `LinksAreNames`, `InodeRefs`, `FileRefs`, `NoPanic` |
| `cow` | 4 processes, 3 pages, counts up to 4 | `CountsAreOwners`, `SharedIsReadOnly`, `EachHasItsOwnMemory` |
| `net` | 2 processes, 2 sockets, 1 address, 2 bodies, 2 frames, 6 mbufs, rings of 3 | `ImplementsMailboxes`, `NoPacketIsStranded`, `ReadersMustWait`, `SocketsOutliveUse`, `EachMbufIsFreedOnce`, `FramesAreKept` |

The type invariants are not run properties, since the properties above apply
each function to its domain and would fail to evaluate outside it. `TypeOK` of
every module with proofs is a theorem.

Runs that violate their property:

* `kalloc_stuck`. kalloc() keeps its own CPU's lock while it acquires the
  others' (lab9 `kalloc.c:94`). Two CPUs with empty lists wait for each other
  for ever, although "Returns 0 if the memory cannot be allocated" (line 81).
* `bcache_wrong`. bget() computes a buffer's bucket before it holds that
  bucket's lock (lab9 `bio.c:108`) and does not look again. When the buffer
  moves in between, `refcnt == 0` is tested under the wrong lock and two
  processes are given the same buffer for two blocks, although bread() is to
  "Return a locked buf with the contents of the indicated block" (line 133).
  bget() also takes its two locks in no fixed order, like kalloc().

### What the models say besides

Where the code does less than it should and a property would fail, the model
has the behaviour and the property names the exception, so that the rest is
still checked:

* *Lost inodes.* iput() tests `ref == 1` in one section and drops the
  reference in another (`fs.c:337`, `356`). In between the number is free on
  the disk, ialloc() may give it to a new file and iget() then finds the old
  entry. If that file is unlinked and dropped before line 356 is reached, its
  iput() sees `ref == 2`, and line 356 drops the last reference and does not
  test again. The inode stays allocated with no name, although "If that was the
  last reference and the inode has no links to it, free the inode" (lines
  328-329). `orphans` in Files; `LinksAreNames` excepts them.
* *Wrong bucket.* The run `bcache_hash` has several buckets as well, and
  buffers that move between them while others compute where they are. Its
  properties hold until a buffer is recycled under a wrong lock (`stale`). After
  that two processes can be inside bio.c:113-118 with one buffer, and lists are
  cut or become loops: the model has it, and nothing is claimed of it.
* *Areas of size 0.* sys_munmap() looks for an area that begins at the address
  and not for one that is mapped (lab11 `sysproc.c:140`). munmap() leaves an
  area of size 0 at the address where it ended, so that a second munmap() there
  closes the file again, on a reference that is somebody else's, or with none
  left and then panics ("ilock", "fileclose"). The page fault may take an address
  past such an area to be in it, since `trap.c:79` compares with the size of the
  process. mmap() of length 0 makes an area of size 0 that has a reference,
  which exit() never gives back (`proc.c:374`) and fork() does not count
  (`proc.c:315`); mmap() of a descriptor that is not open dereferences null
  (`sysproc.c:115, 128`). All these are steps of Files (`Unchecked`). `FileRefs`
  and `NoPanic` hold until one is taken, and fail after it; `unchecked` in them
  says so, and the model ends there.
* *Shared pages.* Counts are read and written without a lock (lab6
  `kalloc.c:21-26, 65-78`). Two page faults on one page both find a count of 2
  and both decrement: if both load before either stores the page is lost, and
  other orders free it twice or hand out a page in use. The properties of Cow
  hold up to the first such overlap (`raced`) and do not cover what comes of
  it: the unlocked counts are excepted here, not checked. exit() is not among the
  offenders: it leaves its page to wait(), which frees under wait_lock.
* *Transmit ring.* Nothing clears DD in a transmit descriptor (lab8
  `e1000.c:108-118`), so a full ring is not noticed: the mbuf of a frame not
  yet sent is freed, and since tail meets head the card finds nothing to send.
  `overrun` in Net; `FramesAreKept` holds up to it.
* *Two sockets with one address.* sockalloc() frees the page and then calls
  fileclose(), which closes the file that already points to it (lab8
  `sysnet.c:64-80`): the page is used after it is freed and freed again.
  `ConnectAgain` ends the model.
* *No mbuf for the ring.* The result of mbufalloc() is used without a test
  (lab8 `e1000.c:142-144`). `RefillFails` ends the model.
* *Log.* `LOGSIZE` in begin_op() and `log.size-1` in log_write() differ by one,
  so that calls that use all of MAXOPBLOCKS reach the panic of `log.c:221`
  (`LogWritePanic`).
* *Pipe.* A writer killed in pipewrite() after it has put some bytes wakes
  nobody (`pipe.c:84-87`); `unannounced` in `SleepersMustWait` says so.
* *kill(0)* matches the pid of a free slot (`proc.c:624`), and the flag it sets
  stays for the next process of the slot. Not in a run.

### Bounds, and why they are enough

* *Barrier.* Three threads give one that closes the round, one that sleeps and
  one that laps them; the count and the round are compared only with their
  neighbours, so three rounds show every difference (the proofs are for all).
* *Log.* Two system calls make a group commit, and both fill the log: the
  next has to wait for the commit. Two values tell old from new. The log is
  shorter on the disk than what begin_op() reserves, so that the panic is
  reached too.
* *Proc.* Three slots hold init, a parent and its child, which is all a
  re-parenting involves; two CPUs are what a stack can be on. `MaxPid` bounds
  fork(): after it a slot has been used again. `Killers` and `Targets` bound
  kill(), which only makes a process runnable: one process that calls it, in
  one other's life, meets every state of that process.
* *KallocPerCpu.* Three lists give a search a list it has passed and one ahead.
* *BcacheHash.* Three buckets: two with blocks, one of which two blocks
  share, and the one that empty buffers compute. With three buffers the lists
  have heads, middles and ends to erase from, and a search meets one buffer in
  use, one of its own bucket and one of another's. Three processes: two that
  search, and one that uses a buffer or searches behind them. The constraint
  `NotStale` stops where the properties say nothing any more; `bcache_wrong` goes
  on from there.
* *Pipe.* Capacity 2 and calls of 2 bytes: full, empty, partial and wrapped all
  happen, and two byte values tell order. Two processes that fork and close in
  turn take every combination of ends.
* *VirtioDisk.* Seven descriptors serve two requests with one left over, so
  that a chain is not always the same, and the third request waits for
  descriptors. The counters wrap at a multiple of NUM, as 65536 does.
* *Files.* Two names and two inodes give hard links, a name that is unlinked
  and made again while the old inode is open, and a call that needs a second
  inode while it holds one; two processes are what races for an entry. With
  one open file the table runs out, which is open()'s error path. The
  constraint `NoOrphan` stops at a state with an orphan: its number is lost and
  what the others do then is what they do with fewer inodes; and after a panic
  or a step of `Unchecked`, where nothing happens any more. `MapsOnce` keeps a process
  that has an area of size 0 from calls that name a path and from mapping again:
  it closes, reads, forks and exits, and the other process does all the rest.
  The proofs have neither constraint.
* *Cow.* Four processes: two that share a page, a third that forks again, and
  init, which reaps. Three pages are all shared, all copied or all gone. `MaxCount` bounds the
  count a fork() starts from; without a race it cannot exceed the number of
  processes anyway. The constraint `BeforeARace` stops where the properties say
  nothing any more.
* *Net.* A ring of three gives the card two descriptors: it can be ahead of the
  handler by one, by all, or not. Six mbufs fill the ring, a queue and the
  hands of a writer. The transmit ring of three holds two frames, which may
  differ and come from two writers or from one and the handler, and the third
  overruns it: so they can be mixed up, sent in the wrong order and freed too
  early.
  Two sockets for one address: one closes while the next opens. The constraint
  `Running` stops at a panic and where the transmit ring is overrun; `OneKilled`
  has one process killed at a time. The proofs have neither.

Deadlock is checked except where the program may stop: all processes have
closed the pipe, bget() has panicked, or (kalloc) the two searches wait for
each other, which is the finding above. In Files it shows that the sleep locks
of the directory and of two inodes are never waited for in a circle.
Symmetry is used in runs without liveness only.

### Fairness

Fairness is on code that is scheduled, never on calls programs may or may not
make. A runnable process runs again (round-robin scheduling and timer
interrupts), hence weak fairness of its steps; strong fairness where a step
waits for a spin lock others keep taking and releasing: xv6's locks are
test-and-set and promise that only with probability 1. Barrier: no spurious
wakeup is required to happen, the mutex is not denied for ever. Log: a system
call that has begun calls end_op(), and a stopped machine is rebooted. Proc:
the scheduler's loop comes to every runnable process, and init calls wait() again
and again, as `user/init.c` does unless its own fork() or wait() fails (it then
calls exit(1), and the kernel panics). Pipe: a process inside a call goes on. Files, Cow, Net and
VirtioDisk are checked for safety only; that nobody sleeps for what has come is
an invariant of theirs (`SleepersAreWoken`, `ReadersMustWait`).

## 4. Proofs

TLAPS checks the theorems for every value of the constants that satisfies the
ASSUMEs of the modules.

* **Barrier** (`BarrierProofs`): `AssertNeverFails`, `NoDataRace`,
  `RoundsAreClosedByAll` (an action property), `WakeupsAreNotLost`,
  `Refinement` (the barrier implements Rendezvous). The inductive invariant
  `IInv` adds to the type invariant that the mutex is held exactly between its
  acquisition and release, that `nreached` is the number of threads that wait
  in the current round (`CountInv`), that once all have arrived the last one
  still holds the mutex (`FullInv`), and how each thread's own round lies to
  the barrier's (`RoundInv`). Without the count nothing relates `nreached` to
  threads, and without FullInv a thread could arrive in a full round.
* **Log** (`LogProofs`): `CommitsAreAlone`, `DirtyBuffersAreKept`,
  `SpaceIsKept`, `Refinement`: initial states and each step of Log map to
  TransactionalDisk, where `durable` is what recovery would leave now and
  `current` what the running system reads. `IInv` says, for each point of
  commit() and of recovery, how far log and home locations have got
  (`PhaseInv`, `RecoveryInv`), that logged blocks are pinned until installed
  (`PinInv`), and that only pinned or held buffers differ from the disk
  (`DirtyInv`). A crash is then a step in which only the disk counts, and
  PhaseInv says what it is. `SpaceInv` counts the header and what begin_op()
  has reserved for the calls under way, less what each has used of it
  (`WroteInv`): begin_op() tests a coarser sum, and absorption in log_write()
  makes the two differ.
* **KallocPerCpu** (`PoolProofs`): `NoPageIsLost`,
  `FailuresAreJustified`. A search that holds its own lock has seen every list
  before `i` empty, and only a kfree() fills one (`VisitedAreEmpty`).
* **BcacheHash** (`PoolProofs`): `OneBuffer`, `BreadGetsItsBlock`,
  `RefcntsCount`, for any number of buckets, blocks, buffers and processes,
  until `stale`. Who searches holds the lock of its block's bucket from the miss
  to the end of insert(), so that its block gets no buffer meanwhile
  (`SearchInv`), whatever the order in which it visits the buffers. Who recycles
  a buffer also holds that of the bucket it was in, its count stays 0 until it
  is assigned, and nobody else recycles it (`RecycleInv`); a buffer in use keeps
  its block and is on a list (`UseInv`); only a buffer that is being recycled has
  half an identity (`HalfInv`). The other half of the invariant is about the
  pointers: each list is a chain without a loop of the buffers whose block belongs
  there, less one that is being moved, and what find() and erase() have
  passed and have ahead are its two parts. The unlocked loads of bget()
  appear in it nowhere: whatever bucket they give, the lock is either right or
  `stale` is set by the next step that matters. The count has an upper bound:
  fewer processes than UINT_MAX.
* **Cow** (`PoolProofs`): `PagesAreCounted`, `SharedPagesAreReadOnly`,
  `ForkCopies`, for any finite number of processes, any pages and contents.
  What a call has in its hands does not depend on the counts (`CallInv`):
  which page of which process it counts or gives up, the page it has from
  kalloc(), who is whose child, and that what fork() maps has COW set. The rest
  holds until `raced`, when two processes have been using the count of one
  page. `PageInv`: a page nobody has fresh from kalloc() has as its count the
  mappings that are counted, all but those a fork() is about to count; it is in
  the free list if there are none. `UseInv`: the count that was loaded is still
  right, and kfree() frees a page with no mapping left but the one it is called
  for. `MemoryInv`: a writable page is mapped once and holds its process's
  contents, and so does a fault's copy before the old page is given up. The lemmas
  on Mapped and Counted move one process at a time in or out of a set.
* **Pipe** (`PipeProofs`): `FreedWhenUnused`, `NoSleepInVain`, `Refinement`
  (the pipe implements Channel, for any PIPESIZE that divides the range of the
  counters, as they wrap round). `IInv` relates `pi->lock` to the program
  points, the open flags to the references of the two files (`RefInv`,
  `EndInv`), and says what is true of the ring while somebody sleeps
  (`SleepInv`): the tests are made before sleep() and the wakeups after a whole
  loop, so that the invariant has to name who is in the middle of one. What
  nwrite is ahead of nread, modulo the width, is at most PIPESIZE; only then do
  the slots between them have different places, which is what the refinement
  needs.
* **Proc** (`ProcProofs`): `OneCpuPerStack`, `SchedNeverPanics`,
  `WakeupsAreKept`. `StackInv` says which CPU is on the stack of which process,
  and which lock it holds there: a process is RUNNING, or its lock is held
  until its CPU is off its stack. `SlotInv` ties a slot's state to the point its
  process is at and to its parent. The scans of wait() and wakeup() take a slot
  at a time, so `ScanInv` and `WakeInv` say what they have passed: a child that
  exits behind the scan needs wait_lock, which the scan holds until the parent
  sleeps.
* **VirtioDisk** (`VirtioDiskProofs`): `OwnedDescriptors`, `LiveChains`,
  `WokenSleepers`, `Refinement` (each call is one transfer), for any number of
  descriptors from three, and indices that wrap at a multiple of it. `ChainInv`
  and `OwnInv` say how the descriptors of a request are linked and that they
  are its own. `AvailInv`, `UsedInv` and `PlacedInv` say what is in a ring
  between its indices, in the device's hands, and that a request is in one place
  until the handler has seen it. `RoomInv` is why an entry of a ring is not
  written over: what is in it, and what comes, are different first descriptors
  of three, of which there are NUM - 2. `StatusInv` says on which side of the
  transfer a request is, which makes the panic on a bad status unreachable and
  the mapping to AtomicDisk exact. The lemmas before it (`PutPlace`,
  `GetPlace`, `FewPlaces`) are about a ring with wrapping indices only.
* **Net** (`NetProofs`): `MbufsAreFreedOnce`, `SocketsAreFreedLast`,
  `ReadersSleepForPackets`, `PacketsAreNotStranded`, `FramesAreNotFreed`,
  `Refinement` (packets go from the wire into mailboxes, in order and once), for
  rings, tables and pools of any size and any frames. What is sent is the
  frames that were given, in order, and no mbuf of theirs is freed before,
  until the transmit ring is overrun. `RingInv` says how far the card is ahead of
  the handler and that exactly the descriptors between them have DD set;
  `DescInv` which descriptors have an mbuf; `HandInv` and `CallInv` which mbuf
  and which socket a call has in its hands, one being closed nobody else's;
  `IntrInv` the same of the delivery; `ListInv` that no two sockets in the list
  have one address and that packets are outside it only while a close drains
  them. That
  mbufs add up is proved from lemmas about cardinalities (`OneChanges`, `PutIn`,
  `TakenFrom`, `AllFreed`), one mbuf moving at a time. The wire of the
  refinement is what the handler has not seen of the ring, and a mailbox the
  queue of the socket of that address.
* **Files** (`FilesProofs`): `NeverPanics`, `FilesAreCounted`,
  `InodesAreCounted`, `LinksAreCounted`, for any number of processes, names and
  inodes, and tables of any size; the first two until a step of `Unchecked`,
  which ends the model, so that `Sound`, the rest of the invariant, is needed only
  before it. The four need each other. A lock is free in
  iput() if whoever has it has counted a reference; an inode is not freed under
  somebody's feet if the count is right and the links are; the links stay right
  if no inode is freed that has a name. What holds them together is where each
  process is: `Stage` is the point of its call it is at, or returns to, and
  `CallInv`, `HeldInv`, `LockInv` and `ReadInv` say for each point which entry,
  file and number it has, which locks, and whether ilock() has read the inode.
  `DirInv` is what a call has seen of the directory and still holds, as it has
  the directory's lock. The hard part is the inode between two owners. iput()
  frees it on disk (line 347) before it drops the last reference (line 357), so
  that ialloc() can give its number to create() while the entry is still there:
  `EntryInv` says that only such an entry (`LastPut`) refers to a free inode;
  `AllocInv` that nobody but such an iput() refers to what ialloc() has found;
  `FreeInv` that one process only frees an inode, that nobody refers to it until
  the inode is free on disk, and that afterwards only the create() that has been
  given its number does, and waits for the lock.
  References are counted by the lemmas about cardinalities that begin the
  module (`OneChanges`, `Counted`), one set gaining or losing one element.
  `StepIs` rewrites each step as one of some thirty changes of state (`...Done`)
  the other lemmas split on, as many actions of the module end in the same
  ilock() or iput().
  Two more properties follow that no run checks. `NoCircleOfWaits`: the sleep
  locks are taken in an order, the directory's before an inode's, so that no
  three processes wait one for the next, and none for itself through another.
  `FreedWhenUnused`: the step that frees an inode on disk happens when no name,
  file, area or other call has it.

`PoolProofs` extends Cow and has KallocPerCpu and BcacheHash as instances
(`PerCpu`, `Cache`): their constants and variables are parameters of the
module, those with a name of Cow's are that name, and their assumptions are
hypotheses of each theorem (`KallocSizes`, `CacheSizes`). No proof about an
instance uses an assumption or a definition of Cow.

Assumptions are those of the modules: sizes are positive and rings not
degenerate, indices wrap at a multiple of the ring's size, processes and
sockets are finite sets where something is counted, and None (and "intr", the
handler as the owner of a lock) is different from what it stands beside.

Each invariant proof has one step per action. Invariants are proved by
Init => IInv and IInv /\ [Next]_vars => IInv'; temporal steps use PTL only.
TLC has checked each IInv on the instance of its run before it was proved.

Model-checked only:

* all liveness: `AllPass`, `SleepersWake`, `OrphansAreReaped`, `HangupIsTold`,
  `KallocReturns`. It needs ENABLED, which is out of the prover's reach;
* the two runs that violate their property, which are about single behaviours.


## 5. Not modelled, and the plan

| what | why |
|---|---|
| block allocation, bmap, itrunc, contents and subdirectories (`fs.c`) | under the lock of one inode and inside one transaction: what interleaves is the reference to the inode (Files) and the commit (Log) |
| contents of mapped areas; more than one mapped area in a process | one process at a time; what an area has to do with others' state is its reference. sys_mmap() does not count areas: a seventeenth is written past `p->vma[16]` (`sysproc.c:120`) |
| base buffer cache, sleep locks | one lock; the harder version of lab9 is in BcacheHash |
| console and UART | ring buffers under one lock each, as in Pipe |
| lab7 `ph.c`, `uthread.c`; lab4 alarms; lab5 lazy allocation; lab10 links and large files | a mutex per bucket; or sequential, one process at a time |
| the rest of `proc.c`: growproc, procinit, procdump | no concurrency of their own |
| user programs, tests and `mkfs` | clients and tools |
| `exec.c`, `printf.c`, `string.c`, `syscall.c` | sequential, no state that outlives a call |
| page-table walks, boot, interrupt controller, lab2's counters, lab3's printing | one process at a time, or once |
| memory ordering below the level of locks and fences | the locks provide it |
| sockwrite() with more than an mbuf holds, an unbounded rxq | panics or eats memory by itself, with nothing to interleave |

Every safety property of a passing run is proved; what is left of the plan is the
rows of the table.
