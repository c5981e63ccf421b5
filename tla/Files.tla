------------------------------- MODULE Files --------------------------------
(***************************************************************************)
(* lab11-mmap/kernel: file.c's table of open files, fs.c's table of inodes *)
(* and the calls of sysfile.c and sysproc.c that take and drop references  *)
(* to both, on one directory of ordinary files.                            *)
(*                                                                         *)
(* itable.lock and ftable.lock are held for a few statements that do not   *)
(* sleep, and each such section is a step; the sleep locks of the          *)
(* directory and of the inodes are variables.  What a process changes      *)
(* while it holds the locks of all that is changed is one step.  Contents, *)
(* subdirectories, devices and pipes are left out, and so is the log: each *)
(* call is inside a transaction (see Log).                                 *)
(*                                                                         *)
(* A process maps one file at a time, MAP_SHARED and of a whole number of  *)
(* pages.  An area that is unmapped stays in p->vma[], with size 0, and    *)
(* sysproc.c does not check for one, nor the arguments of mmap(): steps    *)
(* Unchecked are what it does then, and the model ends there.  That mmap() *)
(* does not look for the end of p->vma[16] is left out.                    *)
(***************************************************************************)
EXTENDS Naturals, FiniteSets, Functions

CONSTANTS Procs,
          Names,
          Inums,      \* numbers of the inodes on disk
          Entries,    \* the NINODE entries of the inode table
          Files,      \* the NFILE entries of the file table
          NOFILE,     \* descriptors of a process
          None

ASSUME NoneAssumption == None \notin Procs \cup Names \cup Inums \cup Entries \cup Files
ASSUME SizeAssumption == /\ NOFILE \in Nat \ {0}
                         /\ IsFiniteSet(Procs) /\ IsFiniteSet(Names) /\ IsFiniteSet(Files)

VARIABLES dir,        \* the directory: an inode number for each name, or None
          dinode,     \* the inodes on disk
          inode,      \* itable.inode
          lock,       \* the owner of each inode's sleep lock
          dirlock,    \* the owner of the directory's
          file,       \* ftable.file
          ofile,      \* how many descriptors each process has for each file
          vma,        \* the file of its mapped area
          gone,       \* the files of the areas of size 0 in its p->vma[]
          alive,
          pc,
          then,       \* where ilock() or iput() returns to
          call,       \* the system call it is in, and its paths
          ip,         \* the inode it works on
          put,        \* the argument of iput()
          inum,       \* the number ialloc() has found
          panic,      \* the kernel has stopped
          orphans,    \* history: inodes whose last reference UnrefFreed dropped
          unchecked   \* history: a step of Unchecked has been taken

fs == <<dir, dinode>>
locks == <<lock, dirlock>>
held == <<ofile, vma, gone, alive>>
locals == <<call, ip, put, inum>>
vars == <<fs, inode, locks, file, held, pc, then, locals, panic, orphans, unchecked>>

NoCall == [op |-> "none", name |-> None, new |-> None]

(* What a free entry still holds: nothing that may be relied on. *)
Stale == [inum |-> None, ref |-> 0, valid |-> TRUE, nlink |-> 0]

(* An empty directory, and no process but those outside the model. *)
Init == /\ dir = [n \in Names |-> None]
        /\ dinode = [i \in Inums |-> [used |-> FALSE, nlink |-> 0]]
        /\ inode = [e \in Entries |-> Stale]
        /\ lock = [e \in Entries |-> None]
        /\ dirlock = None
        /\ file = [f \in Files |-> [ref |-> 0, ip |-> None]]
        /\ ofile = [p \in Procs |-> [f \in Files |-> 0]]
        /\ vma = [p \in Procs |-> None]
        /\ gone = [p \in Procs |-> {}]
        /\ alive = [p \in Procs |-> FALSE]
        /\ pc = [p \in Procs |-> "user"]
        /\ then = [p \in Procs |-> "user"]
        /\ call = [p \in Procs |-> NoCall]
        /\ ip = [p \in Procs |-> None]
        /\ put = [p \in Procs |-> None]
        /\ inum = [p \in Procs |-> None]
        /\ panic = "no"
        /\ orphans = {}
        /\ unchecked = FALSE

At(p, l) == panic = "no" /\ ~unchecked /\ pc[p] = l
Goto(p, l) == pc' = [pc EXCEPT ![p] = l]

(* Call ilock(ip) or iput(e), and go on at l. *)
IlockThen(p, l) == Goto(p, "ilock") /\ then' = [then EXCEPT ![p] = l]
IputThen(p, e, l) == /\ Goto(p, "iput")
                     /\ then' = [then EXCEPT ![p] = l]
                     /\ put' = [put EXCEPT ![p] = e]

Panic(what) == /\ panic' = what
               /\ UNCHANGED <<fs, inode, locks, file, held, pc, then, locals>>

(* A system call returns: its locals are gone. *)
Forget(p) == /\ call' = [call EXCEPT ![p] = NoCall]
             /\ ip' = [ip EXCEPT ![p] = None]
             /\ inum' = [inum EXCEPT ![p] = None]

Return(p) == /\ Goto(p, "user")
             /\ then' = [then EXCEPT ![p] = "user"]
             /\ Forget(p)

(* iput(ip) is the last thing a call does. *)
IputAndReturn(p) == IputThen(p, ip[p], "user") /\ Forget(p)

(* A field of an inode is changed and iupdate() copies it to the disk. *)
SetLinks(e, k) == /\ inode' = [inode EXCEPT ![e].nlink = k]
                  /\ dinode' = [dinode EXCEPT ![inode[e].inum].nlink = k]

Unlock(e) == lock' = [lock EXCEPT ![e] = None]

-----------------------------------------------------------------------------
(* The inode table.                                                        *)

InUse(i) == {e \in Entries : inode[e].ref > 0 /\ inode[e].inum = i}
Empty == {e \in Entries : inode[e].ref = 0}

(* Mutation: a recycled entry is still valid. *)
M_iget(i, e) ==
  \/ /\ e \in InUse(i)
     /\ inode' = [inode EXCEPT ![e].ref = @ + 1]
  \/ /\ InUse(i) = {} /\ e \in Empty
     /\ inode' = [inode EXCEPT ![e].inum = i, ![e].ref = 1]

(* iget(dev, i) returns e; nlink means nothing while valid is 0.  Which    *)
(* free entry is the first is left open, and so it is for ialloc() and     *)
(* filealloc().                                                            *)
iget(i, e) ==
  \/ /\ e \in InUse(i)
     /\ inode' = [inode EXCEPT ![e].ref = @ + 1]
  \/ /\ InUse(i) = {} /\ e \in Empty
     /\ inode' = [inode EXCEPT ![e] = [inum |-> i, ref |-> 1, valid |-> FALSE, nlink |-> 0]]

NoEntry(i) == InUse(i) = {} /\ Empty = {}

(* ilock(ip) *)
Ilock(p) == /\ At(p, "ilock")
            /\ lock[ip[p]] = None
            /\ lock' = [lock EXCEPT ![ip[p]] = p]
            /\ Goto(p, IF inode[ip[p]].valid THEN then[p] ELSE "read")
            /\ UNCHANGED <<fs, inode, dirlock, file, held, then, locals, panic>>

ReadInode(p) ==
  /\ At(p, "read")
  /\ LET d == dinode[inode[ip[p]].inum] IN
     IF d.used
       THEN /\ inode' = [inode EXCEPT ![ip[p]].valid = TRUE, ![ip[p]].nlink = d.nlink]
            /\ Goto(p, then[p])
            /\ UNCHANGED <<fs, locks, file, held, then, locals, panic>>
       ELSE Panic("ilock: no type")

(* Mutation: an inode in use elsewhere is freed. *)
M_LastReference(e) == inode[e].valid /\ inode[e].nlink = 0

LastReference(e) == inode[e].ref = 1 /\ inode[e].valid /\ inode[e].nlink = 0

Unref(e) == inode' = [inode EXCEPT ![e] = IF inode[e].ref = 1 THEN Stale
                                          ELSE [inode[e] EXCEPT !.ref = @ - 1]]

(* iput(put), under itable.lock.  acquiresleep() does not sleep here: it   *)
(* would panic, with a spin lock held.                                     *)
Iput(p) ==
  LET e == put[p] IN
  /\ At(p, "iput")
  /\ IF ~LastReference(e)
       THEN /\ Unref(e)
            /\ put' = [put EXCEPT ![p] = None]
            /\ Goto(p, then[p])
            /\ UNCHANGED <<fs, locks, file, held, then, call, ip, inum, panic>>
       ELSE IF lock[e] = None
       THEN /\ lock' = [lock EXCEPT ![e] = p]
            /\ Goto(p, "free")
            /\ UNCHANGED <<fs, inode, dirlock, file, held, then, locals, panic>>
       ELSE Panic("sched locks")

(* itrunc(), ip->type = 0 and iupdate(), with itable.lock released. *)
FreeInode(p) == /\ At(p, "free")
                /\ dinode' = [dinode EXCEPT ![inode[put[p]].inum] = [used |-> FALSE, nlink |-> 0]]
                /\ Goto(p, "freed")
                /\ UNCHANGED <<dir, inode, locks, file, held, then, locals, panic>>

Freed(p) == /\ At(p, "freed")
            /\ inode' = [inode EXCEPT ![put[p]].valid = FALSE, ![put[p]].nlink = 0]
            /\ Unlock(put[p])
            /\ Goto(p, "unref")
            /\ UNCHANGED <<fs, dirlock, file, held, then, locals, panic>>

UnrefFreed(p) == /\ At(p, "unref")
                 /\ Unref(put[p])
                 /\ put' = [put EXCEPT ![p] = None]
                 /\ Goto(p, then[p])
                 /\ UNCHANGED <<fs, locks, file, held, then, call, ip, inum, panic>>

-----------------------------------------------------------------------------
(* Paths.                                                                  *)

Idle(p) == At(p, "user") /\ alive[p]

(* open(), open() with O_CREATE, link() and unlink() begin. *)
Call(p, op, n, m) == /\ Idle(p)
                     /\ m # None <=> op = "link"
                     /\ call' = [call EXCEPT ![p] = [op |-> op, name |-> n, new |-> m]]
                     /\ Goto(p, "namei")
                     /\ UNCHANGED <<fs, inode, locks, file, held, then, ip, put, inum, panic>>

(* ilock() of the directory, which is always in the table. *)
LockDir(p) == /\ \/ At(p, "namei") /\ Goto(p, "dirlookup")
                 \/ At(p, "nameiparent") /\ Goto(p, "dirlink")
              /\ dirlock = None
              /\ dirlock' = p
              /\ UNCHANGED <<fs, inode, lock, file, held, then, locals, panic>>

(* dirlookup() finds the name, and the inode is locked in its turn:        *)
(* unlink() keeps the directory locked meanwhile.                          *)
Found(p) ==
  LET op == call[p].op
      i == dir[call[p].name] IN
  /\ At(p, "dirlookup")
  /\ i # None
  /\ IF NoEntry(i) THEN Panic("iget: no inodes")
     ELSE /\ \E e \in Entries : iget(i, e) /\ ip' = [ip EXCEPT ![p] = e]
          /\ IlockThen(p, IF op = "create" THEN "open" ELSE op)
          /\ dirlock' = IF op = "unlink" THEN p ELSE None
          /\ UNCHANGED <<fs, lock, file, held, call, put, inum, panic>>

NotFound(p) == /\ At(p, "dirlookup")
               /\ call[p].op # "create"
               /\ dir[call[p].name] = None
               /\ dirlock' = None
               /\ Return(p)
               /\ UNCHANGED <<fs, inode, lock, file, held, put, panic>>

-----------------------------------------------------------------------------
(* create() and sys_open()                                                 *)

FreeInums == {i \in Inums : ~dinode[i].used}

Ialloc(p) ==
  /\ At(p, "dirlookup")
  /\ call[p].op = "create"
  /\ dir[call[p].name] = None
  /\ IF FreeInums = {} THEN Panic("ialloc: no inodes")
     ELSE /\ \E i \in FreeInums :
               /\ inum' = [inum EXCEPT ![p] = i]
               /\ dinode' = [dinode EXCEPT ![i] = [used |-> TRUE, nlink |-> 0]]
          /\ Goto(p, "iget")
          /\ UNCHANGED <<dir, inode, locks, file, held, then, call, ip, put, panic>>

IallocIget(p) ==
  /\ At(p, "iget")
  /\ IF NoEntry(inum[p]) THEN Panic("iget: no inodes")
     ELSE /\ \E e \in Entries : iget(inum[p], e) /\ ip' = [ip EXCEPT ![p] = e]
          /\ IlockThen(p, "create")
          /\ UNCHANGED <<fs, locks, file, held, call, put, inum, panic>>

(* The new inode gets its link, and the directory its entry. *)
Create(p) == /\ At(p, "create")
             /\ SetLinks(ip[p], 1)
             /\ dir' = [dir EXCEPT ![call[p].name] = inode[ip[p]].inum]
             /\ dirlock' = None
             /\ Goto(p, "open")
             /\ UNCHANGED <<lock, file, held, then, locals, panic>>

FreeFiles == {f \in Files : file[f].ref = 0}
FdFree(p) == SumFunction(ofile[p]) < NOFILE

(* filealloc() and fdalloc(): the reference to the inode is the file's. *)
Open(p) == /\ At(p, "open")
           /\ FdFree(p)
           /\ \E f \in FreeFiles :
                /\ file' = [file EXCEPT ![f] = [ref |-> 1, ip |-> ip[p]]]
                /\ ofile' = [ofile EXCEPT ![p][f] = 1]
           /\ Unlock(ip[p])
           /\ Return(p)
           /\ UNCHANGED <<fs, inode, dirlock, vma, gone, alive, put, panic>>

OpenFails(p) == /\ At(p, "open")
                /\ FreeFiles = {} \/ ~FdFree(p)
                /\ Unlock(ip[p])
                /\ IputAndReturn(p)
                /\ UNCHANGED <<fs, inode, dirlock, file, held, panic>>

-----------------------------------------------------------------------------
(* sys_link()                                                              *)

Link(p) == /\ At(p, "link")
           /\ SetLinks(ip[p], inode[ip[p]].nlink + 1)
           /\ Unlock(ip[p])
           /\ Goto(p, "nameiparent")
           /\ UNCHANGED <<dir, dirlock, file, held, then, locals, panic>>

Dirlink(p) == /\ At(p, "dirlink")
              /\ dir[call[p].new] = None
              /\ dir' = [dir EXCEPT ![call[p].new] = inode[ip[p]].inum]
              /\ dirlock' = None
              /\ IputAndReturn(p)
              /\ UNCHANGED <<dinode, inode, lock, file, held, panic>>

(* Mutation: dirlink() keeps the reference dirlookup() gave it. *)
M_DirlinkFails(p) ==
  /\ At(p, "dirlink")
  /\ dir[call[p].new] # None
  /\ \E e \in Entries : iget(dir[call[p].new], e)
  /\ Goto(p, "bad")
  /\ UNCHANGED <<fs, locks, file, held, then, locals, panic>>

(* The name is there: dirlink() drops the inode dirlookup() gave it. *)
DirlinkFails(p) ==
  LET i == dir[call[p].new] IN
  /\ At(p, "dirlink")
  /\ i # None
  /\ IF NoEntry(i) THEN Panic("iget: no inodes")
     ELSE /\ \E e \in Entries : iget(i, e) /\ IputThen(p, e, "bad")
          /\ UNCHANGED <<fs, locks, file, held, call, ip, inum, panic>>

(* bad: the directory is unlocked and the inode locked again. *)
LinkBad(p) == /\ At(p, "bad")
              /\ dirlock' = None
              /\ IlockThen(p, "unlinked")
              /\ UNCHANGED <<fs, inode, lock, file, held, locals, panic>>

-----------------------------------------------------------------------------
(* sys_unlink(), the directory and the inode locked.                       *)

Unlink(p) ==
  /\ At(p, "unlink")
  /\ IF inode[ip[p]].nlink < 1 THEN Panic("unlink: nlink < 1")
     ELSE /\ dir' = [dir EXCEPT ![call[p].name] = None]
          /\ dirlock' = None
          /\ Goto(p, "unlinked")
          /\ UNCHANGED <<dinode, inode, lock, file, held, then, locals, panic>>

(* Here link() that has failed takes its link off again, too. *)
Unlinked(p) == /\ At(p, "unlinked")
               /\ SetLinks(ip[p], inode[ip[p]].nlink - 1)
               /\ Unlock(ip[p])
               /\ IputAndReturn(p)
               /\ UNCHANGED <<dir, dirlock, file, held, panic>>

-----------------------------------------------------------------------------
(* Descriptors and mapped areas.                                           *)

(* What p has of f. *)
Holds(p, f) == ofile[p][f] + (IF vma[p] = f THEN 1 ELSE 0)

(* fileclose(f), and then l: the last reference drops the inode. *)
fileclose(p, f, l) ==
  IF file[f].ref > 1
    THEN /\ file' = [file EXCEPT ![f].ref = @ - 1]
         /\ Goto(p, l)
         /\ UNCHANGED <<then, put>>
    ELSE /\ file' = [file EXCEPT ![f] = [ref |-> 0, ip |-> None]]
         /\ IputThen(p, file[f].ip, l)

Close(p, f) ==
  /\ Idle(p)
  /\ ofile[p][f] > 0
  /\ ofile' = [ofile EXCEPT ![p][f] = @ - 1]
  /\ fileclose(p, f, "user")
  /\ UNCHANGED <<fs, inode, locks, vma, gone, alive, call, ip, inum, panic>>

(* Mutation: no filedup(). *)
M_Dup(p, f) == /\ Idle(p)
               /\ ofile[p][f] > 0 /\ FdFree(p)
               /\ ofile' = [ofile EXCEPT ![p][f] = @ + 1]
               /\ UNCHANGED <<fs, inode, locks, file, vma, gone, alive, pc, then, locals, panic>>

Dup(p, f) == /\ Idle(p)
             /\ ofile[p][f] > 0 /\ FdFree(p)
             /\ ofile' = [ofile EXCEPT ![p][f] = @ + 1]
             /\ file' = [file EXCEPT ![f].ref = @ + 1]
             /\ UNCHANGED <<fs, inode, locks, vma, gone, alive, pc, then, locals, panic>>

(* read(), write(), fstat(), a page fault in the area or munmap() of a     *)
(* part of it, which leaves the rest mapped.                               *)
Access(p, f) == /\ Idle(p)
                /\ Holds(p, f) > 0
                /\ ip' = [ip EXCEPT ![p] = file[f].ip]
                /\ IlockThen(p, "access")
                /\ UNCHANGED <<fs, inode, locks, file, held, call, put, inum, panic>>

Accessed(p) == /\ At(p, "access")
               /\ Unlock(ip[p])
               /\ Return(p)
               /\ UNCHANGED <<fs, inode, dirlock, file, held, put, panic>>

Mmap(p, f) == /\ Idle(p)
              /\ ofile[p][f] > 0 /\ vma[p] = None
              /\ vma' = [vma EXCEPT ![p] = f]
              /\ file' = [file EXCEPT ![f].ref = @ + 1]
              /\ UNCHANGED <<fs, inode, locks, ofile, gone, alive, pc, then, locals, panic>>

(* munmap() of the rest of the area, which is written back first. *)
Munmap(p) == /\ Idle(p)
             /\ vma[p] # None
             /\ ip' = [ip EXCEPT ![p] = file[vma[p]].ip]
             /\ IlockThen(p, "munmap")
             /\ UNCHANGED <<fs, inode, locks, file, held, call, put, inum, panic>>

(* exit() does the same if there is an area, and skips those of size 0. *)
Exit(p) == /\ Idle(p)
           /\ IF vma[p] = None
                THEN Goto(p, "exit") /\ UNCHANGED <<then, ip>>
                ELSE /\ ip' = [ip EXCEPT ![p] = file[vma[p]].ip]
                     /\ IlockThen(p, "exit_munmap")
           /\ UNCHANGED <<fs, inode, locks, file, held, call, put, inum, panic>>

WrittenBack(p, l) == /\ Unlock(ip[p])
                     /\ ip' = [ip EXCEPT ![p] = None]
                     /\ vma' = [vma EXCEPT ![p] = None]
                     /\ fileclose(p, vma[p], l)
                     /\ UNCHANGED <<fs, inode, dirlock, ofile, alive, call, inum, panic>>

Unmapped(p) == \/ /\ At(p, "munmap")
                  /\ gone' = [gone EXCEPT ![p] = @ \cup {vma[p]}]
                  /\ WrittenBack(p, "user")
               \/ At(p, "exit_munmap") /\ WrittenBack(p, "exit") /\ UNCHANGED gone

ExitClose(p) ==
  /\ At(p, "exit")
  /\ \/ \E f \in Files :
          /\ ofile[p][f] > 0
          /\ ofile' = [ofile EXCEPT ![p][f] = @ - 1]
          /\ fileclose(p, f, "exit")
          /\ UNCHANGED <<gone, alive>>
     \/ /\ \A f \in Files : ofile[p][f] = 0
        /\ alive' = [alive EXCEPT ![p] = FALSE]
        /\ gone' = [gone EXCEPT ![p] = {}]
        /\ Goto(p, "user")
        /\ UNCHANGED <<file, ofile, then, put>>
  /\ UNCHANGED <<fs, inode, locks, vma, call, ip, inum, panic>>

(* A process of which the model has not seen the parent. *)
Born(p) == /\ At(p, "user")
           /\ ~alive[p]
           /\ alive' = [alive EXCEPT ![p] = TRUE]
           /\ UNCHANGED <<fs, inode, locks, file, ofile, vma, gone, pc, then, locals, panic>>

(* fork(): filedup() for the areas and the descriptors of the parent, but  *)
(* for areas of size 0, which the child has too.                           *)
Fork(p, q) ==
  /\ Idle(p)
  /\ ~alive[q]
  /\ alive' = [alive EXCEPT ![q] = TRUE]
  /\ vma' = [vma EXCEPT ![q] = vma[p]]
  /\ gone' = [gone EXCEPT ![q] = gone[p]]
  /\ ofile' = [ofile EXCEPT ![q] = ofile[p]]
  /\ file' = [f \in Files |-> [file[f] EXCEPT !.ref = @ + Holds(p, f)]]
  /\ UNCHANGED <<fs, inode, locks, pc, then, locals, panic>>

-----------------------------------------------------------------------------
(* What mmap() and munmap() do not check.                                  *)

(* munmap() at the end an area had: an area of size 0 that inherits the    *)
(* address matches, and its file is closed once more (lines 140-156), on   *)
(* somebody else's reference if there is any.  If there is none, the inode *)
(* the entry still points to is locked, if it is in use, and fileclose()   *)
(* panics.                                                                 *)
MunmapAgain(p, f) ==
  /\ Idle(p)
  /\ f \in gone[p]
  /\ IF file[f].ref = 0
       THEN \E what \in {"ilock", "fileclose"} : Panic(what)
       ELSE /\ fileclose(p, f, "user")
            /\ UNCHANGED <<fs, inode, locks, held, call, ip, inum, panic>>

(* A page fault past the end of such an area is taken to be in it, by the  *)
(* size of the process (trap.c line 79), and reads the inode of a file the *)
(* process need not hold.                                                  *)
FaultGone(p, f) ==
  /\ Idle(p)
  /\ f \in gone[p]
  /\ \/ file[f].ref = 0 /\ Panic("ilock")
     \/ UNCHANGED <<fs, inode, locks, file, held, pc, then, locals, panic>>

(* mmap() of length 0: an area of size 0 that has a reference. *)
MmapEmpty(p, f) ==
  /\ Idle(p)
  /\ ofile[p][f] > 0
  /\ gone' = [gone EXCEPT ![p] = @ \cup {f}]
  /\ file' = [file EXCEPT ![f].ref = @ + 1]
  /\ UNCHANGED <<fs, inode, locks, ofile, vma, alive, pc, then, locals, panic>>

(* mmap() of a descriptor that is not open dereferences p->ofile[fd]. *)
MmapClosed(p) == Idle(p) /\ FdFree(p) /\ Panic("kerneltrap")

Unchecked(p) ==
  \/ \E f \in Files : MunmapAgain(p, f) \/ FaultGone(p, f) \/ MmapEmpty(p, f)
  \/ MmapClosed(p)

-----------------------------------------------------------------------------
FsStep(p) == \/ LockDir(p) \/ Found(p) \/ NotFound(p)
             \/ Ilock(p) \/ ReadInode(p)
             \/ Iput(p) \/ FreeInode(p) \/ Freed(p)
             \/ Ialloc(p) \/ IallocIget(p) \/ Create(p) \/ Open(p) \/ OpenFails(p)
             \/ Link(p) \/ Dirlink(p) \/ DirlinkFails(p) \/ LinkBad(p)
             \/ Unlink(p) \/ Unlinked(p)
             \/ Accessed(p) \/ Unmapped(p) \/ ExitClose(p)

UserStep(p) ==
  \/ \E op \in {"open", "create", "unlink", "link"}, n \in Names, m \in Names \cup {None} :
       Call(p, op, n, m)
  \/ \E f \in Files : Close(p, f) \/ Dup(p, f) \/ Access(p, f) \/ Mmap(p, f)
  \/ Munmap(p) \/ Exit(p) \/ Born(p)
  \/ \E q \in Procs : Fork(p, q)

(* An inode is an orphan until its number is used again, which is never.   *)
Orphans == {i \in Inums : \E p \in Procs, e \in InUse(i) :
              At(p, "unref") /\ put[p] = e /\ LastReference(e)}

Next == \E p \in Procs :
  \/ (FsStep(p) \/ UserStep(p)) /\ UNCHANGED <<orphans, unchecked>>
  \/ UnrefFreed(p) /\ orphans' = orphans \cup Orphans /\ UNCHANGED unchecked
  \/ Unchecked(p) /\ unchecked' = TRUE /\ UNCHANGED orphans

Spec == Init /\ [][Next]_vars

-----------------------------------------------------------------------------
(* The kernel does not panic, but for want of inodes: ilock() finds a type *)
(* ("ilock: no type", fs.c line 311), unlink() a link (line 210), and the  *)
(* acquiresleep() of iput() "won't block" (fs.c lines 334-335): unless     *)
(* mmap() or munmap() has gone Unchecked.                                  *)
NoPanic == ~unchecked => panic \in {"no", "iget: no inodes", "ialloc: no inodes"}

(* The references to a file: one for each descriptor and mapped area.      *)
References(f) == UNION {{p} \X (1..Holds(p, f)) : p \in Procs}

(* A file counts the descriptors and areas that refer to it, and an entry  *)
(* with no reference is free, until mmap() or munmap() goes Unchecked: the *)
(* areas of size 0 have no reference, whatever became of their file.       *)
FileRefs == ~unchecked => \A f \in Files : file[f].ref = Cardinality(References(f))

(* The files, the calls and the iput()s that have a reference to entry e.  *)
FilesOf(e) == {f \in Files : file[f].ref > 0 /\ file[f].ip = e}
Calls(e) == {p \in Procs : ip[p] = e /\ call[p].op # "none"}
Puts(e) == {p \in Procs : put[p] = e}

(* An inode counts the files that refer to it, the calls that use it, and  *)
(* the iput()s that have not dropped it yet; and one entry stands for each *)
(* number.                                                                 *)
InodeRefs == \A e \in Entries :
  /\ inode[e].ref = Cardinality(FilesOf(e)) + Cardinality(Calls(e)) + Cardinality(Puts(e))
  /\ inode[e].ref > 0 => InUse(inode[e].inum) = {e}

NamesOf(i) == {n \in Names : dir[n] = i}

(* link() counts its link before there is a name for it, and unlink()      *)
(* counts it off when the name has gone.                                   *)
Unnamed(i) == {p \in Procs : /\ call[p].op \in {"link", "unlink"}
                             /\ ip[p] # None /\ inode[ip[p]].inum = i
                             /\ \/ pc[p] \in {"nameiparent", "dirlink", "bad", "unlinked"}
                                \/ then[p] \in {"bad", "unlinked"}}

(* The links of an inode on disk are its names and those of Unnamed, and a *)
(* valid entry knows them: so no inode is freed that has a name, and one   *)
(* that has none and is not in use has been freed.                         *)
LinksAreNames == \A i \in Inums :
  /\ dinode[i].nlink = Cardinality(NamesOf(i)) + Cardinality(Unnamed(i))
  /\ \A e \in InUse(i) : inode[e].valid => inode[e].nlink = dinode[i].nlink
  /\ NamesOf(i) # {} => dinode[i].used
  /\ dinode[i].used => \/ NamesOf(i) # {} \/ InUse(i) # {}
                       \/ i \in orphans \/ \E p \in Procs : inum[p] = i

-----------------------------------------------------------------------------
Ops == {"none", "open", "create", "unlink", "link"}
Opening == {"open", "create", "link", "unlink"}         \* ilock() of a call's own inode
Shared == {"access", "munmap", "exit_munmap"}           \* and of one a file refers to
Putting == {"iput", "free", "freed", "unref"}
Freeing == {"free", "freed", "unref"}
PCs == {"user", "namei", "nameiparent", "dirlookup", "dirlink", "iget", "ilock", "read",
        "bad", "unlinked", "exit"} \cup Opening \cup Shared \cup Putting

TypeOK == /\ dir \in [Names -> Inums \cup {None}]
          /\ dinode \in [Inums -> [used : BOOLEAN, nlink : Nat]]
          /\ inode \in [Entries -> [inum : Inums \cup {None}, ref : Nat, valid : BOOLEAN,
                                    nlink : Nat]]
          /\ lock \in [Entries -> Procs \cup {None}]
          /\ dirlock \in Procs \cup {None}
          /\ file \in [Files -> [ref : Nat, ip : Entries \cup {None}]]
          /\ ofile \in [Procs -> [Files -> Nat]]
          /\ vma \in [Procs -> Files \cup {None}]
          /\ gone \in [Procs -> SUBSET Files]
          /\ alive \in [Procs -> BOOLEAN]
          /\ pc \in [Procs -> PCs]
          /\ then \in [Procs -> PCs]
          /\ call \in [Procs -> [op : Ops, name : Names \cup {None}, new : Names \cup {None}]]
          /\ ip \in [Procs -> Entries \cup {None}]
          /\ put \in [Procs -> Entries \cup {None}]
          /\ inum \in [Procs -> Inums \cup {None}]
          /\ orphans \subseteq Inums
          /\ unchecked \in BOOLEAN

(* Where a process is in its call: the label it is at, or the one it goes  *)
(* on at when it has the lock or has dropped the reference.                *)
Stage(p) == IF pc[p] \in {"ilock", "read"} \cup Putting THEN then[p] ELSE pc[p]

(* What a process has, by where it is. *)
CallInv(p) ==
  /\ pc[p] \in {"ilock", "read"} => then[p] \in Opening \cup Shared \cup {"unlinked"}
  /\ pc[p] \in Putting => then[p] \in {"user", "exit", "bad"}
  /\ then[p] \in {"bad", "unlinked"} => Stage(p) \in {"bad", "unlinked"}
  /\ put[p] # None <=> pc[p] \in Putting
  /\ ip[p] # None <=> Stage(p) \in Opening \cup Shared
                                  \cup {"nameiparent", "dirlink", "bad", "unlinked"}
  /\ call[p].op = "none" <=> Stage(p) \in Shared \cup {"user", "exit"}
  /\ call[p].op # "none" => call[p].name # None
  /\ call[p].op = "link" => call[p].new # None
  /\ Stage(p) \in {"link", "nameiparent", "dirlink", "bad"} => call[p].op = "link"
  /\ Stage(p) = "unlink" => call[p].op = "unlink"
  /\ Stage(p) \in {"iget", "create"} => call[p].op = "create" /\ inum[p] # None
  /\ Stage(p) = "open" => call[p].op \in {"open", "create"}
  /\ Stage(p) = "unlinked" => call[p].op \in {"link", "unlink"}
  /\ inum[p] # None => Stage(p) \in {"iget", "create", "open"}
  /\ ~alive[p] => pc[p] = "user"

(* What it has of files, and the number of the inode it has made. *)
HeldInv(p) ==
  /\ Stage(p) \in Shared => \E f \in Files : Holds(p, f) > 0 /\ file[f].ip = ip[p]
  /\ Stage(p) \in {"munmap", "exit_munmap"} => vma[p] # None /\ file[vma[p]].ip = ip[p]
  /\ Stage(p) = "exit" => vma[p] = None
  /\ ~alive[p] => \A f \in Files : Holds(p, f) = 0
  /\ inum[p] # None /\ ip[p] # None => inode[ip[p]].inum = inum[p]

(* Who has the sleep locks. *)
HasLock(p) == pc[p] \in Opening \cup Shared \cup {"read", "unlinked", "free", "freed"}
Locked(p) == IF pc[p] \in Putting THEN put[p] ELSE ip[p]
HasDirlock(p) == Stage(p) \in {"dirlookup", "iget", "create", "dirlink", "bad", "unlink"}

LockInv(p) == /\ \A e \in Entries : lock[e] = p <=> (HasLock(p) /\ Locked(p) = e)
              /\ dirlock = p <=> HasDirlock(p)

FileInv(f) == /\ file[f].ip # None <=> file[f].ref > 0
              /\ file[f].ref > 0 => inode[file[f].ip].valid

(* What is known of the directory while it is locked. *)
DirInv(p) ==
  /\ Stage(p) \in {"iget", "create"} =>
       dir[call[p].name] = None /\ NamesOf(inum[p]) = {} /\ dinode[inum[p]].used
  /\ Stage(p) = "unlink" => dir[call[p].name] = inode[ip[p]].inum
  /\ pc[p] \in Putting /\ then[p] = "bad" => dir[call[p].new] = inode[put[p]].inum

(* The last reference is being dropped, the inode on disk already free. *)
LastPut(e) == inode[e].ref = 1 /\ \E p \in Procs : put[p] = e /\ pc[p] \in {"freed", "unref"}

(* An entry in use is that of an inode in use, but for that time. *)
EntryInv(e) == inode[e].ref > 0 => /\ inode[e].inum # None
                                   /\ dinode[inode[e].inum].used \/ LastPut(e)

(* ilock() has read the inode of a call, and of what it gives up. *)
ReadInv(p) ==
  /\ ip[p] # None /\ ~(pc[p] \in {"ilock", "read"} /\ then[p] \in Opening)
       => inode[ip[p]].valid
  /\ pc[p] = "iput" /\ then[p] # "bad" => inode[put[p]].valid

(* Nobody else has found what ialloc() has found. *)
AllocInv(p) ==
  /\ Stage(p) = "iget" => \A e \in InUse(inum[p]) : LastPut(e)
  /\ Stage(p) = "create" => /\ FilesOf(ip[p]) = {} /\ Calls(ip[p]) = {p}
                            /\ \A q \in Puts(ip[p]) : pc[q] \in {"freed", "unref"}

(* Nor what iput() frees, until ialloc() finds it. *)
FreeInv(p) == pc[p] \in Freeing =>
  /\ then[p] # "bad"
  /\ \A q \in Procs : put[q] = put[p] /\ pc[q] \in Freeing => q = p
  /\ pc[p] = "free" => /\ inode[put[p]].ref = 1
                       /\ dinode[inode[put[p]].inum].used
  /\ pc[p] \in {"free", "freed"} => inode[put[p]].valid /\ inode[put[p]].nlink = 0
  /\ pc[p] = "freed" => /\ FilesOf(put[p]) = {} /\ Puts(put[p]) = {p}
                        /\ \A q \in Procs : ip[q] = put[p] => pc[q] = "ilock" /\ then[q] = "create"
  /\ pc[p] \in {"freed", "unref"} /\ dinode[inode[put[p]].inum].used =>
       \/ pc[p] = "unref" /\ inode[put[p]].valid
       \/ \E q \in Procs : inum[q] = inode[put[p]].inum

Sound == /\ \A p \in Procs : /\ CallInv(p) /\ HeldInv(p) /\ LockInv(p) /\ DirInv(p)
                             /\ ReadInv(p) /\ AllocInv(p) /\ FreeInv(p)
         /\ \A f \in Files : FileInv(f)
         /\ \A e \in Entries : EntryInv(e)

IInv == /\ TypeOK /\ NoPanic /\ FileRefs /\ InodeRefs /\ LinksAreNames
        /\ ~unchecked => Sound
=============================================================================
