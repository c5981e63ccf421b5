-------------------------------- MODULE Cow ---------------------------------
(***************************************************************************)
(* lab6-cow: copy-on-write fork().  The pages of user memory are counted   *)
(* in reference_count[] (kernel/kalloc.c), shared by uvmcopy() and copied  *)
(* by usertrap() and copyout() (kernel/vm.c, kernel/trap.c).               *)
(*                                                                         *)
(* The counts have no lock, so each load and each store of one is a step.  *)
(* A process has one page of user memory here.  Which page the free list   *)
(* gives, and which process is whose parent, is left open; pages of page   *)
(* tables and trap frames are never shared and are left out, but they are  *)
(* why mappages() may fail.                                                *)
(***************************************************************************)
EXTENDS Integers, FiniteSets

CONSTANTS Procs,
          initproc,
          Pages,
          Values,     \* what a process may write
          Zero, Junk, \* what uvmalloc() and the allocator fill a page with
          MaxCount,   \* bound: the largest count fork() may start from
          None

ASSUME ProcsAssumption == /\ initproc \in Procs /\ None \notin Procs \cup Pages
                          /\ IsFiniteSet(Procs)
ASSUME ValuesAssumption == Zero # Junk /\ Junk \notin Values
ASSUME CountAssumption == MaxCount \in Nat

VARIABLES freelist,         \* the pages of kmem.freelist
          reference_count,
          content,          \* of each page
          pte,              \* of each process: its page, and PTE_C
          state,
          wait_lock,
          pc,               \* where each process stands in the kernel
          op,               \* what it is there for
          np,               \* the process whose page it maps or frees
          mem,              \* the page kalloc() has given it
          reg,              \* the count it has loaded
          image,            \* history: what the process should find in its page
          raced             \* history: two used the count of a page at a time

memory == <<freelist, content, pte>>
locals == <<op, np, mem, reg>>
vars == <<memory, reference_count, state, wait_lock, pc, locals, image, raced>>

Unmapped == [page |-> None, cow |-> FALSE]

PCs == {"user", "inc_load", "inc_store", "mapped", "pop", "init", "fill",
        "test", "sub_load", "sub_store", "push", "clear"}
Ops == {"none", "fork", "fault", "grow", "shrink", "reap"}

(* userinit(): the first process has a page, the others are unused. *)
Init == \E g \in Pages :
  /\ freelist = Pages \ {g}
  /\ reference_count = [h \in Pages |-> IF h = g THEN 1 ELSE 0]
  /\ content = [h \in Pages |-> IF h = g THEN Zero ELSE Junk]
  /\ pte = [p \in Procs |-> IF p = initproc THEN [page |-> g, cow |-> FALSE] ELSE Unmapped]
  /\ state = [p \in Procs |-> IF p = initproc THEN "live" ELSE "unused"]
  /\ wait_lock = None
  /\ pc = [p \in Procs |-> "user"]
  /\ op = [p \in Procs |-> "none"]
  /\ np = [p \in Procs |-> p]
  /\ mem = [p \in Procs |-> None]
  /\ reg = [p \in Procs |-> 0]
  /\ image = [p \in Procs |-> Zero]
  /\ raced = FALSE

At(p, l) == pc[p] = l
Goto(p, l) == pc' = [pc EXCEPT ![p] = l]
Count(g, k) == reference_count' = [reference_count EXCEPT ![g] = k]
Map(p, g, c) == pte' = [pte EXCEPT ![p] = [page |-> g, cow |-> c]]

(* In user space, or at the start of a system call. *)
Runs(p) == At(p, "user") /\ state[p] = "live"

(* A call returns: its locals are gone. *)
Return(p) == /\ Goto(p, "user")
             /\ op' = [op EXCEPT ![p] = "none"]
             /\ np' = [np EXCEPT ![p] = p]
             /\ mem' = [mem EXCEPT ![p] = None]
             /\ reg' = [reg EXCEPT ![p] = 0]

(* A call of kind o begins, about the page of q. *)
Enter(p, o, q, l) == /\ op' = [op EXCEPT ![p] = o]
                     /\ np' = [np EXCEPT ![p] = q]
                     /\ Goto(p, l)

-----------------------------------------------------------------------------
(* fork()                                                                  *)

(* Mutation: the parent keeps PTE_W. *)
M_Fork(p, q) == /\ Runs(p) /\ pte[p] # Unmapped
                /\ state[q] = "unused"
                /\ reference_count[pte[p].page] <= MaxCount
                /\ state' = [state EXCEPT ![q] = "embryo"]
                /\ Map(q, pte[p].page, TRUE)
                /\ Enter(p, "fork", q, "inc_load")
                /\ UNCHANGED <<freelist, content, reference_count, wait_lock, mem, reg, image>>

(* uvmcopy() makes the parent's page read-only and maps it in the child. *)
Fork(p, q) ==
  /\ Runs(p) /\ pte[p] # Unmapped
  /\ state[q] = "unused"
  /\ reference_count[pte[p].page] <= MaxCount
  /\ state' = [state EXCEPT ![q] = "embryo"]
  /\ pte' = [r \in Procs |-> IF r \in {p, q} THEN [page |-> pte[p].page, cow |-> TRUE]
                             ELSE pte[r]]
  /\ Enter(p, "fork", q, "inc_load")
  /\ UNCHANGED <<freelist, content, reference_count, wait_lock, mem, reg, image>>

(* mappages() fails; the parent's page stays read-only. *)
ForkFails(p) == /\ Runs(p) /\ pte[p] # Unmapped
                /\ Map(p, pte[p].page, TRUE)
                /\ UNCHANGED <<freelist, content, reference_count, state, wait_lock, pc, locals, image>>

(* add_rc() *)
IncLoad(p) == /\ At(p, "inc_load")
              /\ reg' = [reg EXCEPT ![p] = reference_count[pte[p].page]]
              /\ Goto(p, "inc_store")
              /\ UNCHANGED <<memory, reference_count, state, wait_lock, op, np, mem, image>>

IncStore(p) == /\ At(p, "inc_store")
               /\ Count(pte[p].page, reg[p] + 1)
               /\ Goto(p, "mapped")
               /\ UNCHANGED <<memory, state, wait_lock, locals, image>>

ForkReturns(p) == /\ At(p, "mapped")
                  /\ state' = [state EXCEPT ![np[p]] = "live"]
                  /\ image' = [image EXCEPT ![np[p]] = image[p]]
                  /\ Return(p)
                  /\ UNCHANGED <<memory, reference_count, wait_lock>>

(* Mutation: what has been mapped is not counted off. *)
M_ForkUndo(p) == /\ At(p, "mapped")
                 /\ pte' = [pte EXCEPT ![np[p]] = Unmapped]
                 /\ state' = [state EXCEPT ![np[p]] = "unused"]
                 /\ Return(p)
                 /\ UNCHANGED <<freelist, content, reference_count, wait_lock, image>>

(* mappages() fails for a later page: uvmcopy() unmaps what it has mapped. *)
ForkUndo(p) == /\ At(p, "mapped")
               /\ Goto(p, "test")
               /\ UNCHANGED <<memory, reference_count, state, wait_lock, locals, image>>

-----------------------------------------------------------------------------
(* Writes, page faults and sbrk().                                         *)

(* A store instruction, or copyout() where no copy is needed. *)
Write(p, v) == /\ Runs(p)
               /\ pte[p] # Unmapped /\ ~pte[p].cow
               /\ content' = [content EXCEPT ![pte[p].page] = v]
               /\ image' = [image EXCEPT ![p] = v]
               /\ UNCHANGED <<freelist, pte, reference_count, state, wait_lock, pc, locals>>

(* usertrap(), or copyout(), finds PTE_C. *)
Fault(p) == /\ Runs(p)
            /\ pte[p].cow
            /\ Enter(p, "fault", p, "pop")
            /\ UNCHANGED <<memory, reference_count, state, wait_lock, mem, reg, image>>

(* sbrk(n), n > 0: uvmalloc(). *)
Grow(p) == /\ Runs(p)
           /\ pte[p] = Unmapped
           /\ Enter(p, "grow", p, "pop")
           /\ UNCHANGED <<memory, reference_count, state, wait_lock, mem, reg, image>>

(* kalloc(), under kmem.lock. *)
Pop(p) == /\ At(p, "pop")
          /\ \E g \in freelist : /\ freelist' = freelist \ {g}
                                 /\ mem' = [mem EXCEPT ![p] = g]
          /\ Goto(p, "init")
          /\ UNCHANGED <<content, pte, reference_count, state, wait_lock, op, np, reg, image>>

(* exit() of a process that is not init, its zombie still mapped; wait()   *)
(* holds wait_lock for as long as it frees another.                        *)
Dies(p) == /\ p # initproc
           /\ wait_lock = None
           /\ state' = [state EXCEPT ![p] = "zombie"]

(* No memory: sbrk() and copyout() fail, a page fault kills the process. *)
PopFails(p) == /\ At(p, "pop")
               /\ freelist = {}
               /\ Return(p)
               /\ UNCHANGED state \/ (op[p] = "fault" /\ Dies(p))
               /\ UNCHANGED <<memory, reference_count, wait_lock, image>>

(* kalloc() goes on without the lock. *)
InitPage(p) == /\ At(p, "init")
               /\ content' = [content EXCEPT ![mem[p]] = Junk]
               /\ Count(mem[p], 1)
               /\ Goto(p, "fill")
               /\ UNCHANGED <<freelist, pte, state, wait_lock, locals, image>>

(* memset() and mappages(). *)
FillGrown(p) == /\ At(p, "fill") /\ op[p] = "grow"
                /\ content' = [content EXCEPT ![mem[p]] = Zero]
                /\ Map(p, mem[p], FALSE)
                /\ image' = [image EXCEPT ![p] = Zero]
                /\ Return(p)
                /\ UNCHANGED <<freelist, reference_count, state, wait_lock>>

(* mappages() fails: kfree(mem). *)
GrowFails(p) == /\ At(p, "fill") /\ op[p] = "grow"
                /\ Goto(p, "test")
                /\ UNCHANGED <<memory, reference_count, state, wait_lock, locals, image>>

(* Mutation: the old page is given up before it is copied. *)
M_FillCopy(p) == /\ At(p, "fill") /\ op[p] = "fault"
                 /\ Goto(p, "test")
                 /\ UNCHANGED <<memory, reference_count, state, wait_lock, locals, image>>

(* memmove(mem, pa, PGSIZE) *)
FillCopy(p) == /\ At(p, "fill") /\ op[p] = "fault"
               /\ content' = [content EXCEPT ![mem[p]] = content[pte[p].page]]
               /\ Goto(p, "test")
               /\ UNCHANGED <<freelist, pte, reference_count, state, wait_lock, locals, image>>

-----------------------------------------------------------------------------
(* Giving pages up.                                                        *)

(* sbrk(n), n < 0, and exec(): uvmunmap(). *)
Shrink(p) == /\ Runs(p)
             /\ pte[p] # Unmapped
             /\ Enter(p, "shrink", p, "test")
             /\ UNCHANGED <<memory, reference_count, state, wait_lock, mem, reg, image>>

Exit(p) == /\ Runs(p)
           /\ Dies(p)
           /\ UNCHANGED <<memory, reference_count, wait_lock, pc, locals, image>>

(* wait() finds a zombie: freeproc(), with wait_lock held. *)
Reap(p, z) == /\ Runs(p)
              /\ state[z] = "zombie"
              /\ wait_lock = None
              /\ IF pte[z] = Unmapped
                   THEN /\ state' = [state EXCEPT ![z] = "unused"]
                        /\ UNCHANGED <<wait_lock, pc, op, np>>
                   ELSE /\ wait_lock' = p
                        /\ Enter(p, "reap", z, "test")
                        /\ UNCHANGED state
              /\ UNCHANGED <<memory, reference_count, mem, reg, image>>

(* The page kfree() is called for. *)
Pa(p) == IF op[p] = "grow" THEN mem[p] ELSE pte[np[p]].page

(* kfree() *)
Test(p) == /\ At(p, "test")
           /\ IF reference_count[Pa(p)] > 1
                THEN Goto(p, "sub_load") /\ UNCHANGED content
                ELSE Goto(p, "push") /\ content' = [content EXCEPT ![Pa(p)] = Junk]
           /\ UNCHANGED <<freelist, pte, reference_count, state, wait_lock, locals, image>>

SubLoad(p) == /\ At(p, "sub_load")
              /\ reg' = [reg EXCEPT ![p] = reference_count[Pa(p)]]
              /\ Goto(p, "sub_store")
              /\ UNCHANGED <<memory, reference_count, state, wait_lock, op, np, mem, image>>

Push(p) == /\ At(p, "push")
           /\ freelist' = freelist \cup {Pa(p)}
           /\ Goto(p, "clear")
           /\ UNCHANGED <<content, pte, reference_count, state, wait_lock, locals, image>>

(* kfree() has returned, and the caller changes its table.  wait() has     *)
(* freed the process with it, fork() the child it could not make.          *)
Unmap(p) ==
  /\ pte' = IF op[p] = "fault" THEN [pte EXCEPT ![p] = [page |-> mem[p], cow |-> FALSE]]
                               ELSE [pte EXCEPT ![np[p]] = Unmapped]
  /\ state' = IF op[p] \in {"fork", "reap"} THEN [state EXCEPT ![np[p]] = "unused"] ELSE state
  /\ wait_lock' = IF op[p] = "reap" THEN None ELSE wait_lock
  /\ Return(p)
  /\ UNCHANGED <<freelist, content, image>>

(* sub_rc() stores. *)
SubStore(p) == At(p, "sub_store") /\ Count(Pa(p), reg[p] - 1) /\ Unmap(p)

(* The count of the freed page is cleared, the page already on the list. *)
Clear(p) == At(p, "clear") /\ Count(Pa(p), 0) /\ Unmap(p)

-----------------------------------------------------------------------------
Kfree(p) == Test(p) \/ SubLoad(p) \/ SubStore(p) \/ Push(p) \/ Clear(p)

Kalloc(p) == Pop(p) \/ PopFails(p) \/ InitPage(p)

Step(p) ==
  \/ \E q \in Procs : Fork(p, q) \/ Reap(p, q)
  \/ ForkFails(p) \/ IncLoad(p) \/ IncStore(p) \/ ForkReturns(p) \/ ForkUndo(p)
  \/ \E v \in Values : Write(p, v)
  \/ Fault(p) \/ Grow(p) \/ FillGrown(p) \/ GrowFails(p) \/ FillCopy(p)
  \/ Kalloc(p) \/ Shrink(p) \/ Exit(p) \/ Kfree(p)

(* The page whose count a process has begun to use and is not done with.   *)
Using(p) == IF At(p, "inc_store") THEN pte[p].page
            ELSE IF At(p, "init") THEN mem[p]
            ELSE IF pc[p] \in {"sub_load", "sub_store", "push", "clear"} THEN Pa(p)
            ELSE None

Overlap == \E p, q \in Procs : p # q /\ Using(p) = Using(q) /\ Using(p) # None

Next == (\E p \in Procs : Step(p)) /\ raced' = (raced \/ Overlap')

Spec == Init /\ [][Next]_vars

-----------------------------------------------------------------------------
TypeOK == /\ freelist \subseteq Pages
          /\ reference_count \in [Pages -> Int]
          /\ content \in [Pages -> Values \cup {Zero, Junk}]
          /\ pte \in [Procs -> [page : Pages \cup {None}, cow : BOOLEAN]]
          /\ state \in [Procs -> {"unused", "embryo", "live", "zombie"}]
          /\ wait_lock \in Procs \cup {None}
          /\ pc \in [Procs -> PCs]
          /\ op \in [Procs -> Ops]
          /\ np \in [Procs -> Procs]
          /\ mem \in [Procs -> Pages \cup {None}]
          /\ reg \in [Procs -> Int]
          /\ image \in [Procs -> Values \cup {Zero}]
          /\ raced \in BOOLEAN

(* The owners of a page: the tables that map it, and kalloc()'s callers.   *)
Owners(g) == {<<p, "pte">> : p \in {q \in Procs : pte[q].page = g}}
             \cup {<<p, "mem">> : p \in {q \in Procs : mem[q] = g}}

(* fork() has mapped the page in the child and has not counted it yet.     *)
Uncounted(g) == {p \in Procs : pc[p] \in {"inc_load", "inc_store"} /\ pte[p].page = g}

(* As long as no two processes use the count of one page at a time, the    *)
(* count is the number of owners, so that no page leaks and none is freed  *)
(* early, also after a fork() that fails half way.                         *)
CountsAreOwners ==
  ~raced => \A g \in Pages :
    (\A p \in Procs : Using(p) # g) =>
      /\ reference_count[g] = Cardinality(Owners(g)) - Cardinality(Uncounted(g))
      /\ g \in freelist <=> reference_count[g] = 0

(* A process that is not giving its page up. *)
Keeps(p) == /\ pte[p] # Unmapped
            /\ \A q \in Procs : np[q] = p
                 => pc[q] \notin {"sub_load", "sub_store", "push", "clear"}

Dangling(p) == Keeps(p) /\ pte[p].page \in freelist

(* Without such a race the counts do what they are for, and a page that    *)
(* can be written has one owner.                                           *)
SharedIsReadOnly ==
  ~raced => \A p \in Procs :
    /\ ~Dangling(p)
    /\ Keeps(p) /\ ~pte[p].cow => Owners(pte[p].page) = {<<p, "pte">>}

(* Without a race fork() copies: each process finds in its memory what it  *)
(* wrote, or what its parent had when it was forked, whatever the others   *)
(* that share the page have done since.                                    *)
EachHasItsOwnMemory ==
  ~raced => \A p \in Procs :
    state[p] = "live" /\ Keeps(p) => content[pte[p].page] = image[p]

-----------------------------------------------------------------------------
Counting == {"inc_load", "inc_store"}
Releasing == {"sub_load", "sub_store", "push", "clear"}

(* What a call has in its hands, by where it stands and what it is for. *)
CallInv(p) ==
  /\ pc[p] = "user" <=> op[p] = "none"
  /\ pc[p] # "user" => state[p] = "live"
  /\ pc[p] \in Counting \cup {"mapped"} => op[p] = "fork"
  /\ pc[p] \in {"pop", "init", "fill"} => op[p] \in {"fault", "grow"}
  /\ mem[p] # None <=> /\ op[p] \in {"fault", "grow"}
                       /\ pc[p] \in Releasing \cup {"init", "fill", "test"}
  /\ op[p] \notin {"fork", "reap"} => np[p] = p
  /\ op[p] = "fork" => /\ state[np[p]] = "embryo"
                       /\ pte[np[p]] = pte[p] /\ pte[p].cow
                       /\ \A q \in Procs : op[q] = "fork" /\ np[q] = np[p] => q = p
  /\ op[p] = "reap" => state[np[p]] = "zombie" /\ wait_lock = p /\ pte[np[p]] # Unmapped
  /\ op[p] = "fault" => pte[p].cow
  /\ op[p] = "grow" => pte[p] = Unmapped
  /\ op[p] = "shrink" => pte[p] # Unmapped
  /\ state[p] = "unused" => pte[p] = Unmapped
  /\ pte[p].page = None => ~pte[p].cow
  /\ wait_lock = p => op[p] = "reap"

(* Who maps a page, whose mapping has been counted, and who has it from    *)
(* kalloc().                                                               *)
Mapped(g) == {p \in Procs : pte[p].page = g}
Counted(g) == {p \in Mapped(g) : \A q \in Procs : pc[q] \in Counting => np[q] # p}
Gotten(g) == {p \in Procs : mem[p] = g}

(* A page is counted and in the free list or in use, but for the time that *)
(* somebody uses its count.                                                *)
PageInv(g) ==
  /\ Gotten(g) = {} => reference_count[g] = Cardinality(Counted(g))
  /\ g \in freelist <=> \/ Mapped(g) = {} /\ Gotten(g) = {}
                        \/ \E p \in Procs : pc[p] = "clear" /\ Pa(p) = g

(* What kalloc() has given is nobody else's, the count that has been       *)
(* loaded is still right, and kfree() frees the last mapping only.         *)
UseInv(p) ==
  /\ mem[p] # None => /\ Mapped(mem[p]) = {} /\ Gotten(mem[p]) = {p}
                      /\ pc[p] # "init" => reference_count[mem[p]] = 1
  /\ pc[p] = "inc_store" => reg[p] = reference_count[pte[p].page]
  /\ pc[p] \in {"sub_load", "sub_store"} => reference_count[Pa(p)] > 1
  /\ pc[p] = "sub_store" => reg[p] = reference_count[Pa(p)]
  /\ pc[p] \in {"push", "clear"} /\ op[p] # "grow" => Mapped(Pa(p)) = {np[p]}

(* A page that can be written is mapped once.  The contents are those of   *)
(* the process, and a copy is one before the page is given up.             *)
MemoryInv(p) ==
  /\ pte[p].page # None /\ ~pte[p].cow => Mapped(pte[p].page) = {p}
  /\ state[p] = "live" /\ pte[p].page # None /\ (pc[p] \in {"push", "clear"} => np[p] # p)
       => content[pte[p].page] = image[p]
  /\ op[p] = "fault" /\ pc[p] \in Releasing \cup {"test"} => content[mem[p]] = image[p]

IInv == /\ TypeOK
        /\ \A p \in Procs : CallInv(p)
        /\ ~raced => /\ ~Overlap
                     /\ \A g \in Pages : PageInv(g)
                     /\ \A p \in Procs : UseInv(p) /\ MemoryInv(p)
=============================================================================
