----------------------------- MODULE PoolProofs ------------------------------
(***************************************************************************)
(* Proofs about three modules that hand something out, count or own it,    *)
(* and take it back, for any number of processes and any sizes: the pages  *)
(* of copy-on-write fork (Cow), the pages of the allocator with a free     *)
(* list for each CPU (KallocPerCpu) and the buffers of the hashed buffer   *)
(* cache (BcacheHash).                                                     *)
(*                                                                         *)
(* The names of Cow are used as they are; the other two are instances.  A  *)
(* constant or variable declared here, or one of Cow's of the same name,   *)
(* stands for theirs: nothing is assumed of it but what a theorem says.    *)
(***************************************************************************)
EXTENDS Cow, FiniteSetTheorems, TLAPS

CONSTANTS NCPU,                             \* of KallocPerCpu
          NBUF, Blocks, HASHSIZE, UINT_MAX  \* of BcacheHash

VARIABLES lock, cpu, i, held, exhausted, freed,
          blk, valid, data, refcnt, pins, slock, first, next, hashlock,
          want, b, other, at, key, stale

PerCpu == INSTANCE KallocPerCpu
Cache == INSTANCE BcacheHash

-----------------------------------------------------------------------------
(* Cow                                                                     *)
(*                                                                         *)
(* The three properties follow from one invariant (IInv).  What a call has *)
(* in its hands (CallInv) does not depend on the counts and always holds.  *)
(* What is counted (PageInv, UseInv) and what is in the pages (MemoryInv)  *)
(* holds until two processes use the count of a page at a time.            *)

Base == TypeOK /\ \A p \in Procs : CallInv(p)

LEMMA Nones == None \notin Procs /\ None \notin Pages
BY ProcsAssumption

(* The page kfree() is called for is one, and somebody's. *)
LEMMA PaIs ==
  ASSUME Base, NEW p \in Procs, pc[p] \in Releasing \cup {"test"}
  PROVE  /\ Pa(p) \in Pages /\ np[p] \in Procs
         /\ op[p] \in {"fork", "fault", "grow", "shrink", "reap"}
         /\ op[p] = "grow" => Pa(p) = mem[p]
         /\ op[p] # "grow" => Pa(p) = pte[np[p]].page
<1>1. TypeOK /\ CallInv(p)
  BY DEF Base
<1>2. np[p] \in Procs /\ op[p] \in {"fork", "fault", "grow", "shrink", "reap"}
  BY <1>1 DEF TypeOK, CallInv, Ops, Releasing
<1>3. op[p] = "grow" => Pa(p) = mem[p] /\ mem[p] \in Pages
  BY <1>1 DEF Pa, TypeOK, CallInv
<1>4. op[p] # "grow" => Pa(p) = pte[np[p]].page /\ pte[np[p]].page # None
  <2> SUFFICES ASSUME op[p] # "grow" PROVE pte[np[p]].page # None
    BY DEF Pa
  <2>1. pte[p] \in [page : Pages \cup {None}, cow : BOOLEAN]
        /\ pte[np[p]] \in [page : Pages \cup {None}, cow : BOOLEAN]
    BY <1>1, <1>2 DEF TypeOK
  <2>2. CallInv(np[p])
    BY <1>2 DEF Base
  <2>3. CASE op[p] \in {"fork", "fault"}
    BY <1>1, <2>3 DEF CallInv
  <2>4. CASE op[p] \in {"shrink", "reap"}
    <3>1. pte[np[p]] # Unmapped
      BY <1>1, <2>4 DEF CallInv
    <3>2. pte[np[p]].page = None => pte[np[p]].cow = FALSE
      BY <2>1, <2>2 DEF CallInv
    <3> QED
      BY <2>1, <3>1, <3>2 DEF Unmapped
  <2> QED
    BY <1>2, <2>3, <2>4
<1>5. pte[np[p]].page \in Pages \cup {None}
  BY <1>1, <1>2 DEF TypeOK
<1> QED
  BY <1>2, <1>3, <1>4, <1>5

-----------------------------------------------------------------------------
(* Each step keeps the types.                                              *)

PteType == [page : Pages \cup {None}, cow : BOOLEAN]
LocalsOK == /\ pc \in [Procs -> PCs] /\ op \in [Procs -> Ops] /\ np \in [Procs -> Procs]
            /\ mem \in [Procs -> Pages \cup {None}] /\ reg \in [Procs -> Int]
MemoryOK == /\ freelist \subseteq Pages
            /\ reference_count \in [Pages -> Int]
            /\ content \in [Pages -> Values \cup {Zero, Junk}]
            /\ pte \in [Procs -> PteType]
StatesOK == /\ state \in [Procs -> {"unused", "embryo", "live", "zombie"}]
            /\ wait_lock \in Procs \cup {None}
            /\ image \in [Procs -> Values \cup {Zero}]

LEMMA TypeIs == TypeOK <=> LocalsOK /\ MemoryOK /\ StatesOK /\ raced \in BOOLEAN
BY DEF TypeOK, LocalsOK, MemoryOK, StatesOK, PteType

LEMMA ReturnType ==
  ASSUME LocalsOK, NEW p \in Procs, Return(p)
  PROVE  LocalsOK'
BY DEF LocalsOK, Return, Goto, PCs, Ops

LEMMA EnterType ==
  ASSUME LocalsOK, NEW p \in Procs, NEW o \in Ops, NEW q \in Procs, NEW l \in PCs,
         Enter(p, o, q, l), UNCHANGED <<mem, reg>>
  PROVE  LocalsOK'
BY DEF LocalsOK, Enter, Goto

LEMMA GotoType ==
  ASSUME LocalsOK, NEW p \in Procs, NEW l \in PCs, Goto(p, l), UNCHANGED <<op, np>>,
         UNCHANGED reg \/ (\E k \in Int : reg' = [reg EXCEPT ![p] = k]),
         UNCHANGED mem \/ (\E g \in Pages : mem' = [mem EXCEPT ![p] = g])
  PROVE  LocalsOK'
BY DEF LocalsOK, Goto

LEMMA MapType ==
  ASSUME pte \in [Procs -> PteType], NEW p \in Procs, NEW g \in Pages, NEW c \in BOOLEAN,
         Map(p, g, c)
  PROVE  pte' \in [Procs -> PteType]
BY DEF Map, PteType

LEMMA UnmapType ==
  ASSUME Base, NEW p \in Procs, pc[p] \in {"sub_store", "clear"}, Unmap(p)
  PROVE  LocalsOK' /\ StatesOK' /\ pte' \in [Procs -> PteType]
<1>1. LocalsOK /\ StatesOK /\ MemoryOK /\ CallInv(p)
  BY TypeIs DEF Base
<1>2. LocalsOK'
  BY <1>1, ReturnType DEF Unmap
<1>3. StatesOK'
  BY <1>1 DEF StatesOK, LocalsOK, Unmap
<1>4. pte' \in [Procs -> PteType]
  <2>1. CASE op[p] = "fault"
    <3>1. mem[p] \in Pages
      BY <1>1, <2>1 DEF CallInv, Releasing, LocalsOK
    <3>2. [page |-> mem[p], cow |-> FALSE] \in PteType
      BY <3>1 DEF PteType
    <3> QED
      BY <1>1, <2>1, <3>2 DEF Unmap, MemoryOK
  <2>2. CASE op[p] # "fault"
    <3>1. Unmapped \in PteType
      BY DEF Unmapped, PteType
    <3> QED
      BY <1>1, <2>2, <3>1 DEF Unmap, MemoryOK, LocalsOK
  <2> QED
    BY <2>1, <2>2
<1> QED
  BY <1>2, <1>3, <1>4

LEMMA StepType ==
  ASSUME Base, NEW p \in Procs, Step(p)
  PROVE  LocalsOK' /\ MemoryOK' /\ StatesOK'
<1>1. LocalsOK /\ StatesOK /\ MemoryOK /\ CallInv(p)
  BY TypeIs DEF Base
<1>2. pc[p] # "user" => pc[p] \in PCs
  BY <1>1 DEF LocalsOK
<1>3. ASSUME NEW q \in Procs, Fork(p, q) PROVE LocalsOK' /\ MemoryOK' /\ StatesOK'
  <2>1. LocalsOK'
    BY <1>1, <1>3, EnterType DEF Fork, PCs, Ops
  <2>2. MemoryOK'
    BY <1>1, <1>3 DEF Fork, MemoryOK, PteType
  <2> QED
    BY <1>1, <1>3, <2>1, <2>2 DEF Fork, StatesOK
<1>4. ASSUME NEW q \in Procs, Reap(p, q) PROVE LocalsOK' /\ MemoryOK' /\ StatesOK'
  <2>1. LocalsOK'
    BY <1>1, <1>4, EnterType DEF Reap, PCs, Ops, LocalsOK
  <2> QED
    BY <1>1, <1>4, <2>1 DEF Reap, StatesOK, MemoryOK, memory
<1>5. CASE ForkFails(p)
  <2>1. pte[p].page \in Pages
    <3>1. CallInv(p) /\ pte[p] \in PteType
      BY <1>1 DEF MemoryOK
    <3> QED
      BY <1>5, <3>1 DEF ForkFails, CallInv, Unmapped, PteType
  <2> QED
    BY <1>1, <1>5, <2>1, MapType DEF ForkFails, MemoryOK, LocalsOK, StatesOK, locals
<1>6. CASE IncLoad(p) \/ SubLoad(p)
  <2>1. pte[p].page \in Pages \/ SubLoad(p)
    <3>1. pte[p] \in PteType
      BY <1>1 DEF MemoryOK
    <3> QED
      BY <1>1, <1>6, <3>1 DEF IncLoad, At, CallInv, Counting, PteType
  <2>2. \E k \in Int : reg' = [reg EXCEPT ![p] = k]
    BY <1>1, <1>6, <2>1, PaIs DEF IncLoad, SubLoad, At, MemoryOK, Releasing
  <2>3. LocalsOK'
    BY <1>1, <1>6, <2>2, GotoType DEF IncLoad, SubLoad, PCs
  <2> QED
    BY <1>1, <1>6, <2>3 DEF IncLoad, SubLoad, MemoryOK, StatesOK, memory
<1>7. CASE IncStore(p)
  <2>1. LocalsOK'
    BY <1>1, <1>7, GotoType DEF IncStore, PCs, locals
  <2>2. reg[p] + 1 \in Int
    BY <1>1 DEF LocalsOK
  <2> QED
    BY <1>1, <1>7, <2>1, <2>2 DEF IncStore, MemoryOK, StatesOK, memory, Count
<1>8. CASE ForkReturns(p)
  BY <1>1, <1>8, ReturnType DEF ForkReturns, MemoryOK, StatesOK, memory, LocalsOK
<1>9. CASE ForkUndo(p) \/ GrowFails(p) \/ FillCopy(p)
  <2>1. LocalsOK'
    BY <1>1, <1>9, GotoType DEF ForkUndo, GrowFails, FillCopy, PCs, locals
  <2>2. StatesOK'
    BY <1>1, <1>9 DEF ForkUndo, GrowFails, FillCopy, StatesOK
  <2>3. content' \in [Pages -> Values \cup {Zero, Junk}]
    <3>1. FillCopy(p) => pte[p].page \in Pages
      <4>1. pte[p] \in PteType
        BY <1>1 DEF MemoryOK
      <4> QED
        BY <1>1, <4>1 DEF FillCopy, CallInv, PteType
    <3> QED
      BY <1>1, <1>9, <3>1 DEF ForkUndo, GrowFails, FillCopy, MemoryOK, memory
  <2> QED
    BY <1>1, <1>9, <2>1, <2>2, <2>3 DEF ForkUndo, GrowFails, FillCopy, MemoryOK, memory
<1>10. ASSUME NEW v \in Values, Write(p, v) PROVE LocalsOK' /\ MemoryOK' /\ StatesOK'
  BY <1>1, <1>10 DEF Write, MemoryOK, StatesOK, LocalsOK, locals
<1>11. CASE Fault(p) \/ Grow(p) \/ Shrink(p)
  <2>1. LocalsOK'
    BY <1>1, <1>11, EnterType DEF Fault, Grow, Shrink, PCs, Ops
  <2> QED
    BY <1>1, <1>11, <2>1 DEF Fault, Grow, Shrink, MemoryOK, StatesOK, memory
<1>12. CASE FillGrown(p)
  <2>1. mem[p] \in Pages
    BY <1>1, <1>12 DEF FillGrown, At, CallInv, LocalsOK
  <2>2. LocalsOK'
    BY <1>1, <1>12, ReturnType DEF FillGrown
  <2>3. pte' \in [Procs -> PteType]
    BY <1>1, <1>12, <2>1, MapType DEF FillGrown, MemoryOK
  <2> QED
    BY <1>1, <1>12, <2>2, <2>3 DEF FillGrown, MemoryOK, StatesOK
<1>13. CASE Pop(p)
  <2>1. LocalsOK'
    BY <1>1, <1>13, GotoType DEF Pop, PCs, MemoryOK
  <2> QED
    BY <1>1, <1>13, <2>1 DEF Pop, MemoryOK, StatesOK
<1>14. CASE PopFails(p)
  <2>1. LocalsOK'
    BY <1>1, <1>14, ReturnType DEF PopFails
  <2> QED
    BY <1>1, <1>14, <2>1 DEF PopFails, Dies, MemoryOK, StatesOK, memory
<1>15. CASE InitPage(p)
  <2>1. LocalsOK'
    BY <1>1, <1>15, GotoType DEF InitPage, PCs, locals
  <2>2. content' \in [Pages -> Values \cup {Zero, Junk}]
    BY <1>1, <1>15 DEF InitPage, MemoryOK
  <2>3. reference_count \in [Pages -> Int] /\ 1 \in Int
    BY <1>1 DEF MemoryOK
  <2>4. reference_count' = [reference_count EXCEPT ![mem[p]] = 1]
    BY <1>15 DEF InitPage, Count
  <2>5. reference_count' \in [Pages -> Int]
    BY <2>3, <2>4
  <2> QED
    BY <1>1, <1>15, <2>1, <2>2, <2>5 DEF InitPage, MemoryOK, StatesOK
<1>16. CASE Exit(p)
  BY <1>1, <1>16 DEF Exit, Dies, MemoryOK, StatesOK, memory, LocalsOK, locals
<1>17. CASE Test(p)
  <2>1. LocalsOK'
    BY <1>1, <1>17, GotoType DEF Test, PCs, locals
  <2> QED
    BY <1>1, <1>17, <2>1 DEF Test, MemoryOK, StatesOK
<1>18. CASE Push(p)
  <2>1. LocalsOK' /\ Pa(p) \in Pages
    BY <1>1, <1>18, GotoType, PaIs DEF Push, PCs, locals, At, Releasing
  <2> QED
    BY <1>1, <1>18, <2>1 DEF Push, MemoryOK, StatesOK
<1>19. CASE SubStore(p) \/ Clear(p)
  <2>1. pc[p] \in {"sub_store", "clear"} /\ Unmap(p)
    BY <1>19 DEF SubStore, Clear, At
  <2>2. reg[p] - 1 \in Int /\ 0 \in Int
    BY <1>1 DEF LocalsOK
  <2>3. reference_count' \in [Pages -> Int]
    BY <1>1, <1>19, <2>2 DEF SubStore, Clear, Count, MemoryOK
  <2> QED
    BY <1>1, <2>1, <2>3, UnmapType DEF Unmap, MemoryOK
<1> QED
  BY <1>3, <1>4, <1>5, <1>6, <1>7, <1>8, <1>9, <1>10, <1>11, <1>12, <1>13, <1>14, <1>15, <1>16,
     <1>17, <1>18, <1>19 DEF Step, Kfree, Kalloc

-----------------------------------------------------------------------------
(* What a call has in its hands.  First what a step leaves as it was.      *)

LEMMA OthersStay ==
  ASSUME Base, NEW p \in Procs, Step(p), NEW q \in Procs, q # p
  PROVE  pc'[q] = pc[q] /\ op'[q] = op[q] /\ np'[q] = np[q] /\ mem'[q] = mem[q] /\ reg'[q] = reg[q]
<1>1. LocalsOK
  BY TypeIs DEF Base
<1> QED
  BY <1>1 DEF LocalsOK, Step, Kfree, Kalloc, Fork, Reap, ForkFails, IncLoad, IncStore, ForkReturns,
     ForkUndo, Write, Fault, Grow, FillGrown, GrowFails, FillCopy, Pop, PopFails, InitPage, Shrink,
     Exit, Test, SubLoad, SubStore, Push, Clear, Unmap, Return, Enter, Goto, locals

(* A step within a call: p goes from k to l and has its page by then.      *)
LEMMA WithinCall ==
  ASSUME Base, NEW p \in Procs, NEW l \in PCs \ {"user"}, pc[p] # "user", Goto(p, l),
         UNCHANGED <<op, np, state, pte, wait_lock>>,
         l \in Counting \cup {"mapped"} => op[p] = "fork",
         l \in {"init", "fill"} => op[p] \in {"fault", "grow"},
         l # "pop",
         mem'[p] # None <=> op[p] \in {"fault", "grow"} /\ l \in Releasing \cup {"init", "fill", "test"},
         \A r \in Procs \ {p} : mem'[r] = mem[r],
         NEW q \in Procs
  PROVE  CallInv(q)'
<1>1. LocalsOK /\ CallInv(p) /\ CallInv(q)
  BY TypeIs DEF Base
<1>2. CASE q = p
  <2>1. pc'[p] = l
    BY <1>1 DEF Goto, LocalsOK
  <2> QED
    BY <1>1, <1>2, <2>1 DEF CallInv
<1>3. CASE q # p
  <2>1. pc'[q] = pc[q] /\ mem'[q] = mem[q]
    BY <1>1, <1>3 DEF Goto, LocalsOK
  <2> QED
    BY <1>1, <1>3, <2>1 DEF CallInv
<1> QED
  BY <1>2, <1>3

LEMMA WithinSteps ==
  ASSUME Base, NEW p \in Procs, NEW q \in Procs,
         \/ IncLoad(p) \/ IncStore(p) \/ ForkUndo(p) \/ Pop(p) \/ InitPage(p) \/ GrowFails(p)
         \/ FillCopy(p) \/ Test(p) \/ SubLoad(p) \/ Push(p)
  PROVE  CallInv(q)'
<1>1. LocalsOK /\ CallInv(p) /\ freelist \subseteq Pages
  BY TypeIs DEF Base, MemoryOK
<1>2. CASE IncLoad(p) \/ IncStore(p) \/ ForkUndo(p)
  <2>1. PICK l \in {"inc_store", "mapped", "test"} : Goto(p, l)
    BY <1>2 DEF IncLoad, IncStore, ForkUndo
  <2>2. pc[p] # "user" /\ op[p] = "fork" /\ mem[p] = None
    BY <1>1, <1>2 DEF IncLoad, IncStore, ForkUndo, At, CallInv, Counting
  <2> QED
    BY <1>2, <2>1, <2>2, WithinCall DEF IncLoad, IncStore, ForkUndo, memory, locals, PCs
<1>3. CASE Pop(p)
  <2>1. Goto(p, "init") /\ pc[p] # "user" /\ op[p] \in {"fault", "grow"}
    BY <1>1, <1>3 DEF Pop, At, CallInv
  <2>2. mem'[p] # None /\ \A r \in Procs \ {p} : mem'[r] = mem[r]
    BY <1>1, <1>3, Nones DEF Pop, LocalsOK
  <2> QED
    BY <1>3, <2>1, <2>2, WithinCall DEF Pop, PCs, Counting
<1>4. CASE InitPage(p) \/ GrowFails(p) \/ FillCopy(p)
  <2>1. PICK l \in {"fill", "test"} : Goto(p, l)
    BY <1>4 DEF InitPage, GrowFails, FillCopy
  <2>2. pc[p] # "user" /\ op[p] \in {"fault", "grow"} /\ mem[p] # None
    BY <1>1, <1>4 DEF InitPage, GrowFails, FillCopy, At, CallInv
  <2> QED
    BY <1>4, <2>1, <2>2, WithinCall DEF InitPage, GrowFails, FillCopy, memory, locals, PCs, Counting
<1>5. CASE Test(p) \/ SubLoad(p) \/ Push(p)
  <2>1. PICK l \in {"sub_load", "sub_store", "push", "clear"} : Goto(p, l)
    BY <1>5 DEF Test, SubLoad, Push
  <2>2. pc[p] # "user" /\ pc[p] \in Releasing \cup {"test"}
    BY <1>5 DEF Test, SubLoad, Push, At, Releasing
  <2>3. mem[p] # None <=> op[p] \in {"fault", "grow"} /\ l \in Releasing \cup {"init", "fill", "test"}
    BY <1>1, <2>1, <2>2 DEF CallInv, Releasing
  <2> QED
    BY <1>5, <2>1, <2>2, <2>3, WithinCall DEF Test, SubLoad, Push, memory, locals, PCs, Counting
<1> QED
  BY <1>2, <1>3, <1>4, <1>5

LEMMA BeginCall ==
  ASSUME Base, NEW p \in Procs, NEW q \in Procs,
         \/ \E v \in Values : Write(p, v)
         \/ Fault(p) \/ Grow(p) \/ Shrink(p)
  PROVE  CallInv(q)'
<1>1. LocalsOK /\ CallInv(p) /\ CallInv(q) /\ MemoryOK
  BY TypeIs DEF Base
<1>2. CASE \E v \in Values : Write(p, v)
  BY <1>1, <1>2 DEF Write, locals, CallInv
<1>3. CASE Fault(p) \/ Grow(p) \/ Shrink(p)
  <2>1. UNCHANGED <<pte, state, wait_lock, mem>> /\ state[p] = "live" /\ pc[p] = "user"
    BY <1>3 DEF Fault, Grow, Shrink, memory, Runs, At
  <2>2. \E o \in {"fault", "grow", "shrink"}, l \in {"pop", "test"} :
          /\ Enter(p, o, p, l)
          /\ l = "pop" <=> o \in {"fault", "grow"}
          /\ o = "fault" => pte[p].cow
          /\ o = "grow" => pte[p] = Unmapped
          /\ o = "shrink" => pte[p] # Unmapped
    BY <1>3 DEF Fault, Grow, Shrink
  <2>3. PICK o \in {"fault", "grow", "shrink"}, l \in {"pop", "test"} :
          /\ Enter(p, o, p, l)
          /\ l = "pop" <=> o \in {"fault", "grow"}
          /\ o = "fault" => pte[p].cow
          /\ o = "grow" => pte[p] = Unmapped
          /\ o = "shrink" => pte[p] # Unmapped
    BY <2>2
  <2>4. op' = [op EXCEPT ![p] = o] /\ np' = [np EXCEPT ![p] = p] /\ pc' = [pc EXCEPT ![p] = l]
    BY <2>3 DEF Enter, Goto
  <2>5. op'[p] = o /\ np'[p] = p /\ pc'[p] = l
    BY <1>1, <2>4 DEF LocalsOK
  <2>6. \A r \in Procs \ {p} : op'[r] = op[r] /\ np'[r] = np[r] /\ pc'[r] = pc[r]
    BY <1>1, <2>4 DEF LocalsOK
  <2>7. CASE q = p
    <3>1. mem[p] = None /\ op[p] = "none"
      BY <1>1, <2>1 DEF CallInv, Releasing
    <3> QED
      BY <1>1, <2>1, <2>3, <2>5, <2>7, <3>1 DEF CallInv, Releasing, Counting
  <2>8. CASE q # p
    <3>1. op[p] # "fork" /\ op'[p] # "fork"
      BY <1>1, <2>1, <2>5 DEF CallInv
    <3> QED
      BY <1>1, <2>1, <2>6, <2>8, <3>1 DEF CallInv
  <2> QED
    BY <2>7, <2>8
<1> QED
  BY <1>2, <1>3

LEMMA ForkCall ==
  ASSUME Base, NEW p \in Procs, NEW c \in Procs, Fork(p, c), NEW q \in Procs
  PROVE  CallInv(q)'
<1>1. LocalsOK /\ MemoryOK /\ StatesOK /\ CallInv(p) /\ CallInv(q) /\ CallInv(c)
  BY TypeIs DEF Base
<1>2. pc[p] = "user" /\ op[p] = "none" /\ state[p] = "live" /\ mem[p] = None
  BY <1>1 DEF Fork, Runs, At, CallInv, Releasing
<1>3. pc[c] = "user" /\ op[c] = "none" /\ state[c] = "unused" /\ c # p
  BY <1>1, <1>2 DEF Fork, CallInv
<1>4. /\ pte'[p] = [page |-> pte[p].page, cow |-> TRUE] /\ pte'[c] = pte'[p]
      /\ \A r \in Procs \ {p, c} : pte'[r] = pte[r]
  BY <1>1 DEF Fork
<1>5. pte[p].page # None
  <2>1. pte[p] \in PteType
    BY <1>1 DEF MemoryOK
  <2> QED
    BY <1>1, <2>1 DEF CallInv, Fork, Unmapped, PteType
<1>6. op' = [op EXCEPT ![p] = "fork"] /\ np' = [np EXCEPT ![p] = c] /\ pc' = [pc EXCEPT ![p] = "inc_load"]
  BY DEF Fork, Enter, Goto
<1>7. op'[p] = "fork" /\ np'[p] = c /\ pc'[p] = "inc_load"
  BY <1>1, <1>6 DEF LocalsOK
<1>8. \A r \in Procs \ {p} : op'[r] = op[r] /\ np'[r] = np[r] /\ pc'[r] = pc[r]
  BY <1>1, <1>6 DEF LocalsOK
<1>9. state'[c] = "embryo" /\ \A r \in Procs \ {c} : state'[r] = state[r]
  BY <1>1 DEF Fork, StatesOK
<1>10. wait_lock' = wait_lock /\ mem' = mem
  BY DEF Fork
<1>11. \A r \in Procs : op[r] = "fork" => np[r] # c /\ r # p
  BY <1>2, <1>3 DEF Base, CallInv
<1>12. CASE q = p
  BY <1>1, <1>2, <1>3, <1>4, <1>5, <1>7, <1>8, <1>9, <1>10, <1>11, <1>12 DEF CallInv, Counting, Releasing
<1>13. CASE q = c
  BY <1>1, <1>2, <1>3, <1>4, <1>5, <1>8, <1>9, <1>10, <1>13 DEF CallInv, Counting
<1>14. CASE q # p /\ q # c
  <2>1. state'[q] = state[q] /\ pte'[q] = pte[q] /\ op'[q] = op[q] /\ np'[q] = np[q] /\ pc'[q] = pc[q]
    BY <1>4, <1>8, <1>9, <1>14
  <2>2. np[q] = q \/ op[q] \in {"fork", "reap"}
    BY <1>1 DEF CallInv
  <2>3. op[q] \in {"fork", "reap"} => np[q] \in Procs \ {p, c}
    BY <1>1, <1>2, <1>3 DEF CallInv, LocalsOK
  <2>4. op[q] = "fork" => \A r \in Procs : op'[r] = "fork" /\ np'[r] = np'[q] => r = q
    BY <1>1, <1>7, <1>8, <2>1, <2>3 DEF CallInv
  <2>5. op[q] \in {"fork", "reap"} => state'[np[q]] = state[np[q]] /\ pte'[np[q]] = pte[np[q]]
    BY <1>4, <1>9, <2>3
  <2> QED
    BY <1>1, <1>10, <2>1, <2>2, <2>4, <2>5 DEF CallInv
<1> QED
  BY <1>12, <1>13, <1>14

LEMMA ForkFailsCall ==
  ASSUME Base, NEW p \in Procs, ForkFails(p), NEW q \in Procs
  PROVE  CallInv(q)'
<1>1. LocalsOK /\ MemoryOK /\ StatesOK /\ CallInv(p) /\ CallInv(q)
  BY TypeIs DEF Base
<1>2. pc[p] = "user" /\ op[p] = "none" /\ state[p] = "live" /\ mem[p] = None
  BY <1>1 DEF ForkFails, Runs, At, CallInv, Releasing
<1>3. pte[p].page # None
  <2>1. pte[p] \in PteType
    BY <1>1 DEF MemoryOK
  <2> QED
    BY <1>1, <2>1 DEF CallInv, ForkFails, Unmapped, PteType
<1>4. /\ pte'[p] = [page |-> pte[p].page, cow |-> TRUE]
      /\ \A r \in Procs \ {p} : pte'[r] = pte[r]
  BY <1>1 DEF ForkFails, Map, MemoryOK
<1>5. UNCHANGED <<state, wait_lock, pc, op, np, mem>>
  BY DEF ForkFails, locals
<1>6. CASE q = p
  BY <1>1, <1>2, <1>3, <1>4, <1>5, <1>6 DEF CallInv
<1>7. CASE q # p
  <2>1. op[q] \in {"fork", "reap"} => np[q] \in Procs \ {p}
    BY <1>1, <1>2 DEF CallInv, LocalsOK
  <2> QED
    BY <1>1, <1>4, <1>5, <1>7, <2>1 DEF CallInv
<1> QED
  BY <1>6, <1>7

LEMMA ReturnIs ==
  ASSUME Base, NEW p \in Procs, Return(p)
  PROVE  /\ pc'[p] = "user" /\ op'[p] = "none" /\ np'[p] = p /\ mem'[p] = None
         /\ \A r \in Procs \ {p} : /\ pc'[r] = pc[r] /\ op'[r] = op[r] /\ np'[r] = np[r]
                                   /\ mem'[r] = mem[r]
BY TypeIs DEF Base, LocalsOK, Return, Goto

LEMMA ForkReturnsCall ==
  ASSUME Base, NEW p \in Procs, ForkReturns(p), NEW q \in Procs
  PROVE  CallInv(q)'
<1>1. LocalsOK /\ MemoryOK /\ StatesOK /\ CallInv(p) /\ CallInv(q) /\ Return(p)
  BY TypeIs DEF Base, ForkReturns
<1>2. PICK c \in Procs : c = np[p]
  BY <1>1 DEF LocalsOK
<1>3. op[p] = "fork" /\ state[p] = "live" /\ state[c] = "embryo" /\ CallInv(c) /\ c # p
  BY <1>1, <1>2 DEF ForkReturns, At, CallInv, Base
<1>4. state'[c] = "live" /\ \A r \in Procs \ {c} : state'[r] = state[r]
  BY <1>1, <1>2 DEF ForkReturns, StatesOK
<1>5. UNCHANGED <<pte, wait_lock>>
  BY DEF ForkReturns, memory
<1>6. \A r \in Procs \ {p} : op[r] \in {"fork", "reap"} => np[r] # c
  BY <1>2, <1>3 DEF Base, CallInv
<1>7. CASE q = p
  BY <1>1, <1>3, <1>4, <1>5, <1>7, ReturnIs DEF CallInv, Counting, Releasing
<1>8. CASE q = c
  <2>1. pc[c] = "user" /\ op[c] = "none" /\ mem[c] = None
    BY <1>3 DEF CallInv, Releasing
  <2> QED
    BY <1>1, <1>3, <1>4, <1>5, <1>8, <2>1, ReturnIs DEF CallInv
<1>9. CASE q # p /\ q # c
  <2>1. state'[q] = state[q] /\ pc'[q] = pc[q] /\ op'[q] = op[q] /\ np'[q] = np[q] /\ mem'[q] = mem[q]
    BY <1>1, <1>4, <1>9, ReturnIs
  <2>2. op[q] \in {"fork", "reap"} => np[q] \in Procs \ {c}
    BY <1>1, <1>6, <1>9 DEF LocalsOK
  <2>3. op[q] = "fork" => \A r \in Procs : op'[r] = "fork" /\ np'[r] = np[q] => r = q
    BY <1>1, ReturnIs DEF CallInv
  <2> QED
    BY <1>1, <1>4, <1>5, <2>1, <2>2, <2>3 DEF CallInv
<1> QED
  BY <1>7, <1>8, <1>9

LEMMA FillGrownCall ==
  ASSUME Base, NEW p \in Procs, FillGrown(p), NEW q \in Procs
  PROVE  CallInv(q)'
<1>1. LocalsOK /\ MemoryOK /\ CallInv(p) /\ CallInv(q) /\ Return(p)
  BY TypeIs DEF Base, FillGrown
<1>2. op[p] = "grow" /\ state[p] = "live" /\ mem[p] # None
  BY <1>1 DEF FillGrown, At, CallInv
<1>3. pte'[p] = [page |-> mem[p], cow |-> FALSE] /\ \A r \in Procs \ {p} : pte'[r] = pte[r]
  BY <1>1 DEF FillGrown, Map, MemoryOK
<1>4. UNCHANGED <<state, wait_lock>>
  BY DEF FillGrown
<1>5. CASE q = p
  BY <1>1, <1>2, <1>3, <1>4, <1>5, ReturnIs DEF CallInv, Counting, Releasing
<1>6. CASE q # p
  <2>1. op[q] \in {"fork", "reap"} => np[q] \in Procs \ {p}
    BY <1>1, <1>2 DEF CallInv, LocalsOK
  <2>2. op[q] = "fork" => \A r \in Procs : op'[r] = "fork" /\ np'[r] = np[q] => r = q
    BY <1>1, ReturnIs DEF CallInv
  <2> QED
    BY <1>1, <1>3, <1>4, <1>6, <2>1, <2>2, ReturnIs DEF CallInv
<1> QED
  BY <1>5, <1>6

LEMMA DyingCall ==
  ASSUME Base, NEW p \in Procs, PopFails(p) \/ Exit(p), NEW q \in Procs
  PROVE  CallInv(q)'
<1>1. LocalsOK /\ StatesOK /\ CallInv(p) /\ CallInv(q)
  BY TypeIs DEF Base
<1>2. state[p] = "live" /\ op[p] \notin {"fork", "reap"}
  BY <1>1 DEF PopFails, Exit, Runs, At, CallInv
<1>3. wait_lock # p
  BY <1>1, <1>2 DEF CallInv
<1>4. /\ pc'[p] = "user" /\ op'[p] = "none" /\ np'[p] = p /\ mem'[p] = None
      /\ \A r \in Procs \ {p} : pc'[r] = pc[r] /\ op'[r] = op[r] /\ np'[r] = np[r] /\ mem'[r] = mem[r]
  <2>1. CASE PopFails(p)
    BY <2>1, ReturnIs DEF PopFails
  <2>2. CASE Exit(p)
    BY <1>1, <2>2 DEF Exit, Runs, At, locals, CallInv, Releasing
  <2> QED
    BY <2>1, <2>2
<1>5. pte' = pte /\ wait_lock' = wait_lock
  BY DEF PopFails, Exit, memory
<1>6. state'[p] \in {"live", "zombie"} /\ \A r \in Procs \ {p} : state'[r] = state[r]
  BY <1>1, <1>2 DEF PopFails, Exit, Dies, StatesOK
<1>7. CASE q = p
  BY <1>1, <1>2, <1>3, <1>4, <1>5, <1>6, <1>7 DEF CallInv, Counting, Releasing
<1>8. CASE q # p
  <2>1. op[q] \in {"fork", "reap"} => np[q] \in Procs \ {p}
    BY <1>1, <1>2 DEF CallInv, LocalsOK
  <2>2. op[q] = "fork" => \A r \in Procs : op'[r] = "fork" /\ np'[r] = np[q] => r = q
    BY <1>1, <1>4 DEF CallInv
  <2> QED
    BY <1>1, <1>4, <1>5, <1>6, <1>8, <2>1, <2>2 DEF CallInv
<1> QED
  BY <1>7, <1>8

LEMMA ReapCall ==
  ASSUME Base, NEW p \in Procs, NEW z \in Procs, Reap(p, z), NEW q \in Procs
  PROVE  CallInv(q)'
<1>1. LocalsOK /\ MemoryOK /\ StatesOK /\ CallInv(p) /\ CallInv(q) /\ CallInv(z)
  BY TypeIs DEF Base
<1>2. pc[p] = "user" /\ op[p] = "none" /\ state[p] = "live" /\ mem[p] = None
  BY <1>1 DEF Reap, Runs, At, CallInv, Releasing
<1>3. pc[z] = "user" /\ op[z] = "none" /\ state[z] = "zombie" /\ z # p /\ wait_lock = None
  BY <1>1, <1>2 DEF Reap, CallInv
<1>4. UNCHANGED <<pte, mem>>
  BY DEF Reap, memory
<1>5. \A r \in Procs : op[r] # "reap"
  BY <1>3, Nones DEF Base, CallInv
<1>6. CASE pte[z] = Unmapped
  <2>1. state'[z] = "unused" /\ \A r \in Procs \ {z} : state'[r] = state[r]
    BY <1>1, <1>6 DEF Reap, StatesOK
  <2>2. UNCHANGED <<wait_lock, pc, op, np>>
    BY <1>6 DEF Reap
  <2>3. CASE q = z
    BY <1>1, <1>3, <1>4, <1>6, <2>1, <2>2, <2>3 DEF CallInv
  <2>4. CASE q # z
    <3>1. op[q] = "fork" => np[q] \in Procs \ {z}
      BY <1>1, <1>3 DEF CallInv, LocalsOK
    <3> QED
      BY <1>1, <1>4, <1>5, <2>1, <2>2, <2>4, <3>1 DEF CallInv
  <2> QED
    BY <2>3, <2>4
<1>7. CASE pte[z] # Unmapped
  <2>1. wait_lock' = p /\ state' = state /\ Enter(p, "reap", z, "test")
    BY <1>7 DEF Reap
  <2>2. op' = [op EXCEPT ![p] = "reap"] /\ np' = [np EXCEPT ![p] = z] /\ pc' = [pc EXCEPT ![p] = "test"]
    BY <2>1 DEF Enter, Goto
  <2>3. op'[p] = "reap" /\ np'[p] = z /\ pc'[p] = "test"
    BY <1>1, <2>2 DEF LocalsOK
  <2>4. \A r \in Procs \ {p} : op'[r] = op[r] /\ np'[r] = np[r] /\ pc'[r] = pc[r]
    BY <1>1, <2>2 DEF LocalsOK
  <2>5. CASE q = p
    BY <1>1, <1>2, <1>3, <1>4, <1>7, <2>1, <2>3, <2>5 DEF CallInv, Counting, Releasing
  <2>6. CASE q # p
    BY <1>1, <1>2, <1>3, <1>4, <1>5, <2>1, <2>3, <2>4, <2>6 DEF CallInv
  <2> QED
    BY <2>5, <2>6
<1> QED
  BY <1>6, <1>7

LEMMA UnmapCall ==
  ASSUME Base, NEW p \in Procs, pc[p] \in {"sub_store", "clear"}, Unmap(p), NEW q \in Procs
  PROVE  CallInv(q)'
<1>1. LocalsOK /\ MemoryOK /\ StatesOK /\ CallInv(p) /\ CallInv(q) /\ Return(p)
  BY TypeIs DEF Base, Unmap
<1>2. PICK c \in Procs : c = np[p]
  BY <1>1 DEF LocalsOK
<1>3. CallInv(c) /\ state[p] = "live" /\ op[p] \in {"fork", "fault", "grow", "shrink", "reap"}
  BY <1>1, <1>2, PaIs DEF Base, Releasing, CallInv
<1>4. op[p] \in {"fork", "reap"} => /\ state[c] \in {"embryo", "zombie"} /\ c # p
                                    /\ pc[c] = "user" /\ op[c] = "none"
  BY <1>1, <1>2, <1>3 DEF CallInv
<1>5. op[p] \notin {"fork", "reap"} => c = p
  BY <1>1, <1>2 DEF CallInv
<1>6. /\ op[p] = "fault" => pte'[c] = [page |-> mem[p], cow |-> FALSE] /\ mem[p] # None
      /\ op[p] # "fault" => pte'[c] = Unmapped
      /\ \A r \in Procs \ {c} : pte'[r] = pte[r]
  <2>1. op[p] = "fault" => mem[p] # None
    BY <1>1 DEF CallInv, Releasing
  <2> QED
    BY <1>1, <1>2, <1>5, <2>1 DEF Unmap, MemoryOK
<1>7. /\ op[p] \in {"fork", "reap"} => state'[c] = "unused"
      /\ op[p] \notin {"fork", "reap"} => state'[c] = state[c]
      /\ \A r \in Procs \ {c} : state'[r] = state[r]
  BY <1>1, <1>2 DEF Unmap, StatesOK
<1>8. wait_lock' = IF op[p] = "reap" THEN None ELSE wait_lock
  BY DEF Unmap
<1>9. \A r \in Procs \ {p} : op[r] \in {"fork", "reap"} => np[r] # c
  <2> SUFFICES ASSUME NEW r \in Procs, r # p, op[r] \in {"fork", "reap"}, np[r] = c PROVE FALSE
    OBVIOUS
  <2>1. CallInv(r)
    BY DEF Base
  <2> QED
    BY <1>1, <1>2, <1>3, <1>4, <1>5, <2>1 DEF CallInv
<1>10. op[p] = "reap" => wait_lock = p
  BY <1>1 DEF CallInv
<1>11. CASE q = p
  <2>1. wait_lock' # p
    BY <1>1, <1>8, <1>10, Nones DEF CallInv
  <2>2. Unmapped.page = None /\ ~Unmapped.cow
    BY DEF Unmapped
  <2>3. pte'[p].page = None => ~pte'[p].cow
    BY <1>1, <1>4, <1>5, <1>6, <2>2 DEF CallInv
  <2>4. state'[p] = "live"
    BY <1>3, <1>4, <1>5, <1>7
  <2> QED
    BY <1>1, <1>11, <2>1, <2>3, <2>4, ReturnIs DEF CallInv, Counting, Releasing
<1>12. CASE q = c /\ q # p
  <2>1. op[p] \in {"fork", "reap"} /\ pc'[q] = "user" /\ op'[q] = "none" /\ mem'[q] = None /\ np'[q] = q
    <3>1. mem[q] = None /\ np[q] = q
      BY <1>1, <1>4, <1>5, <1>12 DEF CallInv, Releasing
    <3> QED
      BY <1>1, <1>4, <1>5, <1>12, <3>1, ReturnIs
  <2>2. wait_lock' # q
    BY <1>1, <1>4, <1>8, <1>12, <2>1, Nones DEF CallInv
  <2>3. pte'[q] = Unmapped /\ Unmapped.page = None /\ ~Unmapped.cow
    BY <1>6, <1>12, <2>1 DEF Unmapped
  <2> QED
    BY <2>1, <2>2, <2>3 DEF CallInv, Counting, Releasing
<1>13. CASE q # p /\ q # c
  <2>1. state'[q] = state[q] /\ pc'[q] = pc[q] /\ op'[q] = op[q] /\ np'[q] = np[q]
        /\ mem'[q] = mem[q] /\ pte'[q] = pte[q]
    BY <1>1, <1>6, <1>7, <1>13, ReturnIs
  <2>2. op[q] \in {"fork", "reap"} => np[q] \in Procs \ {c}
    BY <1>1, <1>9, <1>13 DEF LocalsOK
  <2>3. op[q] = "fork" => \A r \in Procs : op'[r] = "fork" /\ np'[r] = np[q] => r = q
    BY <1>1, ReturnIs DEF CallInv
  <2>4. wait_lock' = q <=> wait_lock = q
    BY <1>8, <1>10, <1>13, Nones
  <2> QED
    BY <1>1, <1>6, <1>7, <2>1, <2>2, <2>3, <2>4 DEF CallInv
<1> QED
  BY <1>11, <1>12, <1>13

LEMMA NextBase ==
  ASSUME Base, NEW p \in Procs, Step(p), raced' \in BOOLEAN
  PROVE  Base'
<1>1. TypeOK'
  BY StepType, TypeIs DEF TypeOK, LocalsOK, MemoryOK, StatesOK, PteType
<1>2. ASSUME NEW q \in Procs PROVE CallInv(q)'
  BY WithinSteps, BeginCall, ForkCall, ForkFailsCall, ForkReturnsCall, FillGrownCall, DyingCall,
     ReapCall, UnmapCall DEF Step, Kfree, Kalloc, SubStore, Clear, At
<1> QED
  BY <1>1, <1>2 DEF Base

-----------------------------------------------------------------------------
(* Who has a page, as long as nobody has used a count at the same time.    *)

Good == /\ Base /\ ~Overlap
        /\ \A g \in Pages : PageInv(g)
        /\ \A p \in Procs : UseInv(p) /\ MemoryInv(p)

LEMMA GoodIs == IInv <=> Base /\ (~raced => Good)
BY DEF IInv, Base, Good

LEMMA Types ==
  ASSUME Base
  PROVE  /\ \A p \in Procs : /\ CallInv(p) /\ pc[p] \in PCs /\ op[p] \in Ops /\ np[p] \in Procs
                             /\ mem[p] \in Pages \cup {None} /\ reg[p] \in Int
                             /\ pte[p] \in PteType /\ pte[p].page \in Pages \cup {None}
                             /\ pte[p].cow \in BOOLEAN
         /\ \A g \in Pages : reference_count[g] \in Int
BY TypeIs DEF Base, LocalsOK, MemoryOK, PteType

LEMMA SetsAre ==
  ASSUME Base, NEW g \in Pages
  PROVE  /\ Mapped(g) \subseteq Procs /\ Counted(g) \subseteq Mapped(g) /\ Gotten(g) \subseteq Procs
         /\ IsFiniteSet(Mapped(g)) /\ IsFiniteSet(Counted(g)) /\ IsFiniteSet(Gotten(g))
         /\ Cardinality(Counted(g)) \in Nat
<1>1. Mapped(g) \subseteq Procs /\ Counted(g) \subseteq Mapped(g) /\ Gotten(g) \subseteq Procs
  BY DEF Mapped, Counted, Gotten
<1> QED
  BY <1>1, ProcsAssumption, FS_Subset, FS_CardinalityType

(* No two calls are about the page of the same process. *)
LEMMA NpOnce ==
  ASSUME Base, NEW p \in Procs, NEW q \in Procs, pc[p] # "user", pc[q] # "user", np[p] = np[q]
  PROVE  p = q
<1>1. CallInv(p) /\ CallInv(q) /\ op[p] \in Ops /\ op[q] \in Ops
  BY Types
<1> QED
  BY <1>1 DEF CallInv, Ops

LEMMA UsingIs ==
  ASSUME NEW p \in Procs
  PROVE  /\ pc[p] = "inc_store" => Using(p) = pte[p].page
         /\ pc[p] = "init" => Using(p) = mem[p]
         /\ pc[p] \in Releasing => Using(p) = Pa(p)
BY DEF Using, At, Releasing

LEMMA Alone ==
  ASSUME ~Overlap, NEW p \in Procs, NEW q \in Procs, Using(p) = Using(q), Using(p) # None
  PROVE  p = q
BY DEF Overlap

(* A page kalloc() has given is not the one another call gives back. *)
LEMMA MemAlone ==
  ASSUME Good, NEW p \in Procs, mem[p] # None,
         NEW q \in Procs, pc[q] \in Releasing \cup {"test"}, Pa(q) = mem[p]
  PROVE  p = q /\ op[q] = "grow"
<1>1. UseInv(p) /\ Base
  BY DEF Good
<1>2. Mapped(mem[p]) = {} /\ Gotten(mem[p]) = {p}
  BY <1>1 DEF UseInv
<1>3. op[q] = "grow"
  <2> SUFFICES ASSUME op[q] # "grow" PROVE FALSE
    OBVIOUS
  <2>1. np[q] \in Mapped(mem[p])
    BY <1>1, PaIs DEF Mapped
  <2> QED
    BY <1>2, <2>1
<1>4. q \in Gotten(mem[p])
  BY <1>1, <1>3, PaIs DEF Gotten
<1> QED
  BY <1>2, <1>3, <1>4

(* Who gives a mapped page back gives back a mapping that is counted. *)
LEMMA GivesCounted ==
  ASSUME Base, NEW p \in Procs, pc[p] \in Releasing \cup {"test"}, op[p] # "grow"
  PROVE  np[p] \in Counted(Pa(p))
<1>1. np[p] \in Mapped(Pa(p))
  BY PaIs DEF Mapped
<1>2. ASSUME NEW q \in Procs, pc[q] \in Counting, np[q] = np[p] PROVE FALSE
  BY <1>2, NpOnce DEF Counting, Releasing
<1> QED
  BY <1>1, <1>2 DEF Counted

(* A page has been counted for somebody, when it is mapped at all. *)
LEMMA MappedCounted ==
  ASSUME Base, NEW g \in Pages, NEW r \in Mapped(g), r \notin Counted(g)
  PROVE  \E q \in Counted(g) : pc[q] \in Counting /\ np[q] = r /\ q # r
<1>1. PICK q \in Procs : pc[q] \in Counting /\ np[q] = r
  BY DEF Counted
<1>2. r \in Procs /\ CallInv(q) /\ op[q] = "fork"
  BY <1>1, Types DEF Mapped, CallInv
<1>3. q \in Mapped(g) /\ state[q] = "live" /\ state[r] = "embryo"
  BY <1>1, <1>2 DEF Mapped, CallInv, Counting
<1>4. ASSUME NEW s \in Procs, pc[s] \in Counting, np[s] = q PROVE FALSE
  BY <1>3, <1>4, Types DEF CallInv, Counting
<1> QED
  BY <1>1, <1>3, <1>4 DEF Counted

(* kfree() frees a page that one process maps, the one it is called for. *)
LEMMA LastMapping ==
  ASSUME Good, NEW p \in Procs, pc[p] = "test", op[p] # "grow", reference_count[Pa(p)] <= 1
  PROVE  Mapped(Pa(p)) = {np[p]}
<1>1. Base /\ Pa(p) \in Pages /\ np[p] \in Procs /\ np[p] \in Counted(Pa(p))
  BY PaIs, GivesCounted DEF Good
<1>2. np[p] \in Mapped(Pa(p)) /\ Gotten(Pa(p)) = {}
  <2>1. np[p] \in Mapped(Pa(p))
    BY <1>1, SetsAre
  <2>2. ASSUME NEW r \in Gotten(Pa(p)) PROVE FALSE
    <3>1. r \in Procs /\ mem[r] = Pa(p) /\ Pa(p) # None
      BY <1>1, Nones DEF Gotten
    <3>2. Mapped(Pa(p)) = {}
      BY <3>1 DEF Good, UseInv
    <3> QED
      BY <2>1, <3>2
  <2> QED
    BY <2>1, <2>2
<1>3. reference_count[Pa(p)] = Cardinality(Counted(Pa(p)))
  BY <1>1, <1>2 DEF Good, PageInv
<1>4. Counted(Pa(p)) = {np[p]}
  <2> SUFFICES ASSUME NEW r \in Counted(Pa(p)), r # np[p] PROVE FALSE
    BY <1>1
  <2>1. {r, np[p]} \subseteq Counted(Pa(p)) /\ IsFiniteSet(Counted(Pa(p)))
    BY <1>1, SetsAre
  <2>2. Cardinality({r, np[p]}) <= Cardinality(Counted(Pa(p)))
    BY <2>1, FS_Subset
  <2>3. Cardinality({r, np[p]}) = 2
    <3>1. IsFiniteSet({r}) /\ Cardinality({r}) = 1
      BY FS_Singleton
    <3>2. np[p] \notin {r}
      OBVIOUS
    <3>3. Cardinality({r} \cup {np[p]}) = Cardinality({r}) + 1
      BY <3>1, <3>2, FS_AddElement
    <3>4. {r} \cup {np[p]} = {r, np[p]}
      OBVIOUS
    <3> QED
      BY <3>1, <3>3, <3>4
  <2>4. Cardinality(Counted(Pa(p))) \in Nat
    BY <1>1, SetsAre
  <2> QED
    BY <1>3, <2>2, <2>3, <2>4
<1>5. ASSUME NEW r \in Mapped(Pa(p)), r # np[p] PROVE FALSE
  <2>1. PICK q \in Counted(Pa(p)) : pc[q] \in Counting /\ np[q] = r /\ q # r
    BY <1>1, <1>4, <1>5, MappedCounted
  <2>2. q = np[p] /\ q \in Procs
    BY <1>1, <1>4, <2>1
  <2>3. state[np[p]] = "live"
    BY <1>1, <2>1, <2>2, Types DEF CallInv, Counting
  <2>4. np[p] = p
    BY <1>1, <2>3, Types DEF CallInv
  <2> QED
    BY <2>1, <2>2, <2>4 DEF Counting
<1> QED
  BY <1>2, <1>5

-----------------------------------------------------------------------------
(* Most steps leave the pages with those who have them.                    *)

Quiet(p) ==
  /\ UNCHANGED <<freelist, reference_count>>
  /\ \A q \in Procs : /\ pte'[q].page = pte[q].page /\ mem'[q] = mem[q]
                      /\ pte[q].cow => pte'[q].cow
  /\ \A q \in Procs \ {p} : /\ pc'[q] = pc[q] /\ op'[q] = op[q]
                            /\ np'[q] = np[q] /\ reg'[q] = reg[q]
  /\ pc[p] \in Counting <=> pc'[p] \in Counting
  /\ pc'[p] \in Counting => np'[p] = np[p]
  /\ pc[p] \notin {"push", "clear", "init"} /\ pc'[p] \notin {"clear", "init"}

LEMMA QuietSteps ==
  ASSUME Base, NEW p \in Procs,
         \/ (\E q \in Procs : Reap(p, q)) \/ ForkFails(p) \/ IncLoad(p) \/ ForkReturns(p) \/ ForkUndo(p)
         \/ (\E v \in Values : Write(p, v)) \/ Fault(p) \/ Grow(p) \/ GrowFails(p) \/ FillCopy(p)
         \/ PopFails(p) \/ Shrink(p) \/ Exit(p) \/ Test(p) \/ SubLoad(p)
  PROVE  Quiet(p)
<1>1. Step(p)
  BY DEF Step, Kfree, Kalloc
<1>2. \A q \in Procs \ {p} : /\ pc'[q] = pc[q] /\ op'[q] = op[q] /\ np'[q] = np[q]
                             /\ mem'[q] = mem[q] /\ reg'[q] = reg[q]
  BY <1>1, OthersStay
<1>3. UNCHANGED <<freelist, reference_count>>
  BY DEF Reap, ForkFails, IncLoad, ForkReturns, ForkUndo, Write, Fault, Grow, GrowFails, FillCopy,
     PopFails, Shrink, Exit, Test, SubLoad, memory
<1>4. LocalsOK /\ MemoryOK /\ CallInv(p)
  BY TypeIs DEF Base
<1>5. \A q \in Procs : pte'[q].page = pte[q].page /\ (pte[q].cow => pte'[q].cow)
  <2>1. CASE ForkFails(p)
    BY <1>4, <2>1 DEF ForkFails, Map, MemoryOK
  <2>2. CASE ~ForkFails(p)
    <3>1. pte' = pte
      BY <2>2 DEF Reap, IncLoad, ForkReturns, ForkUndo, Write, Fault, Grow, GrowFails, FillCopy,
         PopFails, Shrink, Exit, Test, SubLoad, memory
    <3> QED
      BY <3>1
  <2> QED
    BY <2>1, <2>2
<1>6. /\ mem'[p] = mem[p]
      /\ pc[p] \in Counting <=> pc'[p] \in Counting
      /\ pc'[p] \in Counting => np'[p] = np[p]
      /\ pc[p] \notin {"push", "clear", "init"} /\ pc'[p] \notin {"clear", "init"}
  <2>1. CASE ForkReturns(p) \/ PopFails(p)
    <3>1. mem[p] = None /\ pc[p] \in {"mapped", "pop"} /\ Return(p)
      BY <1>4, <2>1 DEF ForkReturns, PopFails, At, CallInv, Releasing
    <3> QED
      BY <3>1, ReturnIs DEF Counting
  <2>2. CASE (\E q \in Procs : Reap(p, q)) \/ Fault(p) \/ Grow(p) \/ Shrink(p)
    <3>1. pc[p] = "user" /\ pc'[p] \in {"user", "pop", "test"} /\ mem' = mem
      BY <1>4, <2>2 DEF Reap, Fault, Grow, Shrink, Enter, Goto, Runs, At, LocalsOK
    <3> QED
      BY <3>1 DEF Counting
  <2>3. CASE ForkFails(p) \/ (\E v \in Values : Write(p, v)) \/ Exit(p)
    BY <1>4, <2>3 DEF ForkFails, Write, Exit, Runs, At, locals, Counting
  <2>4. CASE ForkUndo(p) \/ GrowFails(p) \/ FillCopy(p) \/ Test(p) \/ SubLoad(p)
    BY <1>4, <2>4 DEF ForkUndo, GrowFails, FillCopy, Test, SubLoad, Goto, At, locals, Counting, LocalsOK
  <2>5. CASE IncLoad(p)
    BY <1>4, <2>5 DEF IncLoad, Goto, At, Counting, LocalsOK
  <2> QED
    BY <2>1, <2>2, <2>3, <2>4, <2>5
<1> QED
  BY <1>2, <1>3, <1>5, <1>6 DEF Quiet

LEMMA QuietSets ==
  ASSUME Base, NEW p \in Procs, Quiet(p), NEW g \in Pages
  PROVE  /\ Mapped(g)' = Mapped(g) /\ Counted(g)' = Counted(g) /\ Gotten(g)' = Gotten(g)
         /\ \A q \in Procs \ {p} : Pa(q)' = Pa(q)
<1>1. Mapped(g)' = Mapped(g) /\ Gotten(g)' = Gotten(g)
  BY DEF Mapped, Gotten, Quiet
<1>2. \A q \in Procs : pc'[q] \in Counting <=> pc[q] \in Counting
  BY DEF Quiet
<1>3. \A q \in Procs : pc'[q] \in Counting => np'[q] = np[q]
  BY DEF Quiet
<1>4. Counted(g)' = Counted(g)
  BY <1>1, <1>2, <1>3 DEF Counted
<1>5. \A q \in Procs \ {p} : Pa(q)' = Pa(q)
  BY Types DEF Quiet, Pa
<1> QED
  BY <1>1, <1>4, <1>5

LEMMA QuietPage ==
  ASSUME Good, NEW p \in Procs, Quiet(p), NEW g \in Pages
  PROVE  PageInv(g)'
<1>1. PageInv(g) /\ Base
  BY DEF Good
<1>2. Mapped(g)' = Mapped(g) /\ Counted(g)' = Counted(g) /\ Gotten(g)' = Gotten(g)
      /\ \A q \in Procs \ {p} : Pa(q)' = Pa(q)
  BY <1>1, QuietSets
<1>3. (\E q \in Procs : pc'[q] = "clear" /\ Pa(q)' = g) <=> (\E q \in Procs : pc[q] = "clear" /\ Pa(q) = g)
  <2>1. \A q \in Procs : pc'[q] = "clear" <=> pc[q] = "clear"
    BY DEF Quiet
  <2>2. \A q \in Procs : pc[q] = "clear" => Pa(q)' = Pa(q)
    BY <1>2 DEF Quiet
  <2> QED
    BY <2>1, <2>2
<1> QED
  BY <1>1, <1>2, <1>3 DEF PageInv, Quiet

LEMMA QuietGotten ==
  ASSUME Good, NEW p \in Procs, Quiet(p), NEW q \in Procs, mem'[q] # None
  PROVE  /\ (Mapped(mem[q]) = {} /\ Gotten(mem[q]) = {q})'
         /\ pc'[q] # "init" => reference_count'[mem'[q]] = 1
<1>1. UseInv(q) /\ Base
  BY DEF Good
<1>2. \A g \in Pages : Mapped(g)' = Mapped(g) /\ Gotten(g)' = Gotten(g)
  BY <1>1, QuietSets
<1>3. mem'[q] = mem[q] /\ reference_count' = reference_count
  BY DEF Quiet
<1>4. pc'[q] # "init" => pc[q] # "init"
  BY DEF Quiet
<1>5. mem[q] \in Pages /\ Mapped(mem[q]) = {} /\ Gotten(mem[q]) = {q}
  BY <1>1, <1>3, Types DEF UseInv
<1>6. PICK g \in Pages : g = mem[q] /\ g = mem'[q]
  BY <1>3, <1>5
<1>7. (Mapped(mem[q]))' = {} /\ (Gotten(mem[q]))' = {q}
  <2>1. Mapped(g)' = {} /\ Gotten(g)' = {q}
    BY <1>2, <1>5, <1>6
  <2> QED
    BY <1>6, <2>1 DEF Mapped, Gotten
<1> QED
  BY <1>1, <1>3, <1>4, <1>7 DEF UseInv

LEMMA QuietUse ==
  ASSUME Good, NEW p \in Procs, Quiet(p), NEW q \in Procs,
         q # p \/ pc'[p] \notin {"inc_store", "sub_load", "sub_store", "push"}
  PROVE  UseInv(q)'
<1>1. UseInv(q) /\ Base
  BY DEF Good
<1>2. \A g \in Pages : /\ Mapped(g)' = Mapped(g) /\ Counted(g)' = Counted(g) /\ Gotten(g)' = Gotten(g)
                       /\ \A r \in Procs \ {p} : Pa(r)' = Pa(r)
  BY <1>1, QuietSets
<1>3. mem'[q] = mem[q] /\ reference_count' = reference_count
  BY DEF Quiet
<1>4. mem'[q] # None => /\ (Mapped(mem[q]) = {} /\ Gotten(mem[q]) = {q})'
                        /\ pc'[q] # "init" => reference_count'[mem'[q]] = 1
  BY QuietGotten
<1>5. CASE q # p
  <2>1. pc'[q] = pc[q] /\ op'[q] = op[q] /\ np'[q] = np[q] /\ reg'[q] = reg[q] /\ pte'[q].page = pte[q].page
    BY <1>5 DEF Quiet
  <2>2. pc[q] \in Releasing => Pa(q) \in Pages /\ Pa(q)' = Pa(q) /\ Mapped(Pa(q))' = Mapped(Pa(q))
    BY <1>1, <1>2, <1>5, PaIs
  <2>3. pc[q] \in {"push", "clear"} /\ op[q] # "grow" => (Mapped(Pa(q)))' = {np[q]}
    BY <1>1, <2>2 DEF UseInv, Releasing
  <2>4. pc[q] \in {"sub_load", "sub_store"} => Pa(q)' = Pa(q)
    BY <2>2 DEF Releasing
  <2> QED
    BY <1>1, <1>3, <1>4, <2>1, <2>3, <2>4 DEF UseInv
<1>6. CASE q = p
  <2>1. pc'[p] \notin {"inc_store", "sub_load", "sub_store", "push", "clear"}
    BY <1>6 DEF Quiet
  <2> QED
    BY <1>3, <1>4, <1>6, <2>1 DEF UseInv
<1> QED
  BY <1>5, <1>6

LEMMA QuietWritable ==
  ASSUME Good, NEW p \in Procs, Quiet(p), NEW q \in Procs, pte'[q].page # None, ~pte'[q].cow
  PROVE  (Mapped(pte[q].page) = {q})' /\ pte'[q].page \in Pages /\ Mapped(pte'[q].page)= {q}
<1>1. MemoryInv(q) /\ Base /\ pte'[q].page = pte[q].page /\ ~pte[q].cow
  BY DEF Good, Quiet
<1>2. pte[q].page \in Pages /\ Mapped(pte[q].page) = {q}
  BY <1>1, Types DEF MemoryInv
<1>3. Mapped(pte[q].page) = Mapped(pte'[q].page)
  BY <1>1
<1>4. \A r \in Procs : pte'[r].page = pte[r].page
  BY DEF Quiet
<1>5. (Mapped(pte[q].page))' = Mapped(pte[q].page)
  BY <1>1, <1>4 DEF Mapped
<1> QED
  BY <1>1, <1>2, <1>3, <1>5

LEMMA QuietMemory ==
  ASSUME Good, NEW p \in Procs, Quiet(p), UNCHANGED <<content, image>>,
         \A q \in Procs : state'[q] = "live" => state[q] = "live",
         op'[p] = "fault" /\ pc'[p] \in Releasing \cup {"test"}
           => op[p] = "fault" /\ pc[p] \in Releasing \cup {"test"},
         NEW q \in Procs
  PROVE  MemoryInv(q)'
<1>1. MemoryInv(q) /\ Base
  BY DEF Good
<1>2. pte'[q].page = pte[q].page /\ mem'[q] = mem[q]
  BY DEF Quiet
<1>3. (pc'[q] \in {"push", "clear"} => np'[q] # q) => (pc[q] \in {"push", "clear"} => np[q] # q)
  BY DEF Quiet
<1>4. op'[q] = "fault" /\ pc'[q] \in Releasing \cup {"test"}
           => op[q] = "fault" /\ pc[q] \in Releasing \cup {"test"}
  BY DEF Quiet
<1> QED
  BY <1>1, <1>2, <1>3, <1>4, QuietWritable DEF MemoryInv

LEMMA QuietestMemory ==
  ASSUME Good, NEW p \in Procs, NEW q \in Procs,
         \/ (\E z \in Procs : Reap(p, z)) \/ ForkFails(p) \/ IncLoad(p) \/ ForkUndo(p)
         \/ Fault(p) \/ Grow(p) \/ GrowFails(p) \/ PopFails(p) \/ Shrink(p) \/ Exit(p) \/ SubLoad(p)
  PROVE  MemoryInv(q)'
<1>1. Base /\ LocalsOK /\ StatesOK /\ CallInv(p)
  BY TypeIs DEF Good, Base
<1>2. Quiet(p)
  BY <1>1, QuietSteps
<1>3. UNCHANGED <<content, image>>
  BY DEF Reap, ForkFails, IncLoad, ForkUndo, Fault, Grow, GrowFails, PopFails, Shrink, Exit, SubLoad,
     memory
<1>4. \A r \in Procs : state'[r] = "live" => state[r] = "live"
  BY <1>1 DEF Reap, ForkFails, IncLoad, ForkUndo, Fault, Grow, GrowFails, PopFails, Shrink, Exit,
     SubLoad, Dies, StatesOK
<1>5. op'[p] = "fault" /\ pc'[p] \in Releasing \cup {"test"}
        => op[p] = "fault" /\ pc[p] \in Releasing \cup {"test"}
  <2>1. CASE PopFails(p)
    BY <1>1, <2>1, ReturnIs DEF PopFails
  <2>2. CASE (\E z \in Procs : Reap(p, z)) \/ Fault(p) \/ Grow(p) \/ Shrink(p)
    <3>1. op'[p] # "fault" \/ pc'[p] \in {"user", "pop"}
      BY <1>1, <2>2 DEF Reap, Fault, Grow, Shrink, Enter, Goto, Runs, At, LocalsOK, CallInv
    <3> QED
      BY <3>1 DEF Releasing
  <2>3. CASE ForkFails(p) \/ Exit(p)
    BY <1>1, <2>3 DEF ForkFails, Exit, locals
  <2>4. CASE IncLoad(p) \/ ForkUndo(p) \/ GrowFails(p)
    <3>1. op[p] # "fault" /\ op' = op
      BY <1>1, <2>4 DEF IncLoad, ForkUndo, GrowFails, At, CallInv, Counting, locals
    <3> QED
      BY <3>1
  <2>5. CASE SubLoad(p)
    BY <1>1, <2>5 DEF SubLoad, At, Releasing
  <2> QED
    BY <2>1, <2>2, <2>3, <2>4, <2>5
<1> QED
  BY <1>2, <1>3, <1>4, <1>5, QuietMemory

(* A store changes a page that only its process maps. *)
LEMMA WriteMemory ==
  ASSUME Good, NEW p \in Procs, NEW v \in Values, Write(p, v), NEW q \in Procs
  PROVE  MemoryInv(q)'
<1>1. Base /\ MemoryOK /\ StatesOK /\ CallInv(p) /\ MemoryInv(p) /\ MemoryInv(q) /\ UseInv(q)
  BY TypeIs DEF Good, Base
<1>2. UNCHANGED <<pte, state, pc, op, np, mem>>
  BY DEF Write, locals
<1>3. pte[p].page \in Pages /\ ~pte[p].cow /\ pc[p] = "user"
  <2>1. pte[p] \in PteType
    BY <1>1, Types
  <2> QED
    BY <2>1 DEF Write, Runs, At, Unmapped, PteType
<1>4. Mapped(pte[p].page) = {p}
  BY <1>1, <1>3, Nones DEF MemoryInv
<1>5. content' = [content EXCEPT ![pte[p].page] = v] /\ image' = [image EXCEPT ![p] = v]
  BY DEF Write
<1>6. content'[pte[p].page] = v /\ \A g \in Pages \ {pte[p].page} : content'[g] = content[g]
  BY <1>1, <1>3, <1>5 DEF MemoryOK
<1>7. image'[p] = v /\ \A r \in Procs \ {p} : image'[r] = image[r]
  BY <1>1, <1>5 DEF StatesOK
<1>8. q # p => pte[q].page # pte[p].page
  BY <1>4 DEF Mapped
<1>9. mem[q] # None => mem[q] # pte[p].page
  BY <1>1, <1>4 DEF UseInv
<1>10. (Mapped(pte[q].page))' = Mapped(pte[q].page)
  BY <1>2 DEF Mapped
<1>11. (pte[q].page # None /\ ~pte[q].cow => Mapped(pte[q].page) = {q})'
  BY <1>1, <1>2, <1>10 DEF MemoryInv
<1>12. CASE q = p
  BY <1>1, <1>2, <1>3, <1>6, <1>7, <1>11, <1>12 DEF MemoryInv, Releasing
<1>13. CASE q # p
  <2>1. pte[q].page \in Pages \cup {None} /\ mem[q] \in Pages \cup {None}
    BY <1>1, Types
  <2>2. op[q] = "fault" /\ pc[q] \in Releasing \cup {"test"} => mem[q] # None
    BY <1>1 DEF Base, CallInv, Releasing
  <2> QED
    BY <1>1, <1>2, <1>6, <1>7, <1>8, <1>9, <1>11, <1>13, <2>1, <2>2 DEF MemoryInv
<1> QED
  BY <1>12, <1>13

(* A copy is one when it has been made. *)
LEMMA FillCopyMemory ==
  ASSUME Good, NEW p \in Procs, FillCopy(p), NEW q \in Procs
  PROVE  MemoryInv(q)'
<1>1. Base /\ MemoryOK /\ LocalsOK /\ CallInv(p) /\ MemoryInv(p) /\ MemoryInv(q) /\ UseInv(q) /\ UseInv(p)
      /\ CallInv(q)
  BY TypeIs DEF Good, Base
<1>2. UNCHANGED <<pte, state, op, np, mem, image>>
  BY DEF FillCopy, locals
<1>3. pc[p] = "fill" /\ op[p] = "fault" /\ mem[p] \in Pages /\ pte[p].page \in Pages /\ state[p] = "live"
  BY <1>1, Types DEF FillCopy, At, CallInv
<1>4. Mapped(mem[p]) = {} /\ Gotten(mem[p]) = {p}
  BY <1>1, <1>3, Nones DEF UseInv
<1>5. content'[mem[p]] = content[pte[p].page] /\ \A g \in Pages \ {mem[p]} : content'[g] = content[g]
  BY <1>1, <1>3 DEF FillCopy, MemoryOK
<1>6. pc'[p] = "test" /\ \A r \in Procs \ {p} : pc'[r] = pc[r]
  BY <1>1 DEF FillCopy, Goto, LocalsOK
<1>7. content[pte[p].page] = image[p]
  BY <1>1, <1>3, Nones DEF MemoryInv
<1>8. pte[q].page # mem[p] /\ (q # p => mem[q] # mem[p])
  BY <1>3, <1>4 DEF Mapped, Gotten
<1>9. (Mapped(pte[q].page))' = Mapped(pte[q].page)
  BY <1>2 DEF Mapped
<1>10. (pte[q].page # None /\ ~pte[q].cow => Mapped(pte[q].page) = {q})'
  BY <1>1, <1>2, <1>9 DEF MemoryInv
<1>11. pte[q].page # None => content'[pte[q].page] = content[pte[q].page]
  BY <1>1, <1>5, <1>8, Types
<1>12. CASE q = p
  BY <1>1, <1>2, <1>3, <1>5, <1>6, <1>7, <1>10, <1>11, <1>12 DEF MemoryInv
<1>13. CASE q # p
  <2>1. op[q] = "fault" /\ pc[q] \in Releasing \cup {"test"} => mem[q] \in Pages
    BY <1>1, Types DEF CallInv
  <2> QED
    BY <1>1, <1>2, <1>5, <1>6, <1>8, <1>10, <1>11, <1>13, <2>1 DEF MemoryInv
<1> QED
  BY <1>12, <1>13

(* The child finds what its parent has. *)
LEMMA ForkReturnsMemory ==
  ASSUME Good, NEW p \in Procs, ForkReturns(p), NEW q \in Procs
  PROVE  MemoryInv(q)'
<1>1. Base /\ StatesOK /\ CallInv(p) /\ MemoryInv(p) /\ MemoryInv(q) /\ CallInv(q) /\ Return(p)
  BY TypeIs DEF Good, Base, ForkReturns
<1>2. PICK c \in Procs : c = np[p]
  BY <1>1, Types
<1>3. op[p] = "fork" /\ pc[p] = "mapped" /\ state[p] = "live" /\ state[c] = "embryo" /\ pte[c] = pte[p]
  BY <1>1, <1>2 DEF ForkReturns, At, CallInv, Counting
<1>4. image'[c] = image[p] /\ \A r \in Procs \ {c} : image'[r] = image[r]
  BY <1>1, <1>2 DEF ForkReturns, StatesOK
<1>5. \A r \in Procs \ {c} : state'[r] = state[r]
  BY <1>1, <1>2 DEF ForkReturns, StatesOK
<1>6. pte' = pte /\ content' = content
  BY DEF ForkReturns, memory
<1>7. (Mapped(pte[q].page))' = Mapped(pte[q].page)
  BY <1>6 DEF Mapped
<1>8. (pte[q].page # None /\ ~pte[q].cow => Mapped(pte[q].page) = {q})'
  BY <1>1, <1>6, <1>7 DEF MemoryInv
<1>9. op'[q] = "fault" => q # p /\ q # c /\ op[q] = "fault" /\ pc'[q] = pc[q] /\ mem'[q] = mem[q]
  <2>1. c # p /\ op[c] = "none" /\ op'[c] = "none"
    BY <1>1, <1>2, <1>3, ReturnIs DEF Base, CallInv
  <2> QED
    BY <1>1, <2>1, ReturnIs
<1>10. (pc'[q] \in {"push", "clear"} => np'[q] # q) => (pc[q] \in {"push", "clear"} => np[q] # q)
  BY <1>1, <1>3, ReturnIs
<1>11. CASE q = c
  BY <1>1, <1>3, <1>4, <1>6, <1>8, <1>9, <1>11 DEF MemoryInv
<1>12. CASE q # c
  BY <1>1, <1>4, <1>5, <1>6, <1>8, <1>9, <1>10, <1>12 DEF MemoryInv
<1> QED
  BY <1>11, <1>12

LEMMA LoadUse ==
  ASSUME Good, NEW p \in Procs, IncLoad(p) \/ SubLoad(p), NEW q \in Procs
  PROVE  UseInv(q)'
<1>1. Base /\ LocalsOK /\ UseInv(p) /\ Quiet(p)
  BY TypeIs, QuietSteps DEF Good, Base
<1>2. CASE q # p
  BY <1>1, <1>2, QuietUse
<1>3. CASE q = p
  <2>1. mem'[q] # None => /\ (Mapped(mem[q]) = {} /\ Gotten(mem[q]) = {q})'
                          /\ pc'[q] # "init" => reference_count'[mem'[q]] = 1
    BY <1>1, QuietGotten
  <2>2. UNCHANGED <<pte, reference_count, op, np, mem>>
    BY DEF IncLoad, SubLoad, memory, locals
  <2>3. Pa(p)' = Pa(p)
    BY <2>2 DEF Pa
  <2>4. CASE IncLoad(p)
    <3>1. pc'[p] = "inc_store" /\ reg'[p] = reference_count[pte[p].page]
      BY <1>1, <2>4 DEF IncLoad, Goto, LocalsOK
    <3> QED
      BY <1>3, <2>1, <2>2, <3>1 DEF UseInv
  <2>5. CASE SubLoad(p)
    <3>1. pc[p] = "sub_load" /\ pc'[p] = "sub_store" /\ reg'[p] = reference_count[Pa(p)]
      BY <1>1, <2>5 DEF SubLoad, At, Goto, LocalsOK
    <3> QED
      BY <1>1, <1>3, <2>1, <2>2, <2>3, <3>1 DEF UseInv
  <2> QED
    BY <2>4, <2>5
<1> QED
  BY <1>2, <1>3

LEMMA TestUse ==
  ASSUME Good, NEW p \in Procs, Test(p), NEW q \in Procs
  PROVE  UseInv(q)'
<1>1. Base /\ LocalsOK /\ UseInv(p) /\ Quiet(p)
  BY TypeIs, QuietSteps DEF Good, Base
<1>2. CASE q # p
  BY <1>1, <1>2, QuietUse
<1>3. CASE q = p
  <2>1. mem'[q] # None => /\ (Mapped(mem[q]) = {} /\ Gotten(mem[q]) = {q})'
                          /\ pc'[q] # "init" => reference_count'[mem'[q]] = 1
    BY <1>1, QuietGotten
  <2>2. UNCHANGED <<pte, reference_count, op, np, mem>>
    BY DEF Test, locals
  <2>3. Pa(p)' = Pa(p) /\ (Mapped(Pa(p)))' = Mapped(Pa(p))
    BY <2>2 DEF Pa, Mapped
  <2>4. pc[p] = "test" /\ Pa(p) \in Pages
    BY <1>1, PaIs DEF Test, At
  <2>5. CASE reference_count[Pa(p)] > 1
    <3>1. pc'[p] = "sub_load"
      BY <1>1, <2>5 DEF Test, Goto, LocalsOK
    <3> QED
      BY <1>3, <2>1, <2>2, <2>3, <2>5, <3>1 DEF UseInv
  <2>6. CASE ~(reference_count[Pa(p)] > 1)
    <3>1. pc'[p] = "push"
      BY <1>1, <2>6 DEF Test, Goto, LocalsOK
    <3>2. reference_count[Pa(p)] <= 1
      BY <1>1, <2>4, <2>6, Types
    <3>3. op[p] # "grow" => Mapped(Pa(p)) = {np[p]}
      BY <2>4, <3>2, LastMapping
    <3> QED
      BY <1>3, <2>1, <2>2, <2>3, <3>1, <3>3 DEF UseInv
  <2> QED
    BY <2>5, <2>6
<1> QED
  BY <1>2, <1>3

(* kfree() fills the page with junk that nobody else has. *)
LEMMA TestMemory ==
  ASSUME Good, NEW p \in Procs, Test(p), NEW q \in Procs
  PROVE  MemoryInv(q)'
<1>1. Base /\ LocalsOK /\ MemoryOK /\ Quiet(p) /\ MemoryInv(q) /\ CallInv(q) /\ CallInv(p)
  BY TypeIs, QuietSteps DEF Good, Base
<1>2. UNCHANGED <<pte, state, op, np, mem, image>>
  BY DEF Test, locals
<1>3. pc[p] = "test" /\ Pa(p) \in Pages
  BY <1>1, PaIs DEF Test, At
<1>4. CASE reference_count[Pa(p)] > 1
  <2>1. content' = content
    BY <1>4 DEF Test
  <2> QED
    BY <1>1, <1>2, <1>3, <2>1, QuietMemory
<1>5. CASE ~(reference_count[Pa(p)] > 1)
  <2>1. content' = [content EXCEPT ![Pa(p)] = Junk]
    BY <1>5 DEF Test
  <2>2. \A g \in Pages \ {Pa(p)} : content'[g] = content[g]
    BY <1>1, <1>3, <2>1 DEF MemoryOK
  <2>3. pc'[p] = "push" /\ \A r \in Procs \ {p} : pc'[r] = pc[r]
    BY <1>1, <1>5 DEF Test, Goto, LocalsOK
  <2>4. reference_count[Pa(p)] <= 1
    BY <1>1, <1>3, <1>5, Types
  <2>5. op[p] # "grow" => Mapped(Pa(p)) = {np[p]}
    BY <1>3, <2>4, LastMapping
  <2>6. op[p] = "grow" => Mapped(Pa(p)) = {}
    <3> SUFFICES ASSUME op[p] = "grow" PROVE Mapped(Pa(p)) = {}
      OBVIOUS
    <3>1. Pa(p) = mem[p] /\ mem[p] # None
      BY <1>1, <1>3, Nones, PaIs
    <3> QED
      BY <3>1 DEF Good, UseInv
  <2>7. state[q] = "live" /\ (pc'[q] \in {"push", "clear"} => np'[q] # q) => pte[q].page # Pa(p)
    <3> SUFFICES ASSUME state[q] = "live", pte[q].page = Pa(p) PROVE q = p /\ np[p] = p
      BY <1>2, <2>3
    <3>1. q \in Mapped(Pa(p))
      BY DEF Mapped
    <3>2. op[p] # "grow" /\ q = np[p]
      BY <2>5, <2>6, <3>1
    <3> QED
      BY <1>1, <3>2, PaIs, <1>3 DEF CallInv, Releasing
  <2>8. op[q] = "fault" /\ pc'[q] \in Releasing \cup {"test"} => mem[q] \in Pages \ {Pa(p)} /\ pc[q] \in Releasing \cup {"test"}
    <3> SUFFICES ASSUME op[q] = "fault", pc'[q] \in Releasing \cup {"test"}
                 PROVE  mem[q] \in Pages \ {Pa(p)} /\ pc[q] \in Releasing \cup {"test"}
      OBVIOUS
    <3>1. pc[q] \in Releasing \cup {"test"}
      BY <1>3, <2>3
    <3>2. mem[q] # None /\ mem[q] \in Pages
      BY <1>1, <3>1, Types DEF CallInv
    <3>3. mem[q] # Pa(p)
      BY <1>3, <3>2, MemAlone
    <3> QED
      BY <3>1, <3>2, <3>3
  <2>9. (pte[q].page # None /\ ~pte[q].cow => Mapped(pte[q].page) = {q})'
    BY <1>1, QuietWritable
  <2>10. pte[q].page \in Pages \cup {None} 
         /\ ((pc'[q] \in {"push", "clear"} => np'[q] # q) => (pc[q] \in {"push", "clear"} => np[q] # q))
    BY <1>1, Types DEF Quiet
  <2> QED
    BY <1>1, <1>2, <2>2, <2>7, <2>8, <2>9, <2>10 DEF MemoryInv
<1> QED
  BY <1>4, <1>5

LEMMA QuietestUse ==
  ASSUME Good, NEW p \in Procs, NEW q \in Procs,
         \/ (\E z \in Procs : Reap(p, z)) \/ ForkFails(p) \/ ForkReturns(p) \/ ForkUndo(p)
         \/ (\E v \in Values : Write(p, v)) \/ Fault(p) \/ Grow(p) \/ GrowFails(p) \/ FillCopy(p)
         \/ PopFails(p) \/ Shrink(p) \/ Exit(p)
  PROVE  UseInv(q)'
<1>1. Base /\ LocalsOK /\ CallInv(p)
  BY TypeIs DEF Good, Base
<1>2. Quiet(p)
  BY <1>1, QuietSteps
<1>3. pc'[p] \in {"user", "pop", "test"}
  BY <1>1 DEF Reap, ForkFails, ForkReturns, ForkUndo, Write, Fault, Grow, GrowFails, FillCopy, PopFails,
     Shrink, Exit, Enter, Return, Goto, Runs, At, locals, LocalsOK
<1> QED
  BY <1>2, <1>3, QuietUse

(* All of it for the quiet steps. *)
LEMMA QuietGood ==
  ASSUME Good, NEW p \in Procs,
         \/ (\E q \in Procs : Reap(p, q)) \/ ForkFails(p) \/ IncLoad(p) \/ ForkReturns(p) \/ ForkUndo(p)
         \/ (\E v \in Values : Write(p, v)) \/ Fault(p) \/ Grow(p) \/ GrowFails(p) \/ FillCopy(p)
         \/ PopFails(p) \/ Shrink(p) \/ Exit(p) \/ Test(p) \/ SubLoad(p)
  PROVE  /\ \A g \in Pages : PageInv(g)'
         /\ \A q \in Procs : UseInv(q)' /\ MemoryInv(q)'
<1>1. Quiet(p)
  BY QuietSteps DEF Good
<1>2. \A g \in Pages : PageInv(g)'
  BY <1>1, QuietPage
<1>3. \A q \in Procs : UseInv(q)'
  BY QuietestUse, LoadUse, TestUse
<1>4. \A q \in Procs : MemoryInv(q)'
  BY QuietestMemory, WriteMemory, FillCopyMemory, ForkReturnsMemory, TestMemory
<1> QED
  BY <1>2, <1>3, <1>4

-----------------------------------------------------------------------------
(* The steps that change what is mapped, counted or given.                 *)

LEMMA ForkSets ==
  ASSUME Good, NEW p \in Procs, NEW c \in Procs, Fork(p, c)
  PROVE  /\ pte[p].page \in Pages /\ c # p /\ p \in Mapped(pte[p].page)
         /\ pc[c] = "user" /\ state[c] = "unused" /\ \A r \in Procs : np[r] = c => r = c
         /\ \A g \in Pages : /\ Counted(g)' = Counted(g) /\ Gotten(g)' = Gotten(g)
                             /\ Mapped(g)' = IF g = pte[p].page THEN Mapped(g) \cup {c} ELSE Mapped(g)
         /\ \A r \in Procs \ {p} : pc[r] \in Releasing => Pa(r)' = Pa(r)
<1>1. Base /\ LocalsOK /\ MemoryOK /\ CallInv(p) /\ CallInv(c)
  BY TypeIs DEF Good, Base
<1>2. state[p] = "live" /\ pc[p] = "user" /\ pc[c] = "user" /\ state[c] = "unused" /\ c # p
  BY <1>1 DEF Fork, Runs, At, CallInv
<1>3. pte[p].page \in Pages /\ p \in Mapped(pte[p].page)
  <2>1. pte[p] \in PteType
    BY <1>1 DEF MemoryOK
  <2> QED
    BY <1>1, <2>1 DEF CallInv, Fork, Unmapped, PteType, Mapped
<1>4. pte[c].page = None
  BY <1>1, <1>2 DEF CallInv, Unmapped
<1>5. /\ pte'[p].page = pte[p].page /\ pte'[c].page = pte[p].page
      /\ \A r \in Procs \ {p, c} : pte'[r] = pte[r]
  BY <1>1 DEF Fork
<1>6. np' = [np EXCEPT ![p] = c] /\ pc' = [pc EXCEPT ![p] = "inc_load"] /\ mem' = mem
  BY DEF Fork, Enter, Goto
<1>7. np'[p] = c /\ pc'[p] = "inc_load" /\ \A r \in Procs \ {p} : np'[r] = np[r] /\ pc'[r] = pc[r]
  BY <1>1, <1>6 DEF LocalsOK
<1>8. \A r \in Procs : np[r] = c => r = c
  BY <1>2 DEF Good, Base, CallInv
<1>9. ASSUME NEW g \in Pages
      PROVE /\ Counted(g)' = Counted(g) /\ Gotten(g)' = Gotten(g)
            /\ Mapped(g)' = IF g = pte[p].page THEN Mapped(g) \cup {c} ELSE Mapped(g)
  <2>1. Gotten(g)' = Gotten(g)
    BY <1>6 DEF Gotten
  <2>2. Mapped(g)' = IF g = pte[p].page THEN Mapped(g) \cup {c} ELSE Mapped(g)
    <3>1. c \notin Mapped(g)
      BY <1>4, Nones DEF Mapped
    <3> QED
      BY <1>5, <3>1 DEF Mapped
  <2>3. c \notin Counted(g)' /\ c \notin Counted(g)
    <3>1. c \notin Counted(g)
      BY <1>4, Nones DEF Mapped, Counted
    <3>2. pc'[p] \in Counting /\ np'[p] = c
      BY <1>7 DEF Counting
    <3> QED
      BY <3>1, <3>2 DEF Counted
  <2>4. ASSUME NEW r \in Procs, r # c PROVE r \in Counted(g)' <=> r \in Counted(g)
    <3>1. r \in Mapped(g)' <=> r \in Mapped(g)
      BY <2>2, <2>4
    <3>2. (\A q \in Procs : pc'[q] \in Counting => np'[q] # r)
            <=> (\A q \in Procs : pc[q] \in Counting => np[q] # r)
      BY <1>2, <1>7, <2>4 DEF Counting
    <3> QED
      BY <3>1, <3>2 DEF Counted
  <2>5. Counted(g)' \subseteq Procs /\ Counted(g) \subseteq Procs
    BY DEF Counted, Mapped
  <2>6. Counted(g)' = Counted(g)
    BY <2>3, <2>4, <2>5
  <2> QED
    BY <2>1, <2>2, <2>6
<1>10. ASSUME NEW r \in Procs \ {p}, pc[r] \in Releasing PROVE Pa(r)' = Pa(r)
  <2>1. op'[r] = op[r]
    BY <1>1 DEF Fork, Enter, LocalsOK
  <2>2. np[r] # c /\ np[r] \in Procs
    BY <1>2, <1>8, <1>10, <1>1, Types DEF Releasing
  <2> QED
    BY <1>5, <1>6, <1>7, <2>1, <2>2 DEF Pa
<1> QED
  BY <1>2, <1>3, <1>8, <1>9, <1>10

LEMMA ForkGood ==
  ASSUME Good, NEW p \in Procs, NEW c \in Procs, Fork(p, c)
  PROVE  /\ \A g \in Pages : PageInv(g)'
         /\ \A q \in Procs : UseInv(q)' /\ MemoryInv(q)'
<1> DEFINE g0 == pte[p].page
<1>1. Base /\ LocalsOK /\ MemoryOK /\ StatesOK
  BY TypeIs DEF Good, Base
<1>2. /\ g0 \in Pages /\ c # p /\ p \in Mapped(g0) /\ pc[c] = "user" /\ state[c] = "unused"
      /\ \A r \in Procs : np[r] = c => r = c
      /\ \A g \in Pages : /\ Counted(g)' = Counted(g) /\ Gotten(g)' = Gotten(g)
                          /\ Mapped(g)' = IF g = g0 THEN Mapped(g) \cup {c} ELSE Mapped(g)
      /\ \A r \in Procs \ {p} : pc[r] \in Releasing => Pa(r)' = Pa(r)
  BY ForkSets
<1>3. pc[p] = "user" /\ state[p] = "live" /\ UNCHANGED <<freelist, content, reference_count, mem, reg, image>>
  BY DEF Fork, Runs, At
<1>4. op' = [op EXCEPT ![p] = "fork"] /\ np' = [np EXCEPT ![p] = c] /\ pc' = [pc EXCEPT ![p] = "inc_load"]
  BY DEF Fork, Enter, Goto
<1>5. op'[p] = "fork" /\ np'[p] = c /\ pc'[p] = "inc_load"
  BY <1>1, <1>4 DEF LocalsOK
<1>6. \A r \in Procs \ {p} : op'[r] = op[r] /\ np'[r] = np[r] /\ pc'[r] = pc[r]
  BY <1>1, <1>4 DEF LocalsOK
<1>7. /\ pte'[p] = [page |-> g0, cow |-> TRUE] /\ pte'[c] = [page |-> g0, cow |-> TRUE]
      /\ \A r \in Procs \ {p, c} : pte'[r] = pte[r]
  BY <1>1 DEF Fork
<1>8. state'[c] = "embryo" /\ \A r \in Procs \ {c} : state'[r] = state[r]
  BY <1>1 DEF Fork, StatesOK
<1>9. \A q \in Procs : CallInv(q) /\ MemoryInv(q) /\ UseInv(q)
  BY DEF Good, Base
<1> HIDE DEF g0
<1>10. ASSUME NEW g \in Pages PROVE PageInv(g)'
  <2>1. (Mapped(g)' = {} /\ Gotten(g)' = {}) <=> (Mapped(g) = {} /\ Gotten(g) = {})
    BY <1>2
  <2>2. \A q \in Procs : (pc'[q] = "clear" /\ Pa(q)' = g) <=> (pc[q] = "clear" /\ Pa(q) = g)
    BY <1>2, <1>3, <1>5, <1>6 DEF Releasing
  <2>3. PageInv(g)
    BY DEF Good
  <2> QED
    BY <1>2, <1>3, <2>1, <2>2, <2>3 DEF PageInv
<1>11. ASSUME NEW q \in Procs PROVE UseInv(q)'
  <2>1. ASSUME mem[q] # None
        PROVE  mem[q] \in Pages /\ (Mapped(mem[q]))' = {} /\ (Gotten(mem[q]))' = {q}
    <3>1. PICK g \in Pages : g = mem[q] /\ g = mem'[q]
      BY <1>1, <1>3, <2>1, Types
    <3>2. Mapped(g) = {} /\ Gotten(g) = {q}
      BY <1>9, <2>1, <3>1 DEF UseInv
    <3>3. Mapped(g)' = {} /\ Gotten(g)' = {q}
      BY <1>2, <3>2
    <3> QED
      BY <3>1, <3>3 DEF Mapped, Gotten
  <2>2. CASE q = p
    <3>1. mem[p] = None
      BY <1>3, <1>9 DEF CallInv, Releasing
    <3> QED
      BY <1>3, <1>5, <2>2, <3>1 DEF UseInv
  <2>3. CASE q # p
    <3>1. pc'[q] = pc[q] /\ op'[q] = op[q] /\ np'[q] = np[q] /\ mem'[q] = mem[q] /\ reg'[q] = reg[q]
      BY <1>3, <1>6, <2>3
    <3>2. pc[q] = "inc_store" => pte'[q].page = pte[q].page
      BY <1>2, <1>7, <2>3
    <3>3. ASSUME pc[q] \in Releasing PROVE Pa(q)' = Pa(q) /\ Pa(q) \in Pages
      BY <1>1, <1>2, <2>3, <3>3, PaIs
    <3>4. ASSUME pc[q] \in {"push", "clear"}, op[q] # "grow" PROVE (Mapped(Pa(q)))' = {np[q]}
      <4>1. PICK g \in Pages : g = Pa(q) /\ g = Pa(q)'
        BY <3>3, <3>4 DEF Releasing
      <4>2. Mapped(g) = {np[q]}
        BY <1>9, <3>4, <4>1 DEF UseInv
      <4>3. g # g0
        <5> SUFFICES ASSUME g = g0 PROVE FALSE
          OBVIOUS
        <5>1. np[q] = p
          BY <1>2, <4>2
        <5>2. CallInv(q) /\ op[q] \in Ops
          BY <1>1, Types
        <5> QED
          BY <1>3, <2>3, <3>4, <5>1, <5>2 DEF CallInv
      <4>4. Mapped(g)' = {np[q]}
        BY <1>2, <4>2, <4>3
      <4> QED
        BY <4>1, <4>4 DEF Mapped
    <3>5. pc[q] \in {"sub_load", "sub_store"} => Pa(q)' = Pa(q)
      BY <3>3 DEF Releasing
    <3>6. UseInv(q)
      BY <1>9
    <3> QED
      BY <1>3, <2>1, <3>1, <3>2, <3>4, <3>5, <3>6 DEF UseInv
  <2> QED
    BY <2>2, <2>3
<1>12. ASSUME NEW q \in Procs PROVE MemoryInv(q)'
  <2>1. CASE q = c
    BY <1>2, <1>5, <1>6, <1>7, <1>8, <1>9, <2>1, <1>3 DEF MemoryInv, CallInv
  <2>2. CASE q = p
    <3>1. content[g0] = image[p]
      BY <1>2, <1>3, <1>9, Nones DEF MemoryInv, g0
    <3> QED
      BY <1>3, <1>5, <1>7, <2>2, <3>1 DEF MemoryInv
  <2>3. CASE q # p /\ q # c
    <3>1. pc'[q] = pc[q] /\ op'[q] = op[q] /\ np'[q] = np[q] /\ mem'[q] = mem[q] /\ pte'[q] = pte[q]
          /\ state'[q] = state[q]
      BY <1>3, <1>6, <1>7, <1>8, <2>3
    <3>2. ASSUME pte[q].page # None, ~pte[q].cow PROVE (Mapped(pte[q].page))' = {q}
      <4>1. PICK g \in Pages : g = pte[q].page /\ g = pte'[q].page
        BY <1>1, <3>1, <3>2, Types
      <4>2. Mapped(g) = {q}
        BY <1>9, <3>2, <4>1 DEF MemoryInv
      <4>3. Mapped(g)' = {q}
        BY <1>2, <2>3, <4>2
      <4> QED
        BY <4>1, <4>3 DEF Mapped
    <3> QED
      BY <1>3, <1>9, <3>1, <3>2 DEF MemoryInv
  <2> QED
    BY <2>1, <2>2, <2>3
<1> QED
  BY <1>10, <1>11, <1>12

(* add_rc() stores: the child's mapping is counted. *)
LEMMA IncStoreGood ==
  ASSUME Good, NEW p \in Procs, IncStore(p)
  PROVE  /\ \A g \in Pages : PageInv(g)'
         /\ \A q \in Procs : UseInv(q)' /\ MemoryInv(q)'
<1> DEFINE g0 == pte[p].page
           c == np[p]
<1>1. Base /\ LocalsOK /\ MemoryOK /\ CallInv(p) /\ UseInv(p)
  BY TypeIs DEF Good, Base
<1>2. pc[p] = "inc_store" /\ UNCHANGED <<freelist, content, pte, state, op, np, mem, reg, image>>
  BY DEF IncStore, At, memory, locals
<1>3. op[p] = "fork" /\ state[p] = "live" /\ pte[c] = pte[p] /\ c \in Procs /\ state[c] = "embryo" /\ c # p
      /\ pte[p].cow
  BY <1>1, <1>2, Types DEF CallInv, Counting
<1>4. g0 \in Pages
  BY <1>1, <1>3, Types DEF CallInv
<1>5. reference_count'[g0] = reference_count[g0] + 1
      /\ \A g \in Pages \ {g0} : reference_count'[g] = reference_count[g]
  BY <1>1, <1>2, <1>4 DEF IncStore, Count, UseInv, MemoryOK
<1>6. pc'[p] = "mapped" /\ \A r \in Procs \ {p} : pc'[r] = pc[r]
  BY <1>1 DEF IncStore, Goto, LocalsOK
<1>7. \A q \in Procs : CallInv(q) /\ MemoryInv(q) /\ UseInv(q)
  BY DEF Good, Base
<1>8. \A g \in Pages : Mapped(g)' = Mapped(g) /\ Gotten(g)' = Gotten(g)
  BY <1>2 DEF Mapped, Gotten
<1>9. \A q \in Procs : Pa(q)' = Pa(q)
  BY <1>2 DEF Pa
<1>10. ASSUME NEW g \in Pages PROVE Counted(g)' = IF g = g0 THEN Counted(g) \cup {c} ELSE Counted(g)
  <2>1. c \in Mapped(g) <=> g = g0
    BY <1>3 DEF Mapped
  <2>2. \A q \in Procs : pc'[q] \in Counting => np'[q] # c
    BY <1>1, <1>2, <1>6, NpOnce DEF Counting
  <2>3. \A r \in Procs \ {c} : (\A q \in Procs : pc'[q] \in Counting => np'[q] # r)
                                <=> (\A q \in Procs : pc[q] \in Counting => np[q] # r)
    BY <1>2, <1>6 DEF Counting
  <2>4. \A r \in Procs \ {c} : r \in Counted(g)' <=> r \in Counted(g)
    BY <1>8, <2>3 DEF Counted
  <2>5. c \in Counted(g)' <=> g = g0
    BY <1>8, <2>1, <2>2 DEF Counted
  <2>6. c \notin Counted(g)
    BY <1>2, <1>3 DEF Counted, Counting
  <2>7. Counted(g)' \subseteq Procs /\ Counted(g) \subseteq Procs
    BY DEF Counted, Mapped
  <2> QED
    BY <1>3, <2>4, <2>5, <2>6, <2>7
<1>11. c \notin Counted(g0)
  BY <1>2, <1>3 DEF Counted, Counting
<1> HIDE DEF g0, c
<1>12. ASSUME NEW g \in Pages PROVE PageInv(g)'
  <2>1. PageInv(g)
    BY DEF Good
  <2>2. \A q \in Procs : (pc'[q] = "clear" /\ Pa(q)' = g) <=> (pc[q] = "clear" /\ Pa(q) = g)
    BY <1>2, <1>6, <1>9
  <2>3. Gotten(g)' = {} => reference_count'[g] = Cardinality(Counted(g)')
    <3>1. CASE g = g0
      <4>1. IsFiniteSet(Counted(g0)) /\ Cardinality(Counted(g0)) \in Nat
        BY <1>1, <1>4, SetsAre
      <4>2. Cardinality(Counted(g0) \cup {c}) = Cardinality(Counted(g0)) + 1
        BY <1>11, <4>1, FS_AddElement
      <4> QED
        BY <1>5, <1>8, <1>10, <2>1, <3>1, <4>2 DEF PageInv
    <3>2. CASE g # g0
      BY <1>5, <1>8, <1>10, <2>1, <3>2 DEF PageInv
    <3> QED
      BY <3>1, <3>2
  <2> QED
    BY <1>2, <1>8, <2>1, <2>2, <2>3 DEF PageInv
<1>13. ASSUME NEW q \in Procs PROVE UseInv(q)'
  <2>1. ASSUME mem[q] # None
        PROVE  /\ mem[q] \in Pages /\ (Mapped(mem[q]))' = {} /\ (Gotten(mem[q]))' = {q}
               /\ pc'[q] # "init" => reference_count'[mem[q]] = 1
    <3>1. mem[q] \in Pages /\ Mapped(mem[q]) = {} /\ Gotten(mem[q]) = {q}
      BY <1>1, <1>7, <2>1, Types DEF UseInv
    <3>2. mem[q] # g0
      BY <3>1 DEF Mapped, g0
    <3>3. (Mapped(mem[q]))' = {} /\ (Gotten(mem[q]))' = {q}
      BY <1>2, <3>1 DEF Mapped, Gotten
    <3>4. pc'[q] # "init" => pc[q] # "init"
      BY <1>2, <1>6
    <3> QED
      BY <1>5, <1>7, <2>1, <3>1, <3>2, <3>3, <3>4 DEF UseInv
  <2>2. CASE q = p
    BY <1>2, <1>6, <2>1, <2>2 DEF UseInv
  <2>3. CASE q # p
    <3>1. pc'[q] = pc[q]
      BY <1>6, <2>3
    <3>2. Using(p) = g0 /\ g0 # None
      BY <1>2, <1>4, UsingIs, Nones DEF g0
    <3>3. Using(q) # g0
      BY <2>3, <3>2, Alone DEF Good
    <3>4. pc[q] = "inc_store" => reference_count'[pte[q].page] = reference_count[pte[q].page]
      <4> SUFFICES ASSUME pc[q] = "inc_store" PROVE pte[q].page \in Pages \ {g0}
        BY <1>5
      <4>1. pte[q].page # g0
        BY <3>3, UsingIs
      <4>2. pte[q].page \in Pages
        BY <1>7, <1>1, Types DEF CallInv, Counting
      <4> QED
        BY <4>1, <4>2
    <3>5. pc[q] \in Releasing => Pa(q) \in Pages \ {g0}
      BY <1>1, <3>3, UsingIs, PaIs
    <3>6. pc[q] \in {"sub_load", "sub_store"} => reference_count'[Pa(q)] = reference_count[Pa(q)]
      BY <1>5, <3>5 DEF Releasing
    <3>7. pc[q] \in {"push", "clear"} => (Mapped(Pa(q)))' = Mapped(Pa(q))
      BY <1>2, <1>9 DEF Mapped
    <3> QED
      BY <1>2, <1>7, <1>9, <2>1, <3>1, <3>4, <3>6, <3>7 DEF UseInv
  <2> QED
    BY <2>2, <2>3
<1>14. ASSUME NEW q \in Procs PROVE MemoryInv(q)'
  <2>1. (Mapped(pte[q].page))' = Mapped(pte[q].page)
    BY <1>2 DEF Mapped
  <2>2. q = p => op[q] # "fault"
    BY <1>3
  <2> QED
    BY <1>2, <1>6, <1>7, <2>1, <2>2 DEF MemoryInv
<1> QED
  BY <1>12, <1>13, <1>14

(* A page that somebody uses is not one kalloc() finds. *)
LEMMA PopSets ==
  ASSUME Good, NEW p \in Procs, Pop(p), ~Overlap', NEW g \in freelist, mem' = [mem EXCEPT ![p] = g]
  PROVE  /\ g \in Pages /\ Mapped(g) = {} /\ Gotten(g) = {} /\ mem[p] = None
         /\ \A q \in Procs \ {p} : Pa(q)' = Pa(q)
         /\ \A q \in Procs : pc[q] = "clear" => Pa(q) # g
<1>1. Base /\ LocalsOK /\ MemoryOK /\ CallInv(p) /\ PageInv(g) /\ g \in Pages
  BY TypeIs DEF Good, Base, MemoryOK
<1>2. pc[p] = "pop" /\ Goto(p, "init") /\ UNCHANGED <<pte, op, np>>
  BY DEF Pop, At
<1>3. pc'[p] = "init" /\ mem'[p] = g /\ \A r \in Procs \ {p} : pc'[r] = pc[r] /\ mem'[r] = mem[r]
  BY <1>1, <1>2 DEF Goto, LocalsOK
<1>4. mem[p] = None
  BY <1>1, <1>2 DEF CallInv, Releasing
<1>5. \A q \in Procs \ {p} : Pa(q)' = Pa(q)
  BY <1>2, <1>3 DEF Pa
<1>6. ASSUME NEW q \in Procs, pc[q] = "clear", Pa(q) = g PROVE FALSE
  <2>1. q # p /\ pc'[q] = "clear" /\ Pa(q)' = g
    BY <1>2, <1>3, <1>5, <1>6
  <2>2. Using(q)' = g /\ Using(p)' = g /\ g # None
    BY <1>1, <1>3, <2>1, Nones DEF Using, At
  <2> QED
    BY <2>1, <2>2 DEF Overlap
<1> QED
  BY <1>1, <1>4, <1>5, <1>6 DEF PageInv

LEMMA PopGood ==
  ASSUME Good, NEW p \in Procs, Pop(p), ~Overlap'
  PROVE  /\ \A g \in Pages : PageInv(g)'
         /\ \A q \in Procs : UseInv(q)' /\ MemoryInv(q)'
<1>1. Base /\ LocalsOK /\ MemoryOK
  BY TypeIs DEF Good, Base
<1>2. PICK g0 \in freelist : freelist' = freelist \ {g0} /\ mem' = [mem EXCEPT ![p] = g0]
  BY DEF Pop
<1>3. /\ g0 \in Pages /\ Mapped(g0) = {} /\ Gotten(g0) = {} /\ mem[p] = None
      /\ \A q \in Procs \ {p} : Pa(q)' = Pa(q)
      /\ \A q \in Procs : pc[q] = "clear" => Pa(q) # g0
  BY <1>2, PopSets
<1>4. pc[p] = "pop" /\ UNCHANGED <<content, pte, reference_count, state, op, np, reg, image>>
  BY DEF Pop, At
<1>5. pc'[p] = "init" /\ mem'[p] = g0 /\ \A r \in Procs \ {p} : pc'[r] = pc[r] /\ mem'[r] = mem[r]
  BY <1>1, <1>2 DEF Pop, Goto, LocalsOK
<1>6. \A q \in Procs : MemoryInv(q) /\ UseInv(q)
  BY DEF Good
<1>7. ASSUME NEW g \in Pages
      PROVE  /\ Mapped(g)' = Mapped(g) /\ Counted(g)' = Counted(g)
             /\ Gotten(g)' = IF g = g0 THEN {p} ELSE Gotten(g)
  <2>1. Mapped(g)' = Mapped(g)
    BY <1>4 DEF Mapped
  <2>2. \A q \in Procs : pc'[q] \in Counting <=> pc[q] \in Counting
    BY <1>4, <1>5 DEF Counting
  <2>3. Counted(g)' = Counted(g)
    BY <1>4, <2>1, <2>2 DEF Counted
  <2>4. Gotten(g)' = IF g = g0 THEN {p} ELSE Gotten(g)
    BY <1>3, <1>5, Nones DEF Gotten
  <2> QED
    BY <2>1, <2>3, <2>4
<1>8. ASSUME NEW g \in Pages PROVE PageInv(g)'
  <2>1. PageInv(g)
    BY DEF Good
  <2>2. \A q \in Procs : (pc'[q] = "clear" /\ Pa(q)' = g) <=> (pc[q] = "clear" /\ Pa(q) = g)
    BY <1>3, <1>4, <1>5
  <2>3. Gotten(g)' = {} => reference_count'[g] = Cardinality(Counted(g)')
    BY <1>4, <1>7, <2>1 DEF PageInv
  <2>4. g \in freelist' <=> \/ Mapped(g)' = {} /\ Gotten(g)' = {}
                            \/ \E q \in Procs : pc'[q] = "clear" /\ Pa(q)' = g
    <3>1. CASE g = g0
      <4>1. g \notin freelist' /\ Gotten(g)' # {}
        BY <1>2, <1>7, <3>1
      <4> QED
        BY <1>3, <2>2, <3>1, <4>1
    <3>2. CASE g # g0
      BY <1>2, <1>7, <2>1, <2>2, <3>2 DEF PageInv
    <3> QED
      BY <3>1, <3>2
  <2> QED
    BY <2>3, <2>4 DEF PageInv
<1>9. ASSUME NEW q \in Procs PROVE UseInv(q)'
  <2>1. CASE q = p
    <3>1. Mapped(g0)' = {} /\ Gotten(g0)' = {p}
      BY <1>3, <1>7
    <3>2. (Mapped(mem[p]))' = {} /\ (Gotten(mem[p]))' = {p}
      BY <1>5, <3>1 DEF Mapped, Gotten
    <3> QED
      BY <1>5, <2>1, <3>2 DEF UseInv
  <2>2. CASE q # p
    <3>1. pc'[q] = pc[q] /\ mem'[q] = mem[q] /\ Pa(q)' = Pa(q)
      BY <1>3, <1>5, <2>2
    <3>2. mem[q] # None => (Mapped(mem[q]))' = {} /\ (Gotten(mem[q]))' = {q}
      <4> SUFFICES ASSUME mem[q] # None PROVE (Mapped(mem[q]))' = {} /\ (Gotten(mem[q]))' = {q}
        OBVIOUS
      <4>1. PICK g \in Pages : g = mem[q] /\ g = mem'[q]
        BY <1>1, <3>1, Types
      <4>2. Mapped(g) = {} /\ Gotten(g) = {q}
        BY <1>6, <4>1 DEF UseInv
      <4>3. Mapped(g)' = {} /\ Gotten(g)' = {q}
        BY <1>3, <1>7, <4>2
      <4> QED
        BY <4>1, <4>3 DEF Mapped, Gotten
    <3>3. (Mapped(Pa(q)))' = Mapped(Pa(q))
      BY <1>4, <3>1 DEF Mapped
    <3> QED
      BY <1>4, <1>6, <3>1, <3>2, <3>3 DEF UseInv
  <2> QED
    BY <2>1, <2>2
<1>10. ASSUME NEW q \in Procs PROVE MemoryInv(q)'
  <2>1. (Mapped(pte[q].page))' = Mapped(pte[q].page)
    BY <1>4 DEF Mapped
  <2> QED
    BY <1>4, <1>5, <1>6, <2>1 DEF MemoryInv, Releasing
<1> QED
  BY <1>8, <1>9, <1>10

(* kalloc() fills its page and sets its count without the lock. *)
LEMMA InitPageGood ==
  ASSUME Good, NEW p \in Procs, InitPage(p)
  PROVE  /\ \A g \in Pages : PageInv(g)'
         /\ \A q \in Procs : UseInv(q)' /\ MemoryInv(q)'
<1>1. Base /\ LocalsOK /\ MemoryOK /\ CallInv(p)
  BY TypeIs DEF Good, Base
<1>2. pc[p] = "init" /\ UNCHANGED <<freelist, pte, state, op, np, mem, reg, image>>
  BY DEF InitPage, At, locals
<1>3. PICK g0 \in Pages : g0 = mem[p]
  BY <1>1, <1>2, Types DEF CallInv
<1>4. Mapped(g0) = {} /\ Gotten(g0) = {p}
  BY <1>3, Nones DEF Good, UseInv
<1>5. /\ reference_count'[g0] = 1
      /\ \A g \in Pages \ {g0} : reference_count'[g] = reference_count[g] /\ content'[g] = content[g]
  BY <1>1, <1>3 DEF InitPage, Count, MemoryOK
<1>6. pc'[p] = "fill" /\ \A r \in Procs \ {p} : pc'[r] = pc[r]
  BY <1>1 DEF InitPage, Goto, LocalsOK
<1>7. \A q \in Procs : MemoryInv(q) /\ UseInv(q) /\ CallInv(q)
  BY DEF Good, Base
<1>8. \A q \in Procs : Pa(q)' = Pa(q)
  BY <1>2 DEF Pa
<1>9. \A g \in Pages : Mapped(g)' = Mapped(g) /\ Gotten(g)' = Gotten(g) /\ Counted(g)' = Counted(g)
  <2>1. \A q \in Procs : pc'[q] \in Counting <=> pc[q] \in Counting
    BY <1>2, <1>6 DEF Counting
  <2> QED
    BY <1>2, <2>1 DEF Mapped, Gotten, Counted
<1>10. ASSUME NEW g \in Pages PROVE PageInv(g)'
  <2>1. PageInv(g)
    BY DEF Good
  <2>2. \A q \in Procs : (pc'[q] = "clear" /\ Pa(q)' = g) <=> (pc[q] = "clear" /\ Pa(q) = g)
    BY <1>2, <1>6, <1>8
  <2>3. Gotten(g)' = {} => reference_count'[g] = Cardinality(Counted(g)')
    BY <1>4, <1>5, <1>9, <2>1 DEF PageInv
  <2> QED
    BY <1>2, <1>9, <2>1, <2>2, <2>3 DEF PageInv
<1>11. ASSUME NEW q \in Procs PROVE UseInv(q)'
  <2>1. ASSUME mem[q] # None
        PROVE  /\ mem[q] \in Pages /\ (Mapped(mem[q]))' = {} /\ (Gotten(mem[q]))' = {q}
               /\ pc'[q] # "init" => reference_count'[mem[q]] = 1
    <3>1. mem[q] \in Pages /\ Mapped(mem[q]) = {} /\ Gotten(mem[q]) = {q}
      BY <1>1, <1>7, <2>1, Types DEF UseInv
    <3>2. (Mapped(mem[q]))' = {} /\ (Gotten(mem[q]))' = {q}
      BY <1>2, <3>1 DEF Mapped, Gotten
    <3>3. CASE q = p
      BY <1>3, <1>5, <3>1, <3>2, <3>3
    <3>4. CASE q # p
      <4>1. mem[q] # g0 /\ pc'[q] = pc[q]
        BY <1>4, <1>6, <3>1, <3>4
      <4> QED
        BY <1>5, <1>7, <2>1, <3>1, <3>2, <4>1 DEF UseInv
    <3> QED
      BY <3>3, <3>4
  <2>2. CASE q = p
    BY <1>2, <1>6, <2>1, <2>2 DEF UseInv
  <2>3. CASE q # p
    <3>1. pc'[q] = pc[q]
      BY <1>6, <2>3
    <3>2. pc[q] = "inc_store" => reference_count'[pte[q].page] = reference_count[pte[q].page]
      <4> SUFFICES ASSUME pc[q] = "inc_store" PROVE pte[q].page \in Pages \ {g0}
        BY <1>5
      <4>1. q \in Mapped(pte[q].page)
        BY DEF Mapped
      <4>2. pte[q].page \in Pages
        BY <1>7, <1>1, Types DEF CallInv, Counting
      <4> QED
        BY <1>4, <4>1, <4>2
    <3>3. pc[q] \in Releasing => Pa(q) \in Pages \ {g0}
      BY <1>1, <1>3, <2>3, MemAlone, PaIs, Nones
    <3>4. pc[q] \in {"sub_load", "sub_store"} => reference_count'[Pa(q)] = reference_count[Pa(q)]
      BY <1>5, <3>3 DEF Releasing
    <3>5. pc[q] \in {"push", "clear"} => (Mapped(Pa(q)))' = Mapped(Pa(q))
      BY <1>2, <1>8 DEF Mapped
    <3> QED
      BY <1>2, <1>7, <1>8, <2>1, <3>1, <3>2, <3>4, <3>5 DEF UseInv
  <2> QED
    BY <2>2, <2>3
<1>12. ASSUME NEW q \in Procs PROVE MemoryInv(q)'
  <2>1. (Mapped(pte[q].page))' = Mapped(pte[q].page)
    BY <1>2 DEF Mapped
  <2>2. pte[q].page # None => content'[pte[q].page] = content[pte[q].page]
    <3>1. pte[q].page # g0 /\ pte[q].page \in Pages \cup {None}
      BY <1>1, <1>4, Types DEF Mapped
    <3> QED
      BY <1>5, <3>1
  <2>3. q # p /\ mem[q] # None => content'[mem[q]] = content[mem[q]]
    <3>1. q # p => mem[q] # g0
      BY <1>4 DEF Gotten
    <3> QED
      BY <1>1, <1>5, <3>1, Types
  <2>4. op[q] = "fault" /\ pc[q] \in Releasing \cup {"test"} => mem[q] # None
    BY <1>7 DEF CallInv
  <2> QED
    BY <1>2, <1>6, <1>7, <2>1, <2>2, <2>3, <2>4 DEF MemoryInv, Releasing
<1> QED
  BY <1>10, <1>11, <1>12

(* The freed page is on the list, its count not cleared yet. *)
LEMMA PushGood ==
  ASSUME Good, NEW p \in Procs, Push(p)
  PROVE  /\ \A g \in Pages : PageInv(g)'
         /\ \A q \in Procs : UseInv(q)' /\ MemoryInv(q)'
<1>1. Base /\ LocalsOK /\ MemoryOK
  BY TypeIs DEF Good, Base
<1>2. pc[p] = "push" /\ UNCHANGED <<content, pte, reference_count, state, op, np, mem, reg, image>>
      /\ freelist' = freelist \cup {Pa(p)}
  BY DEF Push, At, locals
<1>3. pc'[p] = "clear" /\ \A r \in Procs \ {p} : pc'[r] = pc[r]
  BY <1>1 DEF Push, Goto, LocalsOK
<1>4. \A q \in Procs : MemoryInv(q) /\ UseInv(q)
  BY DEF Good
<1>5. \A q \in Procs : Pa(q)' = Pa(q)
  BY <1>2 DEF Pa
<1>6. \A g \in Pages : Mapped(g)' = Mapped(g) /\ Gotten(g)' = Gotten(g) /\ Counted(g)' = Counted(g)
  <2>1. \A q \in Procs : pc'[q] \in Counting <=> pc[q] \in Counting
    BY <1>2, <1>3 DEF Counting
  <2> QED
    BY <1>2, <2>1 DEF Mapped, Gotten, Counted
<1>7. ASSUME NEW g \in Pages PROVE PageInv(g)'
  <2>1. PageInv(g)
    BY DEF Good
  <2>2. (\E q \in Procs : pc'[q] = "clear" /\ Pa(q)' = g)
          <=> g = Pa(p) \/ \E q \in Procs : pc[q] = "clear" /\ Pa(q) = g
    <3>1. \A q \in Procs \ {p} : pc'[q] = "clear" /\ Pa(q)' = g <=> pc[q] = "clear" /\ Pa(q) = g
      BY <1>3, <1>5
    <3>2. pc[p] # "clear" /\ (pc'[p] = "clear" /\ Pa(p)' = g <=> g = Pa(p))
      BY <1>2, <1>3, <1>5
    <3> QED
      BY <3>1, <3>2
  <2> QED
    BY <1>2, <1>6, <2>1, <2>2 DEF PageInv
<1>8. ASSUME NEW q \in Procs PROVE UseInv(q)'
  <2>1. (Mapped(mem[q]))' = Mapped(mem[q]) /\ (Gotten(mem[q]))' = Gotten(mem[q])
        /\ (Mapped(Pa(q)))' = Mapped(Pa(q))
    BY <1>2, <1>5 DEF Mapped, Gotten
  <2>2. UseInv(q)
    BY <1>4
  <2>3. pc'[q] = pc[q] \/ (pc[q] = "push" /\ pc'[q] = "clear")
    BY <1>2, <1>3
  <2> QED
    BY <1>2, <1>5, <2>1, <2>2, <2>3 DEF UseInv
<1>9. ASSUME NEW q \in Procs PROVE MemoryInv(q)'
  <2>1. (Mapped(pte[q].page))' = Mapped(pte[q].page)
    BY <1>2 DEF Mapped
  <2>2. pc'[q] = pc[q] \/ (pc[q] = "push" /\ pc'[q] = "clear")
    BY <1>2, <1>3
  <2>3. MemoryInv(q)
    BY <1>4
  <2> QED
    BY <1>2, <2>1, <2>2, <2>3 DEF MemoryInv, Releasing
<1> QED
  BY <1>7, <1>8, <1>9

(* uvmalloc() maps the page that kalloc() has given. *)
LEMMA FillGrownGood ==
  ASSUME Good, NEW p \in Procs, FillGrown(p)
  PROVE  /\ \A g \in Pages : PageInv(g)'
         /\ \A q \in Procs : UseInv(q)' /\ MemoryInv(q)'
<1>1. Base /\ LocalsOK /\ MemoryOK /\ StatesOK /\ CallInv(p) /\ UseInv(p) /\ Return(p)
  BY TypeIs DEF Good, Base, FillGrown
<1>2. pc[p] = "fill" /\ op[p] = "grow" /\ UNCHANGED <<freelist, reference_count, state>>
  BY DEF FillGrown, At
<1>3. PICK g0 \in Pages : g0 = mem[p]
  BY <1>1, <1>2, Types DEF CallInv
<1>4. Mapped(g0) = {} /\ Gotten(g0) = {p} /\ reference_count[g0] = 1
  BY <1>1, <1>2, <1>3, Nones DEF UseInv
<1>5. state[p] = "live" /\ np[p] = p /\ pte[p].page = None
  BY <1>1, <1>2 DEF CallInv, Unmapped
<1>6. /\ content'[g0] = Zero /\ \A g \in Pages \ {g0} : content'[g] = content[g]
      /\ image'[p] = Zero /\ \A r \in Procs \ {p} : image'[r] = image[r]
      /\ pte'[p] = [page |-> g0, cow |-> FALSE] /\ \A r \in Procs \ {p} : pte'[r] = pte[r]
  BY <1>1, <1>3 DEF FillGrown, Map, MemoryOK, StatesOK
<1>7. /\ pc'[p] = "user" /\ op'[p] = "none" /\ np'[p] = p /\ mem'[p] = None
      /\ \A r \in Procs \ {p} : pc'[r] = pc[r] /\ op'[r] = op[r] /\ np'[r] = np[r] /\ mem'[r] = mem[r]
  BY <1>1, ReturnIs
<1>8. \A r \in Procs \ {p} : reg'[r] = reg[r]
  BY <1>1 DEF Return, LocalsOK
<1>9. \A q \in Procs : MemoryInv(q) /\ UseInv(q) /\ CallInv(q)
  BY DEF Good, Base
<1>10. \A q \in Procs \ {p} : pc[q] # "user" => np[q] # p /\ Pa(q)' = Pa(q)
  <2> SUFFICES ASSUME NEW q \in Procs \ {p}, pc[q] # "user" PROVE np[q] # p /\ Pa(q)' = Pa(q)
    OBVIOUS
  <2>1. np[q] # p /\ np[q] \in Procs
    BY <1>1, <1>2, <1>5, NpOnce, Types
  <2> QED
    BY <1>6, <1>7, <2>1 DEF Pa
<1>11. ASSUME NEW g \in Pages
       PROVE  /\ Mapped(g)' = IF g = g0 THEN {p} ELSE Mapped(g)
              /\ Gotten(g)' = IF g = g0 THEN {} ELSE Gotten(g)
              /\ Counted(g)' = IF g = g0 THEN {p} ELSE Counted(g)
  <2>1. Mapped(g)' = IF g = g0 THEN {p} ELSE Mapped(g)
    BY <1>4, <1>5, <1>6, Nones DEF Mapped
  <2>2. Gotten(g)' = IF g = g0 THEN {} ELSE Gotten(g)
    BY <1>3, <1>4, <1>7, Nones DEF Gotten
  <2>3. \A q \in Procs : pc'[q] \in Counting <=> pc[q] \in Counting
    BY <1>2, <1>7 DEF Counting
  <2>4. \A q \in Procs : pc[q] \in Counting => np'[q] = np[q] /\ np[q] # p
    BY <1>2, <1>7, <1>10 DEF Counting
  <2>5. Counted(g)' = IF g = g0 THEN {p} ELSE Counted(g)
    BY <2>1, <2>3, <2>4 DEF Counted
  <2> QED
    BY <2>1, <2>2, <2>5
<1>12. ASSUME NEW q \in Procs, pc[q] \in Releasing PROVE Pa(q) \in Pages \ {g0} /\ Pa(q)' = Pa(q) /\ q # p
  <2>1. q # p
    BY <1>2, <1>12 DEF Releasing
  <2>2. Pa(q) \in Pages /\ Pa(q)' = Pa(q)
    BY <1>1, <1>10, <1>12, <2>1, PaIs DEF Releasing
  <2>3. Pa(q) # g0
    BY <1>3, <1>12, <2>1, MemAlone, Nones
  <2> QED
    BY <2>1, <2>2, <2>3
<1>13. ASSUME NEW g \in Pages PROVE PageInv(g)'
  <2>1. PageInv(g)
    BY DEF Good
  <2>2. \A q \in Procs : (pc'[q] = "clear" /\ Pa(q)' = g) <=> (pc[q] = "clear" /\ Pa(q) = g)
    BY <1>2, <1>7, <1>12 DEF Releasing
  <2>3. Gotten(g)' = {} => reference_count'[g] = Cardinality(Counted(g)')
    <3>1. Cardinality({p}) = 1
      BY FS_Singleton
    <3> QED
      BY <1>2, <1>4, <1>11, <2>1, <3>1 DEF PageInv
  <2>4. \A q \in Procs : pc[q] = "clear" => Pa(q) # g0
    BY <1>12 DEF Releasing
  <2>5. g \in freelist' <=> \/ Mapped(g)' = {} /\ Gotten(g)' = {}
                            \/ \E q \in Procs : pc'[q] = "clear" /\ Pa(q)' = g
    BY <1>2, <1>4, <1>11, <2>1, <2>2, <2>4 DEF PageInv
  <2> QED
    BY <2>3, <2>5 DEF PageInv
<1>14. ASSUME NEW q \in Procs PROVE UseInv(q)'
  <2>1. CASE q = p
    BY <1>7, <2>1 DEF UseInv
  <2>2. CASE q # p
    <3>1. pc'[q] = pc[q] /\ op'[q] = op[q] /\ np'[q] = np[q] /\ mem'[q] = mem[q] /\ reg'[q] = reg[q]
          /\ pte'[q] = pte[q]
      BY <1>6, <1>7, <1>8, <2>2
    <3>2. mem[q] # None => (Mapped(mem[q]))' = {} /\ (Gotten(mem[q]))' = {q}
      <4> SUFFICES ASSUME mem[q] # None PROVE (Mapped(mem[q]))' = {} /\ (Gotten(mem[q]))' = {q}
        OBVIOUS
      <4>1. PICK g \in Pages : g = mem[q] /\ g = mem'[q]
        BY <1>1, <3>1, Types
      <4>2. Mapped(g) = {} /\ Gotten(g) = {q}
        BY <1>9, <4>1 DEF UseInv
      <4>3. Mapped(g)' = {} /\ Gotten(g)' = {q}
        BY <1>4, <1>11, <2>2, <4>2
      <4> QED
        BY <4>1, <4>3 DEF Mapped, Gotten
    <3>3. ASSUME pc[q] \in {"push", "clear"}, op[q] # "grow" PROVE (Mapped(Pa(q)))' = {np[q]}
      <4>1. PICK g \in Pages : g = Pa(q) /\ g = Pa(q)' /\ g # g0
        BY <1>12, <3>3 DEF Releasing
      <4>2. Mapped(g) = {np[q]}
        BY <1>9, <3>3, <4>1 DEF UseInv
      <4>3. Mapped(g)' = {np[q]}
        BY <1>11, <4>1, <4>2
      <4> QED
        BY <4>1, <4>3 DEF Mapped
    <3>4. pc[q] \in {"sub_load", "sub_store"} => Pa(q)' = Pa(q)
      BY <1>12 DEF Releasing
    <3>5. UseInv(q)
      BY <1>9
    <3> QED
      BY <1>2, <3>1, <3>2, <3>3, <3>4, <3>5 DEF UseInv
  <2> QED
    BY <2>1, <2>2
<1>15. ASSUME NEW q \in Procs PROVE MemoryInv(q)'
  <2>1. CASE q = p
    <3>1. Mapped(g0)' = {p}
      BY <1>11
    <3>2. (Mapped(pte[p].page))' = {p}
      BY <1>6, <3>1 DEF Mapped
    <3> QED
      BY <1>6, <1>7, <2>1, <3>2 DEF MemoryInv
  <2>2. CASE q # p
    <3>1. pc'[q] = pc[q] /\ op'[q] = op[q] /\ np'[q] = np[q] /\ mem'[q] = mem[q]
          /\ pte'[q] = pte[q] /\ image'[q] = image[q]
      BY <1>6, <1>7, <2>2
    <3>2. pte[q].page # g0 /\ mem[q] # g0
      BY <1>4, <2>2 DEF Mapped, Gotten
    <3>3. pte[q].page \in Pages \cup {None} /\ mem[q] \in Pages \cup {None}
      BY <1>1, Types
    <3>4. pte[q].page # None => content'[pte[q].page] = content[pte[q].page]
      BY <1>6, <3>2, <3>3
    <3>5. op[q] = "fault" /\ pc[q] \in Releasing \cup {"test"} => content'[mem[q]] = content[mem[q]]
      BY <1>6, <1>9, <3>2, <3>3 DEF CallInv
    <3>6. pte[q].page # None => (Mapped(pte[q].page))' = Mapped(pte[q].page)
      <4> SUFFICES ASSUME pte[q].page # None PROVE (Mapped(pte[q].page))' = Mapped(pte[q].page)
        OBVIOUS
      <4>1. PICK g \in Pages : g = pte[q].page /\ g = pte'[q].page /\ g # g0
        BY <3>1, <3>2, <3>3
      <4>2. Mapped(g)' = Mapped(g)
        BY <1>11, <4>1
      <4> QED
        BY <4>1, <4>2 DEF Mapped
    <3>7. MemoryInv(q)
      BY <1>9
    <3> QED
      BY <1>2, <3>1, <3>4, <3>5, <3>6, <3>7 DEF MemoryInv
  <2> QED
    BY <2>1, <2>2
<1> QED
  BY <1>13, <1>14, <1>15

-----------------------------------------------------------------------------
(* kfree() is done with the page, and its caller with the mapping.         *)

Unmapping(p) == pc[p] \in {"sub_store", "clear"} /\ Unmap(p)

LEMMA UnmapHas ==
  ASSUME Good, NEW p \in Procs, Unmapping(p)
  PROVE  /\ Pa(p) \in Pages /\ np[p] \in Procs /\ state[p] = "live"
         /\ op[p] \notin {"fork", "reap"} => np[p] = p
         /\ op[p] \in {"fork", "reap"} => np[p] # p /\ state[np[p]] # "live"
         /\ op[p] = "grow" => /\ pc[p] = "clear" /\ Mapped(Pa(p)) = {} /\ Gotten(Pa(p)) = {p}
                              /\ mem[p] = Pa(p) /\ pte[p].page = None
         /\ op[p] # "grow" => np[p] \in Counted(Pa(p)) /\ pte[np[p]].page = Pa(p)
         /\ op[p] = "fault" => /\ mem[p] \in Pages /\ mem[p] # Pa(p) /\ reference_count[mem[p]] = 1
                               /\ Mapped(mem[p]) = {} /\ Gotten(mem[p]) = {p}
         /\ op[p] \notin {"fault", "grow"} => mem[p] = None
<1>1. Base /\ CallInv(p) /\ UseInv(p) /\ pc[p] \in Releasing
  BY DEF Good, Base, Unmapping, Releasing
<1>2. Pa(p) \in Pages /\ np[p] \in Procs /\ op[p] \in {"fork", "fault", "grow", "shrink", "reap"}
      /\ (op[p] = "grow" => Pa(p) = mem[p]) /\ (op[p] # "grow" => Pa(p) = pte[np[p]].page)
  BY <1>1, PaIs
<1>3. state[p] = "live" /\ pc[p] # "user" /\ pc[p] # "init"
  BY <1>1 DEF CallInv, Releasing
<1>4. op[p] \notin {"fork", "reap"} => np[p] = p
  BY <1>1 DEF CallInv
<1>5. op[p] \in {"fork", "reap"} => np[p] # p /\ state[np[p]] # "live"
  BY <1>1, <1>3 DEF CallInv
<1>6. mem[p] # None <=> op[p] \in {"fault", "grow"}
  BY <1>1 DEF CallInv
<1>7. mem[p] # None => /\ Mapped(mem[p]) = {} /\ Gotten(mem[p]) = {p} /\ reference_count[mem[p]] = 1
                       /\ mem[p] \in Pages
  BY <1>1, <1>3, Types DEF UseInv
<1>8. op[p] = "grow" => pc[p] = "clear"
  <2> SUFFICES ASSUME op[p] = "grow", pc[p] = "sub_store" PROVE FALSE
    BY DEF Unmapping
  <2>1. reference_count[Pa(p)] > 1 /\ reference_count[Pa(p)] = 1
    BY <1>1, <1>2, <1>6, <1>7 DEF UseInv
  <2> QED
    BY <2>1
<1>9. op[p] = "grow" => pte[p].page = None
  BY <1>1 DEF CallInv, Unmapped
<1>10. op[p] # "grow" => np[p] \in Counted(Pa(p))
  BY <1>1, GivesCounted
<1>11. op[p] = "fault" => mem[p] # Pa(p)
  <2> SUFFICES ASSUME op[p] = "fault", mem[p] = Pa(p) PROVE FALSE
    OBVIOUS
  <2>1. np[p] \in Mapped(Pa(p)) /\ Mapped(Pa(p)) = {}
    BY <1>2, <1>6, <1>7 DEF Mapped
  <2> QED
    BY <2>1
<1> QED
  BY <1>2, <1>3, <1>4, <1>5, <1>6, <1>7, <1>8, <1>9, <1>10, <1>11

LEMMA UnmapOthers ==
  ASSUME Good, NEW p \in Procs, Unmapping(p), NEW q \in Procs, q # p
  PROVE  /\ pc'[q] = pc[q] /\ op'[q] = op[q] /\ np'[q] = np[q] /\ mem'[q] = mem[q] /\ reg'[q] = reg[q]
         /\ q # np[p] => pte'[q] = pte[q] /\ state'[q] = state[q]
         /\ pc[q] # "user" => np[q] # np[p] /\ q # np[p]
         /\ pc[q] \in Releasing => /\ Pa(q)' = Pa(q)
                                   /\ Pa(q) \in Pages \ {Pa(p), mem[p]}
<1>1. Base /\ LocalsOK /\ MemoryOK /\ StatesOK /\ CallInv(p) /\ CallInv(q)
  BY TypeIs DEF Good, Base
<1>2. pc'[q] = pc[q] /\ op'[q] = op[q] /\ np'[q] = np[q] /\ mem'[q] = mem[q] /\ reg'[q] = reg[q]
  BY <1>1 DEF Unmapping, Unmap, Return, Goto, LocalsOK
<1>3. np[p] \in Procs /\ Pa(p) \in Pages /\ (op[p] = "fault" => np[p] = p) /\ (np[p] # p => state[np[p]] # "live")
  BY UnmapHas
<1>4. \A r \in Procs : r # np[p] => pte'[r] = pte[r] /\ state'[r] = state[r]
  <2>1. \A r \in Procs : r # np[p] => state'[r] = state[r]
    BY <1>1 DEF Unmapping, Unmap, StatesOK
  <2>2. \A r \in Procs : r # np[p] => pte'[r] = pte[r]
    <3>1. CASE op[p] = "fault"
      BY <1>1, <1>3, <3>1 DEF Unmapping, Unmap, MemoryOK
    <3>2. CASE op[p] # "fault"
      BY <1>1, <3>2 DEF Unmapping, Unmap, MemoryOK
    <3> QED
      BY <3>1, <3>2
  <2> QED
    BY <2>1, <2>2
<1>5. pc[q] # "user" => np[q] # np[p] /\ q # np[p]
  <2> SUFFICES ASSUME pc[q] # "user" PROVE np[q] # np[p] /\ q # np[p]
    OBVIOUS
  <2>1. np[q] # np[p]
    BY <1>1, NpOnce DEF Unmapping
  <2>2. state[q] = "live"
    BY <1>1 DEF CallInv
  <2> QED
    BY <1>3, <2>1, <2>2
<1>6. ASSUME pc[q] \in Releasing PROVE Pa(q)' = Pa(q) /\ Pa(q) \in Pages \ {Pa(p), mem[p]}
  <2>1. np[q] # np[p] /\ np[q] \in Procs /\ Pa(q) \in Pages
    BY <1>1, <1>5, <1>6, PaIs DEF Releasing
  <2>2. Pa(q)' = Pa(q)
    BY <1>2, <1>4, <2>1 DEF Pa
  <2>3. Pa(q) # Pa(p)
    <3>1. Using(q) = Pa(q) /\ Using(p) = Pa(p)
      BY <1>6, UsingIs DEF Unmapping, Releasing
    <3> QED
      BY <1>3, <3>1, Alone, Nones DEF Good
  <2>4. Pa(q) # mem[p]
    BY <1>6, <2>1, MemAlone, Nones
  <2> QED
    BY <2>1, <2>2, <2>3, <2>4
<1> QED
  BY <1>2, <1>4, <1>5, <1>6

LEMMA UnmapSets ==
  ASSUME Good, NEW p \in Procs, Unmapping(p), NEW g \in Pages
  PROVE  /\ Gotten(g)' = IF g = mem[p] THEN {} ELSE Gotten(g)
         /\ Mapped(g)' = IF op[p] = "fault" /\ g = mem[p] THEN {p}
                         ELSE IF g = Pa(p) THEN Mapped(g) \ {np[p]} ELSE Mapped(g)
         /\ Counted(g)' = IF op[p] = "fault" /\ g = mem[p] THEN {p}
                          ELSE IF g = Pa(p) THEN Counted(g) \ {np[p]} ELSE Counted(g)
<1> DEFINE c == np[p]
<1>1. /\ Pa(p) \in Pages /\ c \in Procs
      /\ op[p] \notin {"fork", "reap"} => c = p
      /\ op[p] = "grow" => Mapped(Pa(p)) = {} /\ Gotten(Pa(p)) = {p} /\ mem[p] = Pa(p) /\ pte[p].page = None
      /\ op[p] # "grow" => c \in Counted(Pa(p)) /\ pte[c].page = Pa(p)
      /\ op[p] = "fault" => mem[p] \in Pages /\ mem[p] # Pa(p) /\ Mapped(mem[p]) = {} /\ Gotten(mem[p]) = {p}
      /\ op[p] \notin {"fault", "grow"} => mem[p] = None
  BY UnmapHas
<1>2. \A q \in Procs \ {p} : /\ pc'[q] = pc[q] /\ np'[q] = np[q] /\ mem'[q] = mem[q]
                             /\ q # c => pte'[q] = pte[q]
                             /\ pc[q] # "user" => np[q] # c
  BY UnmapOthers
<1>3. Base /\ MemoryOK /\ Return(p) /\ pc[p] \in Releasing /\ p \in Procs
  BY TypeIs DEF Good, Base, Unmapping, Unmap, Releasing
<1>4. pc'[p] = "user" /\ mem'[p] = None
  BY <1>3, ReturnIs
<1>5. pte'[c].page = IF op[p] = "fault" THEN mem[p] ELSE None
  <2>1. CASE op[p] = "fault"
    <3>1. pte' = [pte EXCEPT ![p] = [page |-> mem[p], cow |-> FALSE]]
      BY <2>1 DEF Unmapping, Unmap
    <3>2. pte'[p] = [page |-> mem[p], cow |-> FALSE]
      BY <1>3, <3>1 DEF MemoryOK
    <3> QED
      BY <1>1, <2>1, <3>2
  <2>2. CASE op[p] # "fault"
    <3>1. pte' = [pte EXCEPT ![c] = Unmapped]
      BY <2>2 DEF Unmapping, Unmap
    <3>2. pte'[c] = Unmapped
      BY <1>1, <1>3, <3>1 DEF MemoryOK
    <3> QED
      BY <2>2, <3>2 DEF Unmapped
  <2> QED
    BY <2>1, <2>2
<1>6. p # c => pte'[p] = pte[p]
  <2>1. p # c => op[p] # "fault"
    BY <1>1
  <2> QED
    BY <1>1, <1>3, <2>1 DEF Unmapping, Unmap, MemoryOK
<1>7. \A q \in Procs \ {c} : pte'[q].page = pte[q].page
  BY <1>2, <1>6
<1>8. g # None
  BY Nones
<1>9. Gotten(g)' = IF g = mem[p] THEN {} ELSE Gotten(g)
  <2>1. CASE g = mem[p]
    <3>1. Gotten(g) = {p}
      BY <1>1, <1>8, <2>1
    <3> QED
      BY <1>2, <1>4, <1>8, <2>1, <3>1 DEF Gotten
  <2>2. CASE g # mem[p]
    BY <1>2, <1>4, <1>8, <2>2 DEF Gotten
  <2> QED
    BY <2>1, <2>2
<1> HIDE DEF c
<1>10. c \in Mapped(g) => g = Pa(p)
  BY <1>1, <1>8 DEF Mapped
<1>11. Mapped(g)' = IF op[p] = "fault" /\ g = mem[p] THEN {p}
                    ELSE IF g = Pa(p) THEN Mapped(g) \ {c} ELSE Mapped(g)
  <2>1. \A q \in Procs \ {c} : q \in Mapped(g)' <=> q \in Mapped(g)
    BY <1>7 DEF Mapped
  <2>2. c \in Mapped(g)' <=> op[p] = "fault" /\ g = mem[p]
    BY <1>1, <1>5, <1>8 DEF Mapped
  <2>3. Mapped(g)' \subseteq Procs /\ Mapped(g) \subseteq Procs
    BY DEF Mapped
  <2>4. CASE op[p] = "fault" /\ g = mem[p]
    BY <1>1, <2>1, <2>2, <2>3, <2>4
  <2>5. CASE ~(op[p] = "fault" /\ g = mem[p])
    BY <1>1, <1>10, <2>1, <2>2, <2>3, <2>5
  <2> QED
    BY <2>4, <2>5
<1>12. \A r \in Procs : (\A q \in Procs : pc'[q] \in Counting => np'[q] # r)
                         <=> (\A q \in Procs : pc[q] \in Counting => np[q] # r)
  <2>1. pc[p] \notin Counting /\ pc'[p] \notin Counting
    BY <1>3, <1>4 DEF Counting, Releasing
  <2> QED
    BY <1>2, <2>1
<1>13. Counted(g)' = IF op[p] = "fault" /\ g = mem[p] THEN {p}
                     ELSE IF g = Pa(p) THEN Counted(g) \ {c} ELSE Counted(g)
  <2>1. \A q \in Mapped(g)' : q \in Counted(g)' <=> \A r \in Procs : pc[r] \in Counting => np[r] # q
    BY <1>11, <1>12 DEF Counted, Mapped
  <2>2. Counted(g)' \subseteq Mapped(g)' /\ Counted(g) \subseteq Mapped(g)
    BY DEF Counted
  <2>3. \A q \in Mapped(g) : q \in Counted(g) <=> \A r \in Procs : pc[r] \in Counting => np[r] # q
    BY DEF Counted
  <2>4. CASE op[p] = "fault" /\ g = mem[p]
    <3>1. c = p /\ Mapped(g)' = {p}
      BY <1>1, <1>11, <2>4
    <3>2. \A r \in Procs : pc[r] \in Counting => np[r] # p
      BY <1>2, <1>3, <3>1 DEF Counting, Releasing
    <3> QED
      BY <2>1, <2>2, <2>4, <3>1, <3>2
  <2>5. CASE ~(op[p] = "fault" /\ g = mem[p])
    <3>1. Mapped(g)' = IF g = Pa(p) THEN Mapped(g) \ {c} ELSE Mapped(g)
      BY <1>11, <2>5
    <3> QED
      BY <2>1, <2>2, <2>3, <2>5, <3>1
  <2> QED
    BY <2>4, <2>5
<1> QED
  BY <1>9, <1>11, <1>13 DEF c

LEMMA UnmapPage ==
  ASSUME Good, NEW p \in Procs, SubStore(p) \/ Clear(p), NEW g \in Pages
  PROVE  PageInv(g)'
<1> DEFINE g0 == Pa(p)
           c == np[p]
<1>1. Unmapping(p) /\ Base /\ MemoryOK /\ PageInv(g) /\ UseInv(p)
  BY TypeIs DEF SubStore, Clear, At, Unmapping, Good, Base
<1>2. /\ g0 \in Pages /\ c \in Procs
      /\ op[p] = "grow" => /\ pc[p] = "clear" /\ Mapped(g0) = {} /\ Gotten(g0) = {p} /\ mem[p] = g0
      /\ op[p] # "grow" => c \in Counted(g0) /\ pte[c].page = g0
      /\ op[p] = "fault" => /\ mem[p] \in Pages /\ mem[p] # g0 /\ reference_count[mem[p]] = 1
                            /\ Mapped(mem[p]) = {} /\ Gotten(mem[p]) = {p}
      /\ op[p] \notin {"fault", "grow"} => mem[p] = None
  BY <1>1, UnmapHas
<1>3. /\ Gotten(g)' = IF g = mem[p] THEN {} ELSE Gotten(g)
      /\ Mapped(g)' = IF op[p] = "fault" /\ g = mem[p] THEN {p}
                      ELSE IF g = g0 THEN Mapped(g) \ {c} ELSE Mapped(g)
      /\ Counted(g)' = IF op[p] = "fault" /\ g = mem[p] THEN {p}
                       ELSE IF g = g0 THEN Counted(g) \ {c} ELSE Counted(g)
  BY <1>1, UnmapSets
<1>4. \A q \in Procs \ {p} : /\ pc'[q] = pc[q]
                             /\ pc[q] = "clear" => Pa(q)' = Pa(q) /\ Pa(q) \notin {g0, mem[p]}
  BY <1>1, UnmapOthers DEF Releasing
<1>5. freelist' = freelist /\ pc'[p] # "clear"
  BY <1>1, ReturnIs DEF Unmapping, Unmap
<1>6. \A h \in Pages \ {g0} : reference_count'[h] = reference_count[h]
  BY <1>1, <1>2 DEF SubStore, Clear, Count, MemoryOK
<1>7. CASE g # g0 /\ g # mem[p]
  <2>1. (\E q \in Procs : pc'[q] = "clear" /\ Pa(q)' = g) <=> (\E q \in Procs : pc[q] = "clear" /\ Pa(q) = g)
    <3>1. \A q \in Procs \ {p} : (pc'[q] = "clear" /\ Pa(q)' = g) <=> (pc[q] = "clear" /\ Pa(q) = g)
      BY <1>4
    <3>2. ~(pc'[p] = "clear" /\ Pa(p)' = g) /\ ~(pc[p] = "clear" /\ Pa(p) = g)
      BY <1>5, <1>7
    <3> QED
      BY <3>1, <3>2
  <2>2. Gotten(g)' = Gotten(g) /\ Mapped(g)' = Mapped(g) /\ Counted(g)' = Counted(g)
    BY <1>3, <1>7
  <2> QED
    BY <1>1, <1>5, <1>6, <1>7, <2>1, <2>2 DEF PageInv
<1>8. CASE g \in {g0, mem[p]}
  <2>1. ~ \E q \in Procs : pc'[q] = "clear" /\ Pa(q)' = g
    BY <1>4, <1>5, <1>8
  <2>2. CASE op[p] = "fault" /\ g = mem[p]
    <3>1. Mapped(g)' = {p} /\ Counted(g)' = {p} /\ Cardinality({p}) = 1
      BY <1>3, <2>2, FS_Singleton
    <3>2. reference_count'[g] = 1
      BY <1>2, <1>6, <2>2
    <3>3. g \notin freelist
      <4>1. ~ \E q \in Procs : pc[q] = "clear" /\ Pa(q) = g
        BY <1>2, <1>4, <2>2
      <4>2. Gotten(g) # {}
        BY <1>2, <2>2
      <4> QED
        BY <1>1, <4>1, <4>2 DEF PageInv
    <3> QED
      BY <1>5, <2>1, <3>1, <3>2, <3>3 DEF PageInv
  <2>3. CASE ~(op[p] = "fault" /\ g = mem[p])
    <3>1. g = g0
      BY <1>2, <1>8, <2>3, Nones
    <3>2. Mapped(g)' = Mapped(g) \ {c} /\ Counted(g)' = Counted(g) \ {c}
      BY <1>3, <2>3, <3>1
    <3>3. CASE pc[p] = "clear"
      <4>1. Mapped(g) \subseteq {c}
        BY <1>1, <1>2, <3>1, <3>3 DEF UseInv
      <4>2. Mapped(g)' = {} /\ Counted(g)' = {}
        BY <1>1, <3>2, <4>1, SetsAre
      <4>3. reference_count'[g] = 0
        BY <1>1, <3>1, <3>3 DEF SubStore, Clear, At, Count, MemoryOK
      <4>4. Cardinality({}) = 0
        BY FS_EmptySet
      <4>5. g \in freelist
        BY <1>1, <3>1, <3>3 DEF PageInv
      <4>6. Gotten(g)' = {}
        <5>1. CASE op[p] = "grow"
          BY <1>2, <1>3, <3>1, <5>1
        <5>2. CASE op[p] # "grow"
          <6>1. c \in Mapped(g)
            BY <1>1, <1>2, <3>1, <5>2, SetsAre
          <6>2. ASSUME NEW r \in Gotten(g) PROVE FALSE
            <7>1. r \in Procs /\ mem[r] = g /\ UseInv(r)
              BY DEF Gotten, Good
            <7> QED
              BY <6>1, <7>1, Nones DEF UseInv
          <6> QED
            BY <1>3, <6>2
        <5> QED
          BY <5>1, <5>2
      <4> QED
        BY <1>5, <4>2, <4>3, <4>4, <4>5, <4>6 DEF PageInv
    <3>4. CASE pc[p] = "sub_store"
      <4>1. op[p] # "grow" /\ c \in Counted(g) /\ c \in Mapped(g)
        BY <1>1, <1>2, <3>1, <3>4, SetsAre
      <4>2. Gotten(g) = {}
        <5>1. ASSUME NEW r \in Gotten(g) PROVE FALSE
          <6>1. r \in Procs /\ mem[r] = g /\ UseInv(r)
            BY DEF Gotten, Good
          <6> QED
            BY <4>1, <6>1, Nones DEF UseInv
        <5> QED
          BY <5>1
      <4>3. reference_count[g] = Cardinality(Counted(g)) /\ reference_count[g] > 1 /\ reg[p] = reference_count[g]
        BY <1>1, <3>1, <3>4, <4>2 DEF PageInv, UseInv
      <4>4. reference_count'[g] = reference_count[g] - 1
        BY <1>1, <3>1, <3>4, <4>3 DEF SubStore, Clear, At, Count, MemoryOK
      <4>5. IsFiniteSet(Counted(g)) /\ Cardinality(Counted(g)) \in Nat /\ Counted(g) \subseteq Mapped(g)
        BY <1>1, SetsAre
      <4>6. Cardinality(Counted(g) \ {c}) = Cardinality(Counted(g)) - 1
        BY <4>1, <4>5, FS_RemoveElement
      <4>7. Counted(g) \ {c} # {}
        <5> SUFFICES ASSUME Counted(g) \ {c} = {} PROVE FALSE
          OBVIOUS
        <5>1. Cardinality({}) = 0
          BY FS_EmptySet
        <5> QED
          BY <4>3, <4>5, <4>6, <5>1
      <4>8. g \notin freelist
        <5>1. ~ \E q \in Procs : pc[q] = "clear" /\ Pa(q) = g
          BY <1>4, <3>1, <3>4
        <5> QED
          BY <1>1, <4>1, <5>1 DEF PageInv
      <4> QED
        BY <1>5, <2>1, <3>2, <4>3, <4>4, <4>5, <4>6, <4>7, <4>8 DEF PageInv
    <3> QED
      BY <1>1, <3>3, <3>4 DEF Unmapping
  <2> QED
    BY <2>2, <2>3
<1> QED
  BY <1>7, <1>8

LEMMA UnmapUse ==
  ASSUME Good, NEW p \in Procs, SubStore(p) \/ Clear(p), NEW q \in Procs
  PROVE  UseInv(q)'
<1>1. Unmapping(p) /\ Base /\ MemoryOK /\ UseInv(q) /\ CallInv(q)
  BY TypeIs DEF SubStore, Clear, At, Unmapping, Good, Base
<1>2. Pa(p) \in Pages
  BY <1>1, UnmapHas
<1>3. \A h \in Pages \ {Pa(p)} : reference_count'[h] = reference_count[h]
  BY <1>1, <1>2 DEF SubStore, Clear, Count, MemoryOK
<1>4. CASE q = p
  BY <1>1, <1>4, ReturnIs DEF UseInv, Unmapping, Unmap
<1>5. CASE q # p
  <2>1. /\ pc'[q] = pc[q] /\ op'[q] = op[q] /\ np'[q] = np[q] /\ mem'[q] = mem[q] /\ reg'[q] = reg[q]
        /\ pc[q] # "user" => pte'[q] = pte[q]
        /\ pc[q] \in Releasing => Pa(q)' = Pa(q) /\ Pa(q) \in Pages \ {Pa(p), mem[p]}
    BY <1>1, <1>5, UnmapOthers
  <2>2. ASSUME mem[q] # None
        PROVE  /\ (Mapped(mem[q]))' = {} /\ (Gotten(mem[q]))' = {q}
               /\ pc[q] # "init" => reference_count'[mem'[q]] = 1
    <3>1. PICK g \in Pages : g = mem[q] /\ g = mem'[q]
      BY <1>1, <2>1, <2>2, Types
    <3>2. Mapped(g) = {} /\ Gotten(g) = {q} /\ (pc[q] # "init" => reference_count[g] = 1)
      BY <1>1, <2>2, <3>1 DEF UseInv
    <3>3. g # Pa(p)
      <4>1. pc[p] \in Releasing
        BY <1>1 DEF Unmapping, Releasing
      <4> QED
        BY <1>5, <2>2, <3>1, <4>1, MemAlone
    <3>4. g # mem[p]
      <4> SUFFICES ASSUME g = mem[p] PROVE FALSE
        OBVIOUS
      <4>1. p \in Gotten(g)
        BY DEF Gotten
      <4> QED
        BY <1>5, <3>2, <4>1
    <3>5. Mapped(g)' = {} /\ Gotten(g)' = {q}
      BY <1>1, <3>2, <3>3, <3>4, UnmapSets
    <3>6. (Mapped(mem[q]))' = {} /\ (Gotten(mem[q]))' = {q}
      BY <3>1, <3>5 DEF Mapped, Gotten
    <3> QED
      BY <1>3, <3>1, <3>2, <3>3, <3>6
  <2>3. pc[q] = "inc_store" => reference_count'[pte[q].page] = reference_count[pte[q].page]
    <3> SUFFICES ASSUME pc[q] = "inc_store" PROVE pte[q].page \in Pages \ {Pa(p)}
      BY <1>3
    <3>1. Using(q) = pte[q].page /\ Using(p) = Pa(p)
      BY <1>1, UsingIs DEF Unmapping, Releasing
    <3>2. pte[q].page \in Pages
      BY <1>1, Types DEF CallInv, Counting
    <3> QED
      BY <1>2, <1>5, <3>1, <3>2, Alone, Nones DEF Good
  <2>4. pc[q] \in {"sub_load", "sub_store"}
          => Pa(q)' = Pa(q) /\ reference_count'[Pa(q)] = reference_count[Pa(q)]
    BY <1>3, <2>1 DEF Releasing
  <2>5. ASSUME pc[q] \in {"push", "clear"}, op[q] # "grow" PROVE (Mapped(Pa(q)))' = {np[q]}
    <3>1. PICK g \in Pages : g = Pa(q) /\ g = Pa(q)' /\ g # Pa(p) /\ g # mem[p]
      BY <2>1, <2>5 DEF Releasing
    <3>2. Mapped(g) = {np[q]}
      BY <1>1, <2>5, <3>1 DEF UseInv
    <3>3. Mapped(g)' = {np[q]}
      BY <1>1, <3>1, <3>2, UnmapSets
    <3> QED
      BY <3>1, <3>3 DEF Mapped
  <2> QED
    BY <1>1, <2>1, <2>2, <2>3, <2>4, <2>5 DEF UseInv
<1> QED
  BY <1>4, <1>5

LEMMA UnmapMemory ==
  ASSUME Good, NEW p \in Procs, SubStore(p) \/ Clear(p), NEW q \in Procs
  PROVE  MemoryInv(q)'
<1> DEFINE c == np[p]
<1>1. Unmapping(p) /\ Base /\ MemoryOK /\ MemoryInv(q) /\ CallInv(q)
  BY TypeIs DEF SubStore, Clear, At, Unmapping, Good, Base
<1>2. /\ c \in Procs /\ Pa(p) \in Pages /\ state[p] = "live"
      /\ op[p] \notin {"fork", "reap"} => c = p
      /\ op[p] \in {"fork", "reap"} => c # p /\ state[c] # "live"
      /\ op[p] = "grow" => Mapped(Pa(p)) = {}
      /\ op[p] # "grow" => c \in Counted(Pa(p))
      /\ op[p] = "fault" => mem[p] \in Pages /\ Mapped(mem[p]) = {}
      /\ op[p] \notin {"fault", "grow"} => mem[p] = None
      /\ op[p] = "grow" => mem[p] = Pa(p)
  BY <1>1, UnmapHas
<1>3. UNCHANGED <<content, image>>
  BY <1>1 DEF Unmapping, Unmap
<1>4. pc'[p] = "user" /\ op'[p] = "none" /\ \A r \in Procs \ {p} : pc'[r] = pc[r] /\ op'[r] = op[r] /\ np'[r] = np[r] /\ mem'[r] = mem[r]
  BY <1>1, ReturnIs DEF Unmapping, Unmap
<1>5. CASE q = c
  <2>1. CASE op[p] = "fault"
    <3>1. pte'[p] = [page |-> mem[p], cow |-> FALSE]
      BY <1>1, <2>1 DEF Unmapping, Unmap, MemoryOK
    <3>2. PICK g \in Pages : g = mem[p]
      BY <1>2, <2>1
    <3>3. Mapped(g)' = {p}
      BY <1>1, <2>1, <3>2, UnmapSets
    <3>4. (Mapped(pte[p].page))' = {p}
      BY <3>1, <3>2, <3>3 DEF Mapped
    <3>5. content[mem[p]] = image[p]
      BY <1>1, <1>2, <1>5, <2>1 DEF MemoryInv, Unmapping, Releasing
    <3> QED
      BY <1>2, <1>3, <1>4, <1>5, <2>1, <3>1, <3>4, <3>5 DEF MemoryInv
  <2>2. CASE op[p] # "fault"
    <3>1. pte'[q].page = None
      BY <1>1, <1>2, <1>5, <2>2 DEF Unmapping, Unmap, MemoryOK, Unmapped
    <3>2. op'[q] # "fault"
      <4>1. q # p => op[q] # "fault"
        BY <1>1, <1>2, <1>5 DEF CallInv
      <4> QED
        BY <1>4, <4>1
    <3> QED
      BY <3>1, <3>2 DEF MemoryInv
  <2> QED
    BY <2>1, <2>2
<1>6. CASE q # c
  <2>1. pte'[q] = pte[q] /\ state'[q] = state[q]
    <3>1. CASE q # p
      BY <1>1, <1>6, <3>1, UnmapOthers
    <3>2. CASE q = p
      <4>1. op[p] \in {"fork", "reap"}
        BY <1>2, <1>6, <3>2
      <4> QED
        BY <1>1, <1>2, <1>6, <3>2, <4>1 DEF Unmapping, Unmap, MemoryOK
    <3> QED
      BY <3>1, <3>2
  <2>2. ASSUME pte[q].page # None, ~pte[q].cow PROVE (Mapped(pte[q].page))' = {q}
    <3>1. PICK g \in Pages : g = pte[q].page /\ g = pte'[q].page
      BY <1>1, <2>1, <2>2, Types
    <3>2. Mapped(g) = {q}
      BY <1>1, <2>2, <3>1 DEF MemoryInv
    <3>3. g # Pa(p)
      <4> SUFFICES ASSUME g = Pa(p) PROVE FALSE
        OBVIOUS
      <4>1. c \in Mapped(g)
        BY <1>1, <1>2, <3>2, SetsAre
      <4> QED
        BY <1>6, <3>2, <4>1
    <3>4. ~(op[p] = "fault" /\ g = mem[p])
      BY <1>2, <3>2
    <3>5. Mapped(g)' = {q}
      BY <1>1, <3>2, <3>3, <3>4, UnmapSets
    <3> QED
      BY <3>1, <3>5 DEF Mapped
  <2>3. pc[q] \in {"push", "clear"} => (q = p \/ (pc'[q] = pc[q] /\ np'[q] = np[q]))
    BY <1>4
  <2>4. state[q] = "live" /\ pte[q].page # None /\ (pc'[q] \in {"push", "clear"} => np'[q] # q)
          => content[pte[q].page] = image[q]
    <3>1. (pc'[q] \in {"push", "clear"} => np'[q] # q) => (pc[q] \in {"push", "clear"} => np[q] # q)
      BY <1>4, <1>6
    <3> QED
      BY <1>1, <3>1 DEF MemoryInv
  <2>5. op'[q] = "fault" => op[q] = "fault" /\ pc'[q] = pc[q] /\ mem'[q] = mem[q]
    BY <1>4
  <2> QED
    BY <1>1, <1>3, <2>1, <2>2, <2>4, <2>5 DEF MemoryInv
<1> QED
  BY <1>5, <1>6

-----------------------------------------------------------------------------
(* The invariant holds at first and every step keeps it.                   *)

LEMMA InitInv == Init => IInv
<1> SUFFICES ASSUME Init PROVE IInv
  OBVIOUS
<1>1. PICK g0 \in Pages :
        /\ freelist = Pages \ {g0}
        /\ reference_count = [h \in Pages |-> IF h = g0 THEN 1 ELSE 0]
        /\ content = [h \in Pages |-> IF h = g0 THEN Zero ELSE Junk]
        /\ pte = [p \in Procs |-> IF p = initproc THEN [page |-> g0, cow |-> FALSE] ELSE Unmapped]
  BY DEF Init
<1>2. initproc \in Procs /\ None \notin Procs /\ None \notin Pages
  BY ProcsAssumption
<1>3. /\ state = [p \in Procs |-> IF p = initproc THEN "live" ELSE "unused"]
      /\ wait_lock = None
      /\ pc = [p \in Procs |-> "user"] /\ op = [p \in Procs |-> "none"] /\ np = [p \in Procs |-> p]
      /\ mem = [p \in Procs |-> None] /\ reg = [p \in Procs |-> 0] /\ image = [p \in Procs |-> Zero]
      /\ raced = FALSE
  BY DEF Init
<1>4. TypeOK
  <2>1. LocalsOK
    BY <1>3 DEF LocalsOK, PCs, Ops
  <2>2. MemoryOK
    <3>1. [page |-> g0, cow |-> FALSE] \in PteType /\ Unmapped \in PteType
      BY DEF PteType, Unmapped
    <3>2. pte \in [Procs -> PteType]
      BY <1>1, <3>1
    <3>3. 0 \in Int /\ 1 \in Int
      OBVIOUS
    <3>4. reference_count \in [Pages -> Int]
      BY <1>1, <3>3
    <3> QED
      BY <1>1, <3>2, <3>4 DEF MemoryOK
  <2>3. StatesOK
    BY <1>3 DEF StatesOK
  <2> QED
    BY <1>3, <2>1, <2>2, <2>3, TypeIs
<1>5. \A p \in Procs : CallInv(p)
  BY <1>1, <1>2, <1>3 DEF CallInv, Counting, Releasing, Unmapped
<1>6. ASSUME NEW g \in Pages
      PROVE  /\ Mapped(g) = (IF g = g0 THEN {initproc} ELSE {}) /\ Gotten(g) = {}
             /\ Counted(g) = Mapped(g)
  <2>1. Mapped(g) = (IF g = g0 THEN {initproc} ELSE {})
    BY <1>1, <1>2 DEF Mapped, Unmapped
  <2>2. Gotten(g) = {}
    BY <1>2, <1>3 DEF Gotten
  <2>3. Counted(g) = Mapped(g)
    BY <1>3 DEF Counted, Counting, Mapped
  <2> QED
    BY <2>1, <2>2, <2>3
<1>7. \A g \in Pages : PageInv(g)
  <2>1. Cardinality({}) = 0 /\ Cardinality({initproc}) = 1
    BY FS_EmptySet, FS_Singleton
  <2> QED
    BY <1>1, <1>3, <1>6, <2>1 DEF PageInv
<1>8. \A p \in Procs : UseInv(p)
  BY <1>3 DEF UseInv
<1>9. ASSUME NEW p \in Procs PROVE MemoryInv(p)
  <2>1. CASE p = initproc
    <3>1. pte[p].page = g0 /\ Mapped(pte[p].page) = {p}
      BY <1>1, <1>2, <1>6, <2>1
    <3> QED
      BY <1>1, <1>2, <1>3, <3>1, <2>1 DEF MemoryInv
  <2>2. CASE p # initproc
    <3>1. pte[p].page = None
      BY <1>1, <2>2 DEF Unmapped
    <3> QED
      BY <1>3, <3>1 DEF MemoryInv
  <2> QED
    BY <2>1, <2>2
<1>10. ~Overlap
  BY <1>3 DEF Overlap, Using, At
<1> QED
  BY <1>4, <1>5, <1>7, <1>8, <1>9, <1>10 DEF IInv

LEMMA NextInv == IInv /\ [Next]_vars => IInv'
<1> SUFFICES ASSUME IInv, [Next]_vars PROVE IInv'
  OBVIOUS
<1>1. CASE UNCHANGED vars
  <2>1. /\ UNCHANGED <<freelist, content, pte, reference_count, state, wait_lock, pc>>
        /\ UNCHANGED <<op, np, mem, reg, image, raced>>
    BY <1>1 DEF vars, memory, locals
  <2>2. TypeOK' /\ \A p \in Procs : CallInv(p)'
    BY <2>1 DEF IInv, TypeOK, CallInv
  <2>3. Overlap' <=> Overlap
    BY <2>1 DEF Overlap, Using, Pa, At
  <2>4. ASSUME ~raced PROVE /\ \A g \in Pages : PageInv(g)'
                            /\ \A p \in Procs : UseInv(p)' /\ MemoryInv(p)'
    BY <2>1, <2>4 DEF IInv, PageInv, UseInv, MemoryInv, Mapped, Counted, Gotten, Pa
  <2> QED
    BY <2>1, <2>2, <2>3, <2>4 DEF IInv
<1>2. CASE Next
  <2>1. PICK p \in Procs : Step(p)
    BY <1>2 DEF Next
  <2>2. raced' = (raced \/ Overlap') /\ Base /\ (~raced => Good)
    BY <1>2, GoodIs DEF Next
  <2>3. Base'
    <3>1. raced' \in BOOLEAN
      BY <2>2
    <3> QED
      BY <2>1, <2>2, <3>1, NextBase
  <2>4. ASSUME ~raced'
        PROVE  /\ \A g \in Pages : PageInv(g)'
               /\ \A q \in Procs : UseInv(q)' /\ MemoryInv(q)'
    <3>1. Good /\ ~Overlap'
      BY <2>2, <2>4
    <3> QED
      BY <2>1, <3>1, QuietGood, ForkGood, IncStoreGood, PopGood, InitPageGood, PushGood, FillGrownGood,
         UnmapPage, UnmapUse, UnmapMemory DEF Step, Kfree, Kalloc
  <2>5. ~raced' => ~Overlap'
    BY <2>2
  <2> QED
    BY <2>3, <2>4, <2>5 DEF IInv, Base
<1> QED
  BY <1>1, <1>2

(* What calls have in their hands is so whatever the counts say, and what  *)
(* the counts and the pages are, until two use a count at a time.          *)
THEOREM Invariance == Spec => []IInv
BY InitInv, NextInv, PTL DEF Spec

(* Every variable keeps its type. *)
THEOREM TypeCorrect == Spec => []TypeOK
<1>1. IInv => TypeOK
  BY DEF IInv
<1> QED
  BY Invariance, <1>1, PTL

-----------------------------------------------------------------------------
(* What follows from it.                                                   *)

LEMMA SameSize ==
  ASSUME NEW S, NEW T, IsFiniteSet(S), NEW f \in [S -> T],
         \A x, y \in S : f[x] = f[y] => x = y,
         \A t \in T : \E x \in S : f[x] = t
  PROVE  IsFiniteSet(T) /\ Cardinality(T) = Cardinality(S)
<1>1. f \in Bijection(S, T)
  BY DEF Bijection, Injection, Surjection, IsInjective
<1> QED
  BY <1>1, FS_Bijection DEF ExistsBijection

LEMMA OwnersAre ==
  ASSUME Base, NEW g \in Pages
  PROVE  /\ Gotten(g) = {} => Cardinality(Owners(g)) = Cardinality(Mapped(g))
         /\ Cardinality(Uncounted(g)) = Cardinality(Mapped(g)) - Cardinality(Counted(g))
         /\ Uncounted(g) \subseteq Mapped(g)
<1>1. /\ Mapped(g) \subseteq Procs /\ Counted(g) \subseteq Mapped(g)
      /\ IsFiniteSet(Mapped(g)) /\ IsFiniteSet(Counted(g))
  BY SetsAre
<1>2. ASSUME Gotten(g) = {} PROVE Cardinality(Owners(g)) = Cardinality(Mapped(g))
  <2>1. Owners(g) = {<<p, "pte">> : p \in Mapped(g)}
    BY <1>2 DEF Owners, Mapped, Gotten
  <2> DEFINE f == [p \in Mapped(g) |-> <<p, "pte">>]
  <2>2. f \in [Mapped(g) -> Owners(g)]
    BY <2>1
  <2>3. \A x, y \in Mapped(g) : f[x] = f[y] => x = y
    OBVIOUS
  <2>4. \A t \in Owners(g) : \E x \in Mapped(g) : f[x] = t
    BY <2>1
  <2> HIDE DEF f
  <2> QED
    BY <1>1, <2>2, <2>3, <2>4, SameSize
<1>3. Uncounted(g) \subseteq Mapped(g) /\ IsFiniteSet(Uncounted(g))
  <2>1. Uncounted(g) \subseteq Mapped(g)
    BY DEF Uncounted, Mapped
  <2> QED
    BY <1>1, <2>1, FS_Subset
<1>4. Cardinality(Uncounted(g)) = Cardinality(Mapped(g) \ Counted(g))
  <2> DEFINE T == Mapped(g) \ Counted(g)
             f == [p \in Uncounted(g) |-> np[p]]
  <2>1. ASSUME NEW p \in Uncounted(g) PROVE np[p] \in T
    <3>1. p \in Procs /\ pc[p] \in Counting /\ pte[p].page = g
      BY <2>1 DEF Uncounted, Counting
    <3>2. np[p] \in Procs /\ CallInv(p)
      BY <3>1, Types
    <3>3. pte[np[p]] = pte[p]
      BY <3>1, <3>2 DEF CallInv, Counting
    <3> QED
      BY <3>1, <3>2, <3>3 DEF Mapped, Counted
  <2>2. f \in [Uncounted(g) -> T]
    BY <2>1
  <2>3. ASSUME NEW x \in Uncounted(g), NEW y \in Uncounted(g), f[x] = f[y] PROVE x = y
    <3>1. x \in Procs /\ y \in Procs /\ pc[x] # "user" /\ pc[y] # "user" /\ np[x] = np[y]
      BY <2>3 DEF Uncounted
    <3> QED
      BY <3>1, NpOnce
  <2>4. ASSUME NEW t \in T PROVE \E x \in Uncounted(g) : f[x] = t
    <3>1. PICK q \in Counted(g) : pc[q] \in Counting /\ np[q] = t
      BY <2>4, MappedCounted
    <3>2. q \in Uncounted(g)
      BY <3>1 DEF Counted, Mapped, Uncounted, Counting
    <3> QED
      BY <3>1, <3>2
  <2> HIDE DEF f, T
  <2>5. Cardinality(T) = Cardinality(Uncounted(g))
    BY <1>3, <2>2, <2>3, <2>4, SameSize
  <2> QED
    BY <2>5 DEF T
<1>5. Cardinality(Mapped(g) \ Counted(g)) = Cardinality(Mapped(g)) - Cardinality(Counted(g))
  <2>1. Mapped(g) \cap Counted(g) = Counted(g)
    BY <1>1
  <2> QED
    BY <1>1, <2>1, FS_Difference
<1> QED
  BY <1>2, <1>3, <1>4, <1>5

LEMMA CountsInv == IInv => CountsAreOwners
<1> SUFFICES ASSUME IInv, ~raced, NEW g \in Pages, \A p \in Procs : Using(p) # g
             PROVE  /\ reference_count[g] = Cardinality(Owners(g)) - Cardinality(Uncounted(g))
                    /\ g \in freelist <=> reference_count[g] = 0
  BY DEF CountsAreOwners
<1>1. Good /\ Base /\ PageInv(g)
  BY GoodIs DEF Good
<1>2. /\ Gotten(g) = {} => Cardinality(Owners(g)) = Cardinality(Mapped(g))
      /\ Cardinality(Uncounted(g)) = Cardinality(Mapped(g)) - Cardinality(Counted(g))
      /\ Uncounted(g) \subseteq Mapped(g)
  BY <1>1, OwnersAre
<1>3. /\ IsFiniteSet(Mapped(g)) /\ IsFiniteSet(Counted(g)) /\ Cardinality(Counted(g)) \in Nat
      /\ Counted(g) \subseteq Mapped(g) /\ Cardinality(Mapped(g)) \in Nat
  BY <1>1, SetsAre, FS_CardinalityType
<1>4. ASSUME NEW p \in Procs, pc[p] = "clear" PROVE Pa(p) # g
  BY <1>4, UsingIs DEF Releasing
<1>5. CASE Gotten(g) = {}
  <2>1. reference_count[g] = Cardinality(Counted(g))
    BY <1>1, <1>5 DEF PageInv
  <2>2. Mapped(g) = {} <=> Cardinality(Counted(g)) = 0
    <3>1. Mapped(g) = {} => Cardinality(Counted(g)) = 0
      BY <1>3, FS_EmptySet
    <3>2. Cardinality(Counted(g)) = 0 => Mapped(g) = {}
      <4> SUFFICES ASSUME Cardinality(Counted(g)) = 0, NEW r \in Mapped(g) PROVE FALSE
        OBVIOUS
      <4>1. Counted(g) = {}
        BY <1>3, FS_EmptySet
      <4> QED
        BY <1>1, <4>1, MappedCounted
    <3> QED
      BY <3>1, <3>2
  <2> QED
    BY <1>1, <1>2, <1>3, <1>4, <1>5, <2>1, <2>2 DEF PageInv
<1>6. CASE Gotten(g) # {}
  <2>1. PICK p \in Procs : mem[p] = g
    BY <1>6 DEF Gotten
  <2>2. UseInv(p) /\ g # None
    BY <1>1, Nones DEF Good
  <2>3. Mapped(g) = {} /\ Gotten(g) = {p} /\ reference_count[g] = 1
    BY <2>1, <2>2, UsingIs DEF UseInv
  <2>4. Owners(g) = {<<p, "mem">>}
    <3>1. Owners(g) = {<<r, "pte">> : r \in Mapped(g)} \cup {<<r, "mem">> : r \in Gotten(g)}
      BY DEF Owners, Mapped, Gotten
    <3> QED
      BY <2>3, <3>1
  <2>5. Cardinality(Owners(g)) = 1 /\ Cardinality(Uncounted(g)) = 0
    BY <1>2, <2>3, <2>4, FS_Singleton, FS_EmptySet
  <2>6. g \notin freelist
    BY <1>1, <1>4, <1>6 DEF PageInv
  <2> QED
    BY <2>3, <2>5, <2>6
<1> QED
  BY <1>5, <1>6

LEMMA SharedInv == IInv => SharedIsReadOnly
<1> SUFFICES ASSUME IInv, ~raced, NEW p \in Procs, Keeps(p)
             PROVE  /\ ~Dangling(p)
                    /\ ~pte[p].cow => Owners(pte[p].page) = {<<p, "pte">>}
  BY DEF SharedIsReadOnly, Dangling
<1>1. Good /\ Base /\ CallInv(p) /\ MemoryInv(p)
  BY GoodIs DEF Good, Base
<1>2. PICK g \in Pages : g = pte[p].page
  <2>1. pte[p] \in PteType /\ pte[p] # Unmapped
    BY <1>1, Types DEF Keeps
  <2> QED
    BY <1>1, <2>1 DEF CallInv, Unmapped, PteType
<1>3. p \in Mapped(g) /\ g # None
  BY <1>2, Nones DEF Mapped
<1>4. g \notin freelist
  <2>1. ASSUME NEW q \in Procs, pc[q] = "clear", Pa(q) = g PROVE FALSE
    <3>1. UseInv(q) /\ op[q] \in Ops
      BY <1>1, Types DEF Good
    <3>2. CASE op[q] = "grow"
      <4>1. mem[q] = g
        BY <2>1, <3>2 DEF Pa
      <4> QED
        BY <1>3, <3>1, <4>1 DEF UseInv
    <3>3. CASE op[q] # "grow"
      <4>1. np[q] = p
        BY <1>3, <2>1, <3>1, <3>3 DEF UseInv
      <4> QED
        BY <2>1, <4>1 DEF Keeps
    <3> QED
      BY <3>2, <3>3
  <2> QED
    BY <1>1, <1>3, <2>1 DEF Good, PageInv
<1>5. ASSUME ~pte[p].cow PROVE Owners(g) = {<<p, "pte">>}
  <2>1. Mapped(g) = {p}
    BY <1>1, <1>2, <1>3, <1>5 DEF MemoryInv
  <2>2. Gotten(g) = {}
    <3> SUFFICES ASSUME NEW q \in Gotten(g) PROVE FALSE
      OBVIOUS
    <3>1. q \in Procs /\ mem[q] = g
      BY DEF Gotten
    <3> QED
      BY <1>1, <1>3, <3>1 DEF Good, UseInv
  <2>3. Owners(g) = {<<r, "pte">> : r \in Mapped(g)} \cup {<<r, "mem">> : r \in Gotten(g)}
    BY DEF Owners, Mapped, Gotten
  <2> QED
    BY <2>1, <2>2, <2>3
<1> QED
  BY <1>2, <1>4, <1>5 DEF Dangling

LEMMA OwnMemoryInv == IInv => EachHasItsOwnMemory
<1> SUFFICES ASSUME IInv, ~raced, NEW p \in Procs, state[p] = "live", Keeps(p)
             PROVE  content[pte[p].page] = image[p]
  BY DEF EachHasItsOwnMemory
<1>1. Good /\ Base /\ CallInv(p) /\ MemoryInv(p)
  BY GoodIs DEF Good, Base
<1>2. pte[p].page # None
  <2>1. pte[p] \in PteType /\ pte[p] # Unmapped
    BY <1>1, Types DEF Keeps
  <2> QED
    BY <1>1, <2>1 DEF CallInv, Unmapped, PteType
<1>3. pc[p] \in {"push", "clear"} => np[p] # p
  BY DEF Keeps
<1> QED
  BY <1>1, <1>2, <1>3 DEF MemoryInv

(* The count of a page that nobody is using the count of is the number of  *)
(* its owners, and a page is free when it has none: no page leaks and none *)
(* is freed early (kalloc.c's reference_count[]).                          *)
THEOREM PagesAreCounted == Spec => []CountsAreOwners
BY Invariance, CountsInv, PTL

(* Nobody's page is in the free list, and a page that can be written has   *)
(* one owner (uvmcopy(), usertrap()).                                      *)
THEOREM SharedPagesAreReadOnly == Spec => []SharedIsReadOnly
BY Invariance, SharedInv, PTL

(* fork() copies: each process finds what it wrote, or what its parent had *)
(* when it was forked.                                                     *)
THEOREM ForkCopies == Spec => []EachHasItsOwnMemory
BY Invariance, OwnMemoryInv, PTL

-----------------------------------------------------------------------------
(* BcacheHash                                                              *)
(*                                                                         *)
(* Until a buffer is recycled under a wrong lock a block has one buffer,   *)
(* what bread() returns is right and the counts are, whatever the buckets. *)
(* The run bcache_wrong shows what happens afterwards.                     *)
(*                                                                         *)
(* Who searches has the bucket of its block locked (SearchInv), and who    *)
(* recycles a buffer also the one that buffer is in (RecycleInv).  So two  *)
(* of them are never at the same list nor the same buffer; find() and      *)
(* erase() miss nothing, because the pointers of a bucket chain exactly    *)
(* its buffers (Ordered).  A count is not 0 while somebody uses a buffer   *)
(* (RefcntCounts), so nobody recycles what is used (UseInv).               *)

CacheSizes == /\ NBUF \in Nat \ {0} /\ HASHSIZE \in Nat \ {0} /\ UINT_MAX \in Nat
              /\ Blocks \subseteq Nat \ {0, 1}
              /\ IsFiniteSet(Procs) /\ Cardinality(Procs) < UINT_MAX
              /\ None \notin Procs

(* The instance counts as this module does. *)
LEMMA CacheCounts == \A S : Cache!Cardinality(S) = Cardinality(S)
BY DEF Cache!Cardinality, Cardinality

LEMMA CacheHashType ==
  ASSUME CacheSizes
  PROVE  \A n \in Nat : Cache!hash(n) \in Cache!Buckets
BY DEF CacheSizes, Cache!hash, Cache!Buckets

LEMMA CacheSmallTypes ==
  ASSUME CacheSizes
  PROVE  /\ 0 \in Cache!Buckets /\ 1 \in Cache!Bufs /\ 0 \notin Cache!Bufs /\ Cache!Inc \in Nat /\ Cache!Dec \in Nat
         /\ Blocks \cup {0, 1} \subseteq Nat /\ 0 \notin Blocks /\ 1 \notin Blocks
         /\ 0 \in 0..UINT_MAX /\ 1 \in 0..UINT_MAX
<1>1. UINT_MAX > 0
  BY FS_CardinalityType DEF CacheSizes
<1> QED
  BY <1>1 DEF CacheSizes, Cache!Buckets, Cache!Bufs, Cache!Inc, Cache!Dec

(* Where what a process has in its locals lies. *)
LEMMA CacheLocalTypes ==
  ASSUME CacheSizes, Cache!TypeOK, NEW p \in Procs
  PROVE  /\ b[p] \in Cache!Bufs /\ Cache!Mine(p) \in Blocks \cup {0, 1} /\ Cache!hash(Cache!Mine(p)) \in Cache!Buckets
         /\ want[p] \in Blocks \cup {0} /\ Cache!Idx(p) \in Cache!Buckets
         /\ key[p] \in Blocks \cup {0, 1} /\ Cache!hash(key[p]) \in Cache!Buckets
         /\ Cache!hash(key[p] + (Cache!Mine(p) - Cache!dev(Cache!Mine(p)))) \in Cache!Buckets
         /\ other[p] \in Cache!Buckets
         /\ at[p] \in Cache!Bufs \cup {0}
         /\ Cache!Ahead(p) \in Cache!Bufs \cup {0}
<1>1. /\ b[p] \in Cache!Bufs /\ Cache!Mine(p) \in Blocks \cup {0, 1} /\ want[p] \in Blocks \cup {0}
      /\ key[p] \in Blocks \cup {0, 1} /\ other[p] \in Cache!Buckets /\ at[p] \in Cache!Bufs \cup {0}
  BY DEF Cache!TypeOK, Cache!Mine
<1>2. Cache!hash(Cache!Mine(p)) \in Cache!Buckets /\ Cache!Idx(p) \in Cache!Buckets /\ Cache!hash(key[p]) \in Cache!Buckets
  BY <1>1, CacheHashType, CacheSmallTypes DEF Cache!Idx
<1>3. key[p] + (Cache!Mine(p) - Cache!dev(Cache!Mine(p))) \in Nat
  BY <1>1, CacheSmallTypes DEF Cache!dev
<1> QED
  BY <1>1, <1>2, <1>3, CacheHashType DEF Cache!Ahead, Cache!TypeOK

(* A count stays in its type, whatever it does. *)
LEMMA CacheCountType ==
  ASSUME CacheSizes, Cache!TypeOK, NEW x \in Cache!Bufs, NEW d \in Nat, Cache!Count(x, d)
  PROVE  refcnt' \in [Cache!Bufs -> 0..UINT_MAX]
<1>1. refcnt \in [Cache!Bufs -> 0..UINT_MAX] /\ UINT_MAX \in Nat
  BY DEF CacheSizes, Cache!TypeOK
<1>2. refcnt[x] + d \in Nat
  BY <1>1
<1>3. (refcnt[x] + d) % (UINT_MAX + 1) \in 0..UINT_MAX
  <2> DEFINE k == refcnt[x] + d
             m == UINT_MAX + 1
  <2>1. k \in Nat /\ m \in Nat \ {0}
    BY <1>1, <1>2
  <2> HIDE DEF k, m
  <2>2. k % m \in 0..(m - 1)
    BY <2>1
  <2> QED
    BY <1>1, <2>2 DEF k, m
<1> QED
  BY <1>1, <1>3 DEF Cache!Count

-----------------------------------------------------------------------------
CacheStep(p) == (\E n \in Blocks : Cache!CallBread(p, n)) \/ Cache!Bget(p) \/ Cache!ReadDisk(p) \/ Cache!Holder(p)

LEMMA CacheStepIs ==
  ASSUME CacheSizes
  PROVE  Cache!Next => \E p \in Procs : CacheStep(p)
BY DEF Cache!Next, CacheStep

LEMMA CacheStepType ==
  ASSUME CacheSizes, Cache!TypeOK, NEW p \in Procs, CacheStep(p)
  PROVE  Cache!TypeOK'
<1> USE DEF Cache!TypeOK, Cache!PCs, Cache!Goto, Cache!Look, Cache!WalkAt, Cache!Remember, Cache!buffers, Cache!lists
<1>1. CASE \E n \in Blocks : Cache!CallBread(p, n)
  BY <1>1 DEF Cache!CallBread
<1>2. CASE Cache!LockBucket(p) \/ Cache!FindNext(p) \/ Cache!Miss(p) \/ Cache!LockOther(p)
  <2>1. Cache!Idx(p) \in Cache!Buckets /\ other[p] \in Cache!Buckets /\ 1 \in Cache!Bufs
    BY CacheLocalTypes, CacheSmallTypes
  <2>2. CASE Cache!LockOther(p)
    BY <2>1, <2>2 DEF Cache!LockOther
  <2>5. CASE Cache!LockBucket(p)
    <3>1. first[Cache!Idx(p)] \in Cache!Bufs \cup {0}
      BY <2>1
    <3> QED
      BY <2>1, <2>5, <3>1 DEF Cache!LockBucket
  <2>3. CASE Cache!FindNext(p)
    BY <2>3 DEF Cache!FindNext
  <2>4. CASE Cache!Miss(p)
    BY <2>1, <2>4 DEF Cache!Miss
  <2> QED
    BY <1>2, <2>2, <2>3, <2>4, <2>5
<1>3. CASE Cache!Hit(p)
  <2>1. at[p] \in Cache!Bufs /\ Cache!Idx(p) \in Cache!Buckets
    BY <1>3, CacheLocalTypes DEF Cache!Hit
  <2>2. refcnt' \in [Cache!Bufs -> 0..UINT_MAX]
    BY <1>3, <2>1, CacheCountType, CacheSmallTypes DEF Cache!Hit
  <2> QED
    BY <1>3, <2>1, <2>2 DEF Cache!Hit
<1>4. CASE Cache!ReadDev(p) \/ Cache!ReadBucket(p) \/ Cache!Unused(p) \/ Cache!EraseNext(p) \/ Cache!EraseNothing(p)
  <2>1. /\ Cache!hash(Cache!Mine(p)) \in Cache!Buckets /\ Cache!Mine(p) \in Blocks \cup {0, 1}
        /\ Cache!Ahead(p) \in Cache!Bufs \cup {0}
        /\ Cache!hash(key[p] + (Cache!Mine(p) - Cache!dev(Cache!Mine(p)))) \in Cache!Buckets
    BY CacheLocalTypes
  <2>2. CASE Cache!ReadBucket(p)
    BY <2>1, <2>2 DEF Cache!ReadBucket
  <2>5. CASE Cache!ReadDev(p)
    BY <2>5 DEF Cache!ReadDev, Cache!dev
  <2>3. CASE Cache!Unused(p)
    BY <2>1, <2>3 DEF Cache!Unused
  <2>4. CASE Cache!EraseNext(p) \/ Cache!EraseNothing(p)
    BY <2>1, <2>4 DEF Cache!EraseNext, Cache!EraseNothing
  <2> QED
    BY <1>4, <2>2, <2>3, <2>4, <2>5
<1>5. CASE Cache!InUse(p)
  <2>1. b[p] < NBUF => b[p] + 1 \in Cache!Bufs
    BY DEF CacheSizes, Cache!Bufs
  <2> QED
    BY <1>5, <2>1 DEF Cache!InUse
<1>6. CASE Cache!Erase(p)
  <2>1. next[Cache!Ahead(p)] \in Cache!Bufs \cup {0}
    BY <1>6, CacheLocalTypes DEF Cache!Erase
  <2> QED
    BY <1>6, <2>1 DEF Cache!Erase
<1>7. CASE Cache!SetDev(p) \/ Cache!Retag(p) \/ Cache!Invalidate(p) \/ Cache!Own(p) \/ Cache!Insert(p) \/ Cache!Link(p)
  <2>1. /\ Cache!hash(key[p]) \in Cache!Buckets /\ want[p] \in Blocks \cup {0}
        /\ Cache!Mine(p) \in Blocks \cup {0, 1} /\ b[p] \in Cache!Bufs
    BY CacheLocalTypes
  <2>2. first[Cache!hash(key[p])] \in Cache!Bufs \cup {0}
    BY <2>1
  <2>3. CASE Cache!SetDev(p) \/ Cache!Retag(p) \/ Cache!Invalidate(p)
    BY <2>1, <2>3 DEF Cache!SetDev, Cache!Retag, Cache!Invalidate
  <2>6. CASE Cache!Own(p)
    <3>1. 1 \in 0..UINT_MAX
      BY CacheSmallTypes
    <3> QED
      BY <2>1, <2>6, <3>1 DEF Cache!Own
  <2>4. CASE Cache!Insert(p)
    BY <2>2, <2>4 DEF Cache!Insert
  <2>5. CASE Cache!Link(p)
    BY <2>1, <2>5 DEF Cache!Link
  <2> QED
    BY <1>7, <2>3, <2>4, <2>5, <2>6
<1>8. CASE Cache!AcquireSleep(p) \/ Cache!ReadDisk(p) \/ Cache!ReleaseSleep(p)
  <2>1. Cache!Mine(p) \in Blocks \cup {0, 1}
    BY CacheLocalTypes
  <2>2. CASE Cache!AcquireSleep(p)
    BY <2>2 DEF Cache!AcquireSleep
  <2>3. CASE Cache!ReadDisk(p)
    BY <2>1, <2>3 DEF Cache!ReadDisk
  <2>4. CASE Cache!ReleaseSleep(p)
    BY <2>4 DEF Cache!ReleaseSleep
  <2> QED
    BY <1>8, <2>2, <2>3, <2>4
<1>9. CASE Cache!CallBpin(p) \/ Cache!CallBunpin(p) \/ Cache!BrelseIdx(p)
  BY <1>9, CacheLocalTypes DEF Cache!CallBpin, Cache!CallBunpin, Cache!BrelseIdx,
     Cache!ReadIdx
<1>10. CASE Cache!Bpin(p) \/ Cache!Bunpin(p) \/ Cache!Brelse(p)
  <2>1. refcnt' \in [Cache!Bufs -> 0..UINT_MAX]
    <3>1. b[p] \in Cache!Bufs
      OBVIOUS
    <3>2. Cache!Count(b[p], Cache!Inc) \/ Cache!Count(b[p], Cache!Dec)
      BY <1>10 DEF Cache!Bpin, Cache!Bunpin, Cache!Brelse
    <3> QED
      BY <3>1, <3>2, CacheCountType, CacheSmallTypes
  <2>2. CASE Cache!Bpin(p) \/ Cache!Bunpin(p)
    BY <2>1, <2>2 DEF Cache!Bpin, Cache!Bunpin
  <2>3. CASE Cache!Brelse(p)
    BY <2>1, <2>3, CacheSmallTypes DEF Cache!Brelse
  <2> QED
    BY <1>10, <2>2, <2>3
<1> QED
  BY <1>1, <1>2, <1>3, <1>4, <1>5, <1>6, <1>7, <1>8, <1>9, <1>10 DEF CacheStep, Cache!Bget,
     Cache!Holder

(* The others stay where they are. *)
LEMMA CacheOthersStay ==
  ASSUME CacheSizes, Cache!TypeOK, NEW p \in Procs, CacheStep(p), NEW q \in Procs, q # p
  PROVE  /\ pc'[q] = pc[q] /\ want'[q] = want[q] /\ b'[q] = b[q] /\ other'[q] = other[q]
         /\ at'[q] = at[q] /\ key'[q] = key[q] /\ Cache!Idx(q)' = Cache!Idx(q)
<1>1. CASE Cache!Bget(p)
  BY <1>1 DEF Cache!TypeOK, Cache!Bget, Cache!LockBucket, Cache!FindNext, Cache!Hit,
     Cache!Miss, Cache!ReadDev, Cache!ReadBucket, Cache!dev, Cache!LockOther, Cache!InUse, Cache!Unused,
     Cache!EraseNext, Cache!Erase, Cache!EraseNothing, Cache!SetDev, Cache!Retag, Cache!Invalidate,
     Cache!Own, Cache!Insert, Cache!Link, Cache!AcquireSleep, Cache!Goto, Cache!Look,
     Cache!WalkAt, Cache!Remember, Cache!Idx
<1>2. CASE ~Cache!Bget(p)
  BY <1>2 DEF Cache!TypeOK, CacheStep, Cache!CallBread, Cache!ReadDisk, Cache!Holder,
     Cache!CallBpin, Cache!Bpin, Cache!CallBunpin, Cache!Bunpin, Cache!ReleaseSleep,
     Cache!BrelseIdx, Cache!Brelse, Cache!ReadIdx, Cache!Goto, Cache!Look, Cache!WalkAt,
     Cache!Remember, Cache!Idx
<1> QED
  BY <1>1, <1>2

(* stale is never reset. *)
LEMMA CacheStaleStays ==
  ASSUME CacheSizes, NEW p, CacheStep(p), ~stale' PROVE ~stale
BY DEF CacheStep, Cache!Bget, Cache!LockBucket, Cache!FindNext, Cache!Hit, Cache!Miss,
   Cache!ReadDev, Cache!ReadBucket, Cache!dev, Cache!LockOther, Cache!InUse, Cache!Unused, Cache!EraseNext,
   Cache!Erase, Cache!EraseNothing, Cache!SetDev, Cache!Retag, Cache!Invalidate, Cache!Own, Cache!Insert,
   Cache!Link, Cache!AcquireSleep, Cache!CallBread, Cache!ReadDisk, Cache!Holder,
   Cache!CallBpin, Cache!Bpin, Cache!CallBunpin, Cache!Bunpin, Cache!ReleaseSleep,
   Cache!BrelseIdx, Cache!Brelse

-----------------------------------------------------------------------------
(* Who changes what.                                                       *)

LEMMA CacheBlkStep ==
  ASSUME CacheSizes, NEW p, CacheStep(p), ~Cache!SetDev(p), ~Cache!Retag(p) PROVE blk' = blk
BY DEF CacheStep, Cache!Bget, Cache!LockBucket, Cache!FindNext, Cache!Hit, Cache!Miss,
   Cache!ReadDev, Cache!ReadBucket, Cache!dev, Cache!LockOther, Cache!InUse, Cache!Unused, Cache!EraseNext,
   Cache!Erase, Cache!EraseNothing, Cache!Invalidate, Cache!Own, Cache!Insert, Cache!Link,
   Cache!AcquireSleep, Cache!CallBread, Cache!ReadDisk, Cache!Holder, Cache!CallBpin,
   Cache!Bpin, Cache!CallBunpin, Cache!Bunpin, Cache!ReleaseSleep, Cache!BrelseIdx,
   Cache!Brelse, Cache!buffers

LEMMA CacheListsStep ==
  ASSUME CacheSizes, NEW p, CacheStep(p), ~Cache!Erase(p), ~Cache!Insert(p), ~Cache!Link(p)
  PROVE  first' = first /\ next' = next
BY DEF CacheStep, Cache!Bget, Cache!LockBucket, Cache!FindNext, Cache!Hit, Cache!Miss,
   Cache!ReadDev, Cache!ReadBucket, Cache!dev, Cache!LockOther, Cache!InUse, Cache!Unused, Cache!EraseNext,
   Cache!EraseNothing, Cache!SetDev, Cache!Retag, Cache!Invalidate, Cache!Own, Cache!AcquireSleep,
   Cache!CallBread, Cache!ReadDisk, Cache!Holder, Cache!CallBpin, Cache!Bpin,
   Cache!CallBunpin, Cache!Bunpin, Cache!ReleaseSleep, Cache!BrelseIdx, Cache!Brelse,
   Cache!lists

LEMMA CacheCountsStep ==
  ASSUME CacheSizes, NEW p, CacheStep(p), ~Cache!Hit(p), ~Cache!Own(p), ~Cache!Bpin(p), ~Cache!Bunpin(p), ~Cache!Brelse(p)
  PROVE  refcnt' = refcnt /\ pins' = pins
BY DEF CacheStep, Cache!Bget, Cache!LockBucket, Cache!FindNext, Cache!Miss,
   Cache!ReadDev, Cache!ReadBucket, Cache!dev, Cache!LockOther, Cache!InUse, Cache!Unused, Cache!EraseNext,
   Cache!Erase, Cache!EraseNothing, Cache!SetDev, Cache!Retag, Cache!Invalidate, Cache!Insert,
   Cache!Link, Cache!AcquireSleep, Cache!CallBread, Cache!ReadDisk, Cache!Holder,
   Cache!CallBpin, Cache!CallBunpin, Cache!ReleaseSleep, Cache!BrelseIdx, Cache!buffers

LEMMA CacheDataStep ==
  ASSUME CacheSizes, NEW p, CacheStep(p), ~Cache!Invalidate(p), ~Cache!ReadDisk(p)
  PROVE  valid' = valid /\ data' = data
BY DEF CacheStep, Cache!Bget, Cache!LockBucket, Cache!FindNext, Cache!Hit, Cache!Miss,
   Cache!ReadDev, Cache!ReadBucket, Cache!dev, Cache!LockOther, Cache!InUse, Cache!Unused, Cache!EraseNext,
   Cache!Erase, Cache!EraseNothing, Cache!SetDev, Cache!Retag, Cache!Own, Cache!Insert, Cache!Link,
   Cache!AcquireSleep, Cache!CallBread, Cache!Holder, Cache!CallBpin, Cache!Bpin,
   Cache!CallBunpin, Cache!Bunpin, Cache!ReleaseSleep, Cache!BrelseIdx, Cache!Brelse,
   Cache!buffers

LEMMA CacheSlockStep ==
  ASSUME CacheSizes, NEW p, CacheStep(p), ~Cache!AcquireSleep(p), ~Cache!ReleaseSleep(p)
  PROVE  slock' = slock
BY DEF CacheStep, Cache!Bget, Cache!LockBucket, Cache!FindNext, Cache!Hit, Cache!Miss,
   Cache!ReadDev, Cache!ReadBucket, Cache!dev, Cache!LockOther, Cache!InUse, Cache!Unused, Cache!EraseNext,
   Cache!Erase, Cache!EraseNothing, Cache!SetDev, Cache!Retag, Cache!Invalidate, Cache!Own, Cache!Insert,
   Cache!Link, Cache!CallBread, Cache!ReadDisk, Cache!Holder, Cache!CallBpin, Cache!Bpin,
   Cache!CallBunpin, Cache!Bunpin, Cache!BrelseIdx, Cache!Brelse, Cache!buffers

(* A process takes and releases locks of its own. *)
LEMMA CacheLocksStep ==
  ASSUME CacheSizes, Cache!TypeOK, Cache!SearchInv, NEW p \in Procs, CacheStep(p),
         NEW h \in Cache!Buckets, NEW q \in Procs, q # p
  PROVE  hashlock[h] = q <=> hashlock'[h] = q
<1>1. q # None /\ Cache!Idx(p) \in Cache!Buckets /\ other[p] \in Cache!Buckets
  BY CacheLocalTypes DEF CacheSizes
<1>2. CASE Cache!LockBucket(p) \/ Cache!LockOther(p)
  BY <1>1, <1>2 DEF Cache!TypeOK, Cache!LockBucket, Cache!LockOther
<1>3. CASE Cache!Hit(p)
  <2>1. hashlock[Cache!Idx(p)] = p
    BY <1>3 DEF Cache!Hit, Cache!SearchInv, Cache!Searching
  <2> QED
    BY <1>1, <1>3, <2>1 DEF Cache!TypeOK, Cache!Hit
<1>4. CASE Cache!InUse(p)
  <2>1. hashlock[other[p]] = p
    BY <1>4 DEF Cache!InUse, Cache!SearchInv
  <2> QED
    BY <1>1, <1>4, <2>1 DEF Cache!TypeOK, Cache!InUse
<1>5. CASE Cache!Link(p)
  <2>1. hashlock[other[p]] = p /\ hashlock[Cache!Idx(p)] = p
    BY <1>5 DEF Cache!Link, Cache!SearchInv, Cache!Searching, Cache!Recycling
  <2> QED
    BY <1>1, <1>5, <2>1 DEF Cache!TypeOK, Cache!Link
<1>6. CASE ~Cache!LockBucket(p) /\ ~Cache!LockOther(p) /\ ~Cache!Hit(p) /\ ~Cache!InUse(p) /\ ~Cache!Link(p)
  <2>1. hashlock' = hashlock
    BY <1>6 DEF CacheStep, Cache!Bget, Cache!FindNext, Cache!Miss, Cache!ReadDev, Cache!ReadBucket, Cache!dev,
       Cache!Unused, Cache!EraseNext, Cache!Erase, Cache!EraseNothing, Cache!SetDev, Cache!Retag,
       Cache!Invalidate, Cache!Own, Cache!Insert, Cache!AcquireSleep, Cache!CallBread,
       Cache!ReadDisk, Cache!Holder, Cache!CallBpin, Cache!Bpin, Cache!CallBunpin,
       Cache!Bunpin, Cache!ReleaseSleep, Cache!BrelseIdx, Cache!Brelse
  <2> QED
    BY <2>1
<1> QED
  BY <1>2, <1>3, <1>4, <1>5, <1>6

-----------------------------------------------------------------------------
(* Two processes are not at the same buckets. *)
LEMMA CacheApart ==
  ASSUME CacheSizes, Cache!SearchInv, NEW p \in Procs, NEW q \in Procs, p # q
  PROVE  /\ pc[p] \in Cache!Searching /\ pc[q] \in Cache!Searching => Cache!Idx(p) # Cache!Idx(q)
         /\ pc[p] \in Cache!Searching /\ pc[q] \in Cache!Recycling \cup {"test"} => Cache!Idx(p) # other[q]
         /\ pc[p] \in Cache!Recycling \cup {"test"} /\ pc[q] \in Cache!Recycling \cup {"test"} => other[p] # other[q]
BY DEF Cache!SearchInv

(* Who recycles a buffer has the bucket of its block locked. *)
LEMMA CacheRecyclerLocks ==
  ASSUME CacheSizes, Cache!SearchInv, Cache!RecycleInv, NEW p \in Procs, pc[p] \in Cache!Recycling, Cache!Mine(p) # 1
  PROVE  hashlock[Cache!hash(Cache!Mine(p))] = p
BY DEF Cache!SearchInv, Cache!RecycleInv, Cache!Recycling, Cache!Searching, Cache!Idx

LEMMA CacheOneRecycles ==
  ASSUME CacheSizes, Cache!RecycleInv, NEW p \in Procs, NEW q \in Procs,
         pc[p] \in Cache!Recycling, pc[q] \in Cache!Recycling, b[p] = b[q]
  PROVE  p = q
BY DEF Cache!RecycleInv

(* The processes that have x, and what their number says. *)
LEMMA CacheUsersAre ==
  ASSUME CacheSizes, NEW x
  PROVE  /\ IsFiniteSet(Cache!Users(x)) /\ Cardinality(Cache!Users(x)) \in Nat
         /\ Cardinality(Cache!Users(x)) < UINT_MAX
         /\ Cardinality(Cache!Users(x)) = 0 <=> Cache!Users(x) = {}
<1>1. Cache!Users(x) \subseteq Procs
  BY DEF Cache!Users
<1> QED
  BY <1>1, FS_Subset, FS_CardinalityType, FS_EmptySet DEF CacheSizes

(* The one that comes, or goes, is one more or less. *)
LEMMA CacheUsersChange ==
  ASSUME CacheSizes, Cache!TypeOK, NEW x, NEW p \in Procs, CacheStep(p)
  PROVE  /\ (p \in Cache!Users(x)' <=> p \in Cache!Users(x)) => Cache!Users(x)' = Cache!Users(x)
         /\ Cardinality(Cache!Users(x)') < UINT_MAX
         /\ p \in Cache!Users(x)' /\ p \notin Cache!Users(x) =>
              Cardinality(Cache!Users(x)') = Cardinality(Cache!Users(x)) + 1
         /\ p \notin Cache!Users(x)' /\ p \in Cache!Users(x) =>
              Cardinality(Cache!Users(x)') = Cardinality(Cache!Users(x)) - 1
<1>1. \A q \in Procs : q # p => (q \in Cache!Users(x)' <=> q \in Cache!Users(x))
  BY CacheOthersStay DEF Cache!Users
<1>2. Cache!Users(x) \subseteq Procs /\ Cache!Users(x)' \subseteq Procs
  BY DEF Cache!Users
<1>3. Cardinality(Cache!Users(x)') < UINT_MAX
  BY <1>2, FS_Subset, FS_CardinalityType DEF CacheSizes
<1>4. ASSUME p \in Cache!Users(x)', p \notin Cache!Users(x)
      PROVE  Cardinality(Cache!Users(x)') = Cardinality(Cache!Users(x)) + 1
  <2>1. Cache!Users(x)' = Cache!Users(x) \cup {p}
    BY <1>1, <1>2, <1>4
  <2> QED
    BY <1>4, <2>1, CacheUsersAre, FS_AddElement
<1>5. ASSUME p \notin Cache!Users(x)', p \in Cache!Users(x)
      PROVE  Cardinality(Cache!Users(x)') = Cardinality(Cache!Users(x)) - 1
  <2>1. Cache!Users(x)' = Cache!Users(x) \ {p}
    BY <1>1, <1>2, <1>5
  <2> QED
    BY <1>5, <2>1, CacheUsersAre, FS_RemoveElement
<1> QED
  BY <1>1, <1>2, <1>3, <1>4, <1>5

(* What is recycled is nobody's. *)
LEMMA CacheRecycledIsUnused ==
  ASSUME CacheSizes, Cache!TypeOK, ~stale, Cache!RecycleInv, Cache!RefcntCounts, NEW p \in Procs,
         pc[p] \in {"erase", "dev", "retag", "invalidate", "own"}
  PROVE  b[p] \in Cache!Bufs /\ Cache!Users(b[p]) = {} /\ pins[b[p]] = 0
<1>1. b[p] \in Cache!Bufs /\ refcnt[b[p]] = 0 /\ pins[b[p]] \in 0..1
  BY DEF Cache!RecycleInv, Cache!TypeOK
<1>2. refcnt[b[p]] = Cardinality(Cache!Users(b[p])) + pins[b[p]]
  BY <1>1, CacheCounts DEF Cache!RefcntCounts
<1>3. Cardinality(Cache!Users(b[p])) = 0
  BY <1>1, <1>2, CacheUsersAre
<1> QED
  BY <1>1, <1>2, <1>3, CacheUsersAre

(* A buffer on a list is nobody's that recycles, unless it is about to be  *)
(* taken off.                                                              *)
LEMMA CacheListedIs ==
  ASSUME CacheSizes, Cache!SearchInv, NEW p \in Procs, pc[p] \in Cache!Searching, NEW x \in Cache!List(Cache!Idx(p)),
         Cache!RecycleInv, NEW q \in Procs, pc[q] \in Cache!Recycling, b[q] = x
  PROVE  q = p
<1>1. hashlock[Cache!hash(Cache!Mine(q))] = q
  <2>1. pc[q] = "erase"
    BY DEF Cache!List, Cache!Off
  <2> QED
    BY <2>1, CacheRecyclerLocks DEF Cache!RecycleInv
<1>2. Cache!hash(Cache!Mine(q)) = Cache!Idx(p)
  BY DEF Cache!List, Cache!Mine
<1> QED
  BY <1>1, <1>2 DEF Cache!SearchInv

-----------------------------------------------------------------------------
(* Each step keeps each part.  A step is said where a process comes to.    *)

(* Where p goes. *)
LEMMA CacheMoves ==
  ASSUME CacheSizes, Cache!TypeOK, NEW p \in Procs, CacheStep(p)
  PROVE  /\ pc[p] = "idle" => pc'[p] = "bget"
         /\ pc[p] # "idle" => want'[p] = want[p] \/ pc'[p] = "idle"
         /\ pc'[p] = "find" => Cache!LockBucket(p) \/ Cache!FindNext(p)
         /\ pc'[p] = "next" => Cache!Miss(p) \/ Cache!InUse(p)
         /\ pc'[p] = "bucket" => Cache!ReadDev(p)
         /\ pc'[p] \in {"lock", "test"} => Cache!ReadBucket(p) \/ Cache!LockOther(p)
         /\ pc'[p] = "erase" => Cache!Unused(p) \/ Cache!EraseNext(p)
         /\ pc'[p] = "dev" => Cache!Erase(p) \/ Cache!EraseNothing(p)
         /\ pc'[p] = "retag" => Cache!SetDev(p)
         /\ pc'[p] = "invalidate" => Cache!Retag(p)
         /\ pc'[p] = "own" => Cache!Invalidate(p)
         /\ pc'[p] = "insert" => Cache!Own(p)
         /\ pc'[p] = "link" => Cache!Insert(p)
         /\ pc'[p] = "acquiresleep" => Cache!Hit(p) \/ Cache!Link(p)
         /\ pc'[p] = "read" => Cache!AcquireSleep(p)
         /\ pc'[p] = "using" => Cache!AcquireSleep(p) \/ Cache!ReadDisk(p) \/ Cache!Bpin(p) \/ Cache!Bunpin(p)
         /\ pc'[p] = "bpin" => Cache!CallBpin(p)
         /\ pc'[p] = "bunpin" => Cache!CallBunpin(p)
         /\ pc'[p] = "brelse" => Cache!ReleaseSleep(p)
         /\ pc'[p] = "unref" => Cache!BrelseIdx(p)
<1>0. pc \in [Procs -> Cache!PCs]
  BY DEF Cache!TypeOK
<1>1. CASE Cache!Bget(p)
  BY <1>0, <1>1 DEF Cache!Bget, Cache!LockBucket, Cache!FindNext, Cache!Hit, Cache!Miss,
     Cache!ReadDev, Cache!ReadBucket, Cache!dev, Cache!LockOther, Cache!InUse, Cache!Unused, Cache!EraseNext,
     Cache!Erase, Cache!EraseNothing, Cache!SetDev, Cache!Retag, Cache!Invalidate, Cache!Own,
     Cache!Insert, Cache!Link, Cache!AcquireSleep, Cache!Goto
<1>2. CASE ~Cache!Bget(p)
  BY <1>0, <1>2 DEF CacheStep, Cache!CallBread, Cache!ReadDisk, Cache!Holder,
     Cache!CallBpin, Cache!Bpin, Cache!CallBunpin, Cache!Bunpin, Cache!ReleaseSleep,
     Cache!BrelseIdx, Cache!Brelse, Cache!ReadIdx, Cache!Goto
<1> QED
  BY <1>1, <1>2

LEMMA CacheStepSearch ==
  ASSUME CacheSizes, Cache!TypeOK, Cache!Sound, NEW p \in Procs, CacheStep(p), Cache!TypeOK'
  PROVE  Cache!SearchInv'
<1>1. Cache!SearchInv
  BY DEF Cache!Sound
<1> DEFINE Wanted(q) == pc[q] # "idle" => want[q] \in Blocks
           Locks(q) == /\ pc[q] \in Cache!Searching => hashlock[Cache!Idx(q)] = q
                       /\ pc[q] \in Cache!Recycling \cup {"test"} => hashlock[other[q]] = q
           Missed(q) == pc[q] \in {"next", "bucket", "lock", "test", "erase", "dev", "retag"} =>
                          \A x \in Cache!Bufs : blk[x] # want[q]
<1>2. ASSUME NEW q \in Procs, q # p PROVE Wanted(q)' /\ Locks(q)' /\ Missed(q)'
  <2>1. /\ pc'[q] = pc[q] /\ want'[q] = want[q] /\ other'[q] = other[q]
        /\ Wanted(q) /\ Locks(q) /\ Missed(q) /\ Cache!Idx(q)' = Cache!Idx(q)
    BY <1>1, <1>2, CacheOthersStay DEF Cache!SearchInv
  <2>2. Locks(q)'
    BY <1>1, <1>2, <2>1, CacheLocalTypes, CacheLocksStep
  <2>3. Missed(q)'
    <3> SUFFICES ASSUME pc[q] \in {"next", "bucket", "lock", "test", "erase", "dev", "retag"}, NEW x \in Cache!Bufs
                 PROVE  blk'[x] # want[q]
      BY <2>1
    <3>1. CASE ~Cache!SetDev(p) /\ ~Cache!Retag(p)
      BY <2>1, <3>1, CacheBlkStep
    <3>3. CASE Cache!SetDev(p)
      <4>1. want[q] \in Blocks /\ blk[x] # want[q] /\ 1 \notin Blocks
        BY <1>1, <2>1, CacheSmallTypes DEF Cache!SearchInv
      <4> QED
        BY <3>3, <4>1 DEF Cache!TypeOK, Cache!SetDev
    <3>2. CASE Cache!Retag(p)
      <4>1. Cache!Idx(p) # Cache!Idx(q)
        BY <1>1, <1>2, <3>2, CacheApart DEF Cache!SetDev, Cache!Retag, Cache!Searching
      <4>2. want[p] # want[q]
        BY <4>1 DEF Cache!Idx
      <4> QED
        BY <2>1, <3>2, <4>2, CacheLocalTypes DEF Cache!TypeOK, Cache!Retag
    <3> QED
      BY <3>1, <3>2, <3>3
  <2> QED
    BY <2>1, <2>2, <2>3
<1>3. Wanted(p)'
  <2>1. CASE pc[p] = "idle"
    BY <2>1 DEF CacheStep, Cache!CallBread, Cache!Bget, Cache!ReadDisk, Cache!Holder,
       Cache!LockBucket, Cache!FindNext, Cache!Hit, Cache!Miss, Cache!ReadDev, Cache!ReadBucket, Cache!dev,
       Cache!LockOther, Cache!InUse, Cache!Unused, Cache!EraseNext, Cache!Erase,
       Cache!EraseNothing, Cache!SetDev, Cache!Retag, Cache!Invalidate, Cache!Own, Cache!Insert,
       Cache!Link, Cache!AcquireSleep, Cache!CallBpin, Cache!Bpin, Cache!CallBunpin,
       Cache!Bunpin, Cache!ReleaseSleep, Cache!BrelseIdx, Cache!Brelse, Cache!TypeOK
  <2>2. CASE pc[p] # "idle"
    BY <1>1, <2>2, CacheMoves DEF Cache!SearchInv
  <2> QED
    BY <2>1, <2>2
<1>4. Locks(p)' /\ Missed(p)'
  <2> DEFINE C == /\ pc[p] \in Cache!Searching => hashlock[Cache!Idx(p)] = p
                  /\ pc[p] \in Cache!Recycling \cup {"test"} => hashlock[other[p]] = p
                  /\ pc[p] \in {"next", "bucket", "lock", "test", "erase", "dev", "retag"} =>
                       \A x \in Cache!Bufs : blk[x] # want[p]
                  /\ Cache!Idx(p) \in Cache!Buckets /\ other[p] \in Cache!Buckets
                  /\ p # None
  <2>1. C
    BY <1>1, CacheLocalTypes DEF CacheSizes, Cache!SearchInv
  <2> USE DEF Cache!Searching, Cache!Recycling, Cache!Idx, Cache!Goto, Cache!lists, Cache!buffers
  <2>2. CASE Cache!LockBucket(p) \/ Cache!FindNext(p)
    BY <2>1, <2>2 DEF Cache!LockBucket, Cache!FindNext, Cache!TypeOK
  <2>3. CASE Cache!Miss(p)
    <3>1. pc'[p] = "next" /\ UNCHANGED <<blk, hashlock, want, other>>
      BY <2>3 DEF Cache!Miss, Cache!TypeOK
    <3>2. ASSUME NEW x \in Cache!Bufs, blk[x] = want[p] PROVE FALSE
      <4>1. want[p] # 0 /\ Cache!hash(blk[x]) = Cache!Idx(p)
        BY <1>1, <2>3, <3>2, CacheSmallTypes DEF Cache!SearchInv, Cache!Miss
      <4>2. x \notin Cache!List(Cache!Idx(p))
        BY <2>3, <3>2 DEF Cache!Miss, Cache!Sound, Cache!Ordered, Cache!WalkInv, Cache!Walk
      <4>3. PICK q \in Procs : b[q] = x /\ pc[q] \in Cache!Recycling
        BY <3>2, <4>1, <4>2 DEF Cache!List, Cache!Off
      <4>6. want[p] # 1
        BY <1>1, <2>3, CacheSmallTypes DEF Cache!SearchInv, Cache!Miss
      <4>4. hashlock[Cache!Idx(p)] = q
        <5>1. Cache!hash(Cache!Mine(q)) = Cache!Idx(p)
          BY <4>1, <4>3 DEF Cache!Mine
        <5> QED
          BY <3>2, <4>3, <5>1, <4>6, CacheRecyclerLocks DEF Cache!Sound, Cache!Mine
      <4>5. hashlock[Cache!Idx(p)] = p
        BY <2>1, <2>3 DEF Cache!Miss
      <4> QED
        BY <2>3, <4>3, <4>4, <4>5 DEF Cache!Miss
    <3> QED
      BY <2>1, <2>3, <3>1, <3>2 DEF Cache!Miss
  <2>4. CASE Cache!ReadDev(p) \/ Cache!ReadBucket(p)
    BY <2>1, <2>4 DEF Cache!ReadDev, Cache!ReadBucket, Cache!TypeOK
  <2>5. CASE Cache!LockOther(p)
    BY <2>1, <2>5 DEF Cache!LockOther, Cache!TypeOK
  <2>6. CASE Cache!InUse(p)
    BY <2>1, <2>6 DEF Cache!InUse, Cache!TypeOK
  <2>7. CASE Cache!Unused(p) \/ Cache!EraseNext(p) \/ Cache!Erase(p) \/ Cache!EraseNothing(p)
    BY <2>1, <2>7 DEF Cache!Unused, Cache!EraseNext, Cache!Erase, Cache!EraseNothing,
       Cache!TypeOK
  <2>10. CASE Cache!SetDev(p)
    <3>1. want[p] # 1
      BY <1>1, <2>10, CacheSmallTypes DEF Cache!SetDev, Cache!SearchInv
    <3> QED
      BY <2>1, <2>10, <3>1 DEF Cache!SetDev, Cache!TypeOK
  <2>8. CASE Cache!Retag(p) \/ Cache!Invalidate(p) \/ Cache!Own(p) \/ Cache!Insert(p)
    BY <2>1, <2>8 DEF Cache!Retag, Cache!Invalidate, Cache!Own, Cache!Insert, Cache!TypeOK
  <2>9. CASE ~(\/ Cache!LockBucket(p) \/ Cache!FindNext(p) \/ Cache!Miss(p) \/ Cache!ReadDev(p) \/ Cache!SetDev(p) \/ Cache!ReadBucket(p) \/ Cache!LockOther(p) \/ Cache!InUse(p)
               \/ Cache!Unused(p) \/ Cache!EraseNext(p) \/ Cache!Erase(p) \/ Cache!EraseNothing(p)
               \/ Cache!Retag(p) \/ Cache!Invalidate(p) \/ Cache!Own(p) \/ Cache!Insert(p))
    <3>1. pc'[p] \notin Cache!Searching
      BY <2>9, CacheMoves
    <3> QED
      BY <3>1
  <2> QED
    BY <2>2, <2>3, <2>4, <2>5, <2>6, <2>7, <2>8, <2>9, <2>10
<1> QED
  BY <1>2, <1>3, <1>4 DEF Cache!SearchInv

LEMMA CacheStepOneBuffer ==
  ASSUME CacheSizes, Cache!TypeOK, Cache!Sound, ~stale, NEW p \in Procs, CacheStep(p)
  PROVE  Cache!OneBufferPerBlock'
<1>1. Cache!SearchInv /\ Cache!OneBufferPerBlock
  BY DEF Cache!Sound
<1>2. CASE ~Cache!SetDev(p) /\ ~Cache!Retag(p)
  BY <1>1, <1>2, CacheBlkStep DEF Cache!OneBufferPerBlock
<1>4. CASE Cache!SetDev(p)
  BY <1>1, <1>4, CacheSmallTypes DEF Cache!TypeOK, Cache!SetDev, Cache!OneBufferPerBlock
<1>3. CASE Cache!Retag(p)
  <2>1. b[p] \in Cache!Bufs /\ blk' = [blk EXCEPT ![b[p]] = want[p]]
    BY <1>3, CacheLocalTypes DEF Cache!SetDev, Cache!Retag
  <2>2. \A x \in Cache!Bufs : blk[x] # want[p]
    BY <1>1, <1>3 DEF Cache!SetDev, Cache!Retag, Cache!SearchInv
  <2> QED
    BY <1>1, <2>1, <2>2 DEF Cache!TypeOK, Cache!OneBufferPerBlock
<1> QED
  BY <1>2, <1>3, <1>4

(* A user's buffer is recycled by nobody. *)
LEMMA CacheUsersKeep ==
  ASSUME CacheSizes, Cache!TypeOK, Cache!Sound, ~stale, NEW p \in Procs, CacheStep(p),
         NEW q \in Procs, pc[q] \in Cache!Using
  PROVE  /\ blk'[b[q]] = blk[b[q]]
         /\ valid[b[q]] => valid'[b[q]]
<1>1. Cache!RecycleInv /\ Cache!RefcntCounts /\ b[q] \in Cache!Bufs /\ q \in Cache!Users(b[q])
  BY CacheLocalTypes DEF Cache!Sound, Cache!Users, Cache!Using
<1>2. ASSUME Cache!SetDev(p) \/ Cache!Retag(p) \/ Cache!Invalidate(p) PROVE b[p] \in Cache!Bufs /\ b[p] # b[q]
  BY <1>1, <1>2, CacheRecycledIsUnused DEF Cache!SetDev, Cache!Retag, Cache!Invalidate
<1>3. blk'[b[q]] = blk[b[q]]
  BY <1>1, <1>2, CacheBlkStep DEF Cache!TypeOK, Cache!SetDev, Cache!Retag
<1>4. valid[b[q]] => valid'[b[q]]
  <2>1. CASE Cache!Invalidate(p)
    BY <1>1, <1>2, <2>1 DEF Cache!TypeOK, Cache!Invalidate
  <2>2. CASE Cache!ReadDisk(p)
    BY <1>1, <2>2, CacheLocalTypes DEF Cache!TypeOK, Cache!ReadDisk
  <2> QED
    BY <2>1, <2>2, CacheDataStep
<1> QED
  BY <1>3, <1>4

LEMMA CacheStepUse ==
  ASSUME CacheSizes, Cache!TypeOK, Cache!Sound, ~stale, NEW p \in Procs, CacheStep(p)
  PROVE  Cache!UseInv'
<1> USE DEF Cache!Using
<1> DEFINE Has(q) == /\ pc[q] \in Cache!Using => Cache!Mine(q) = want[q]
                     /\ pc[q] \in {"read", "using", "bpin", "bunpin"} => slock[b[q]] = q
                     /\ pc[q] \in {"using", "bpin", "bunpin"} => valid[b[q]]
                     /\ pc[q] = "bpin" => pins[b[q]] = 0
                     /\ pc[q] = "bunpin" => pins[b[q]] = 1
<1>1. Cache!UseInv
  BY DEF Cache!Sound
<1>2. ASSUME NEW q \in Procs, q # p PROVE Has(q)'
  <2>1. /\ pc'[q] = pc[q] /\ want'[q] = want[q] /\ b'[q] = b[q]
        /\ Has(q) /\ b[q] \in Cache!Bufs /\ q # None
    BY <1>1, <1>2, CacheOthersStay, CacheLocalTypes DEF CacheSizes, Cache!UseInv
  <2>2. ASSUME pc[q] \in Cache!Using
        PROVE  blk'[b[q]] = want[q] /\ (valid[b[q]] => valid'[b[q]])
    BY <2>1, <2>2, CacheUsersKeep DEF Cache!Mine
  <2>3. ASSUME pc[q] \in {"read", "using", "bpin", "bunpin"}
        PROVE  slock'[b[q]] = q /\ pins'[b[q]] = pins[b[q]]
    <3>1. slock'[b[q]] = q
      <4>1. CASE Cache!AcquireSleep(p)
        BY <2>1, <2>3, <4>1 DEF Cache!AcquireSleep, Cache!TypeOK
      <4>2. CASE Cache!ReleaseSleep(p)
        <5>1. slock[b[p]] = p
          BY <1>1, <4>2 DEF Cache!ReleaseSleep, Cache!UseInv
        <5> QED
          BY <1>2, <2>1, <2>3, <4>2, <5>1 DEF Cache!ReleaseSleep, Cache!TypeOK
      <4> QED
        BY <2>1, <2>3, <4>1, <4>2, CacheSlockStep
    <3>2. pins'[b[q]] = pins[b[q]]
      <4>1. CASE Cache!Bpin(p) \/ Cache!Bunpin(p)
        <5>1. slock[b[p]] = p
          BY <1>1, <4>1 DEF Cache!Bpin, Cache!Bunpin, Cache!UseInv
        <5>2. b[p] # b[q]
          BY <1>2, <2>1, <2>3, <5>1
        <5> QED
          BY <2>1, <4>1, <5>2, CacheLocalTypes DEF Cache!Bpin, Cache!Bunpin, Cache!TypeOK
      <4>2. CASE Cache!Hit(p) \/ Cache!Own(p) \/ Cache!Brelse(p)
        BY <4>2 DEF Cache!Hit, Cache!Own, Cache!Brelse
      <4> QED
        BY <4>1, <4>2, CacheCountsStep
    <3> QED
      BY <3>1, <3>2
  <2> QED
    BY <2>1, <2>2, <2>3 DEF Cache!Mine
<1>3. Has(p)'
  <2>1. Has(p) /\ b[p] \in Cache!Bufs
    BY <1>1, CacheLocalTypes DEF Cache!UseInv
  <2> USE DEF Cache!Mine, Cache!Goto, Cache!Look, Cache!buffers
  <2>2. CASE Cache!Hit(p)
    BY <2>2 DEF Cache!Hit, Cache!TypeOK
  <2>3. CASE Cache!Link(p)
    BY <2>3 DEF Cache!Link, Cache!TypeOK, Cache!Sound, Cache!RecycleInv
  <2>4. CASE Cache!AcquireSleep(p)
    BY <2>1, <2>4 DEF Cache!AcquireSleep, Cache!TypeOK
  <2>5. CASE Cache!ReadDisk(p)
    BY <2>1, <2>5 DEF Cache!ReadDisk, Cache!TypeOK
  <2>6. CASE Cache!Bpin(p) \/ Cache!Bunpin(p)
    BY <2>1, <2>6 DEF Cache!Bpin, Cache!Bunpin, Cache!TypeOK
  <2>7. CASE Cache!CallBpin(p) \/ Cache!CallBunpin(p) \/ Cache!BrelseIdx(p)
    BY <2>1, <2>7 DEF Cache!CallBpin, Cache!CallBunpin, Cache!BrelseIdx, Cache!ReadIdx,
       Cache!TypeOK
  <2>8. CASE Cache!ReleaseSleep(p)
    BY <2>1, <2>8 DEF Cache!ReleaseSleep, Cache!TypeOK
  <2>9. CASE ~(\/ Cache!Hit(p) \/ Cache!Link(p) \/ Cache!AcquireSleep(p) \/ Cache!ReadDisk(p) \/ Cache!Bpin(p) \/ Cache!Bunpin(p)
               \/ Cache!CallBpin(p) \/ Cache!CallBunpin(p) \/ Cache!BrelseIdx(p) \/ Cache!ReleaseSleep(p))
    <3>1. pc'[p] \notin Cache!Using
      BY <2>9, CacheMoves
    <3> QED
      BY <3>1
  <2> QED
    BY <2>2, <2>3, <2>4, <2>5, <2>6, <2>7, <2>8, <2>9
<1>4. \A q \in Procs : Has(q)'
  BY <1>2, <1>3
<1> QED
  BY <1>4 DEF Cache!UseInv

LEMMA CacheStepData ==
  ASSUME CacheSizes, Cache!TypeOK, Cache!Sound, ~stale, NEW p \in Procs, CacheStep(p)
  PROVE  Cache!DataInv'
<1> SUFFICES ASSUME NEW x \in Cache!Bufs, valid'[x]
             PROVE  \/ data'[x] = blk'[x]
                    \/ \E q \in Procs : b'[q] = x /\ pc'[q] \in {"retag", "invalidate"}
  BY DEF Cache!DataInv
<1>1. /\ valid[x] => \/ data[x] = blk[x]
                     \/ \E q \in Procs : b[q] = x /\ pc[q] \in {"retag", "invalidate"}
      /\ b[p] \in Cache!Bufs
  BY CacheLocalTypes DEF Cache!Sound, Cache!DataInv
<1>2. CASE Cache!SetDev(p) \/ Cache!Retag(p)
  <2>1. CASE x = b[p]
    BY <1>2, <2>1 DEF Cache!SetDev, Cache!Retag, Cache!Goto, Cache!TypeOK
  <2>2. CASE x # b[p]
    <3>1. valid' = valid /\ data' = data /\ blk'[x] = blk[x] /\ b' = b
      BY <1>1, <1>2, <2>2 DEF Cache!SetDev, Cache!Retag, Cache!TypeOK
    <3>2. \A q \in Procs : pc[q] \in {"retag", "invalidate"} => pc'[q] \in {"retag", "invalidate"}
      BY <1>2 DEF Cache!SetDev, Cache!Retag, Cache!Goto, Cache!TypeOK
    <3> QED
      BY <1>1, <3>1, <3>2
  <2> QED
    BY <2>1, <2>2
<1>3. CASE Cache!Invalidate(p)
  <2>1. x # b[p] /\ valid[x] /\ data' = data /\ blk' = blk /\ b' = b
    BY <1>1, <1>3 DEF Cache!Invalidate, Cache!TypeOK
  <2>2. \A q \in Procs : pc[q] \in {"retag", "invalidate"} /\ b[q] = x => pc'[q] \in {"retag", "invalidate"}
    BY <1>3, <2>1 DEF Cache!Invalidate, Cache!Goto, Cache!TypeOK
  <2> QED
    BY <1>1, <2>1, <2>2
<1>4. CASE ~Cache!SetDev(p) /\ ~Cache!Retag(p) /\ ~Cache!Invalidate(p)
  <2>1. blk' = blk
    BY <1>4, CacheBlkStep
  <2>2. ASSUME NEW q \in Procs, b[q] = x, pc[q] \in {"retag", "invalidate"}
        PROVE  b'[q] = x /\ pc'[q] \in {"retag", "invalidate"}
    <3>1. p # q
      BY <1>4, <2>2 DEF CacheStep, Cache!Bget, Cache!LockBucket, Cache!FindNext, Cache!Hit,
         Cache!Miss, Cache!ReadDev, Cache!ReadBucket, Cache!dev, Cache!LockOther, Cache!InUse, Cache!Unused,
         Cache!EraseNext, Cache!Erase, Cache!EraseNothing, Cache!Own, Cache!Insert,
         Cache!Link, Cache!AcquireSleep, Cache!CallBread, Cache!ReadDisk, Cache!Holder,
         Cache!CallBpin, Cache!Bpin, Cache!CallBunpin, Cache!Bunpin, Cache!ReleaseSleep,
         Cache!BrelseIdx, Cache!Brelse
    <3> QED
      BY <2>2, <3>1, CacheOthersStay
  <2>3. CASE Cache!ReadDisk(p)
    BY <1>1, <2>1, <2>2, <2>3 DEF Cache!ReadDisk, Cache!TypeOK, Cache!Mine
  <2>4. CASE ~Cache!ReadDisk(p)
    BY <1>1, <1>4, <2>1, <2>2, <2>4, CacheDataStep
  <2> QED
    BY <2>3, <2>4
<1> QED
  BY <1>2, <1>3, <1>4

(* What is on a list that p walks is not in another's hands. *)
LEMMA CacheStepRecycle ==
  ASSUME CacheSizes, Cache!TypeOK, Cache!Sound, ~stale, ~stale', NEW p \in Procs, CacheStep(p)
  PROVE  Cache!RecycleInv'
<1> USE DEF Cache!Recycling
<1> DEFINE Has(q) == /\ pc[q] = "erase" => key[q] = Cache!Mine(q)
                     /\ pc[q] \in {"erase", "dev"} => Cache!Mine(q) # 1 /\ Cache!hash(Cache!Mine(q)) = other[q]
                     /\ pc[q] = "retag" /\ Cache!Mine(q) # 1 => Cache!hash(Cache!Mine(q)) = other[q]
                     /\ pc[q] \in {"erase", "dev", "retag", "invalidate", "own"} => refcnt[b[q]] = 0
                     /\ pc[q] \in {"invalidate", "own", "insert", "link"} => Cache!Mine(q) = want[q]
                     /\ pc[q] \in {"insert", "link"} => key[q] = want[q]
                     /\ pc[q] = "link" => next[b[q]] = first[Cache!Idx(q)]
<1>1. Cache!RecycleInv /\ Cache!SearchInv /\ Cache!RefcntCounts /\ b[p] \in Cache!Bufs
  BY CacheLocalTypes DEF Cache!Sound
<1>2. ASSUME NEW q \in Procs, q # p PROVE Has(q)'
  <2>1. /\ pc'[q] = pc[q] /\ want'[q] = want[q] /\ b'[q] = b[q] /\ other'[q] = other[q]
        /\ key'[q] = key[q] /\ Cache!Idx(q)' = Cache!Idx(q)
        /\ Has(q) /\ b[q] \in Cache!Bufs
    BY <1>1, <1>2, CacheOthersStay, CacheLocalTypes DEF Cache!RecycleInv
  <2>2. ASSUME pc[q] \in Cache!Recycling, pc[p] \in Cache!Recycling PROVE b[p] # b[q]
    BY <1>1, <1>2, <2>2, CacheOneRecycles
  <2>3. ASSUME pc[q] \in Cache!Recycling PROVE blk'[b[q]] = blk[b[q]]
    <3>1. CASE Cache!SetDev(p) \/ Cache!Retag(p)
      BY <1>1, <2>1, <2>2, <2>3, <3>1 DEF Cache!SetDev, Cache!Retag, Cache!TypeOK
    <3> QED
      BY <3>1, CacheBlkStep
  <2>4. ASSUME pc[q] \in {"erase", "dev", "retag", "invalidate", "own"} PROVE refcnt'[b[q]] = 0
    <3>1. refcnt[b[q]] = 0 /\ Cache!Users(b[q]) = {}
      BY <1>1, <2>4, CacheRecycledIsUnused DEF Cache!RecycleInv
    <3>2. CASE Cache!Hit(p)
      <4>1. at[p] \in Cache!List(Cache!Idx(p)) /\ pc[p] = "find"
        BY <3>2 DEF Cache!Hit, Cache!Sound, Cache!Ordered, Cache!WalkInv, Cache!Walk
      <4>2. at[p] # b[q] /\ at[p] \in Cache!Bufs
        BY <1>1, <1>2, <2>4, <4>1, CacheListedIs DEF Cache!Searching, Cache!List
      <4> QED
        BY <2>1, <3>1, <3>2, <4>2 DEF Cache!Hit, Cache!Count, Cache!TypeOK
    <3>3. CASE Cache!Own(p)
      BY <2>1, <2>2, <2>4, <3>1, <3>3 DEF Cache!Own, Cache!TypeOK
    <3>4. CASE Cache!Bpin(p) \/ Cache!Bunpin(p) \/ Cache!Brelse(p)
      <4>1. p \in Cache!Users(b[p])
        BY <3>4 DEF Cache!Bpin, Cache!Bunpin, Cache!Brelse, Cache!Users
      <4>2. b[p] # b[q]
        BY <3>1, <4>1
      <4> QED
        BY <1>1, <2>1, <3>1, <3>4, <4>2 DEF Cache!Bpin, Cache!Bunpin, Cache!Brelse,
           Cache!Count, Cache!TypeOK
    <3> QED
      BY <3>1, <3>2, <3>3, <3>4, CacheCountsStep
  <2>5. ASSUME pc[q] = "link" PROVE next'[b[q]] = first'[Cache!Idx(q)]
    <3>1. next[b[q]] = first[Cache!Idx(q)] /\ Cache!Idx(q) \in Cache!Buckets
      BY <2>1, <2>5, CacheLocalTypes
    <3>2. CASE Cache!Insert(p)
      BY <2>1, <2>2, <2>5, <3>1, <3>2 DEF Cache!Insert, Cache!TypeOK
    <3>3. CASE Cache!Link(p)
      <4>1. Cache!Idx(p) # Cache!Idx(q) /\ Cache!hash(key[p]) = Cache!Idx(p)
        BY <1>1, <1>2, <2>5, <3>3, CacheApart DEF Cache!Link, Cache!RecycleInv,
           Cache!Searching, Cache!Idx
      <4> QED
        BY <3>1, <3>3, <4>1 DEF Cache!Link, Cache!TypeOK
    <3>4. CASE Cache!Erase(p)
      <4>1. other[p] # Cache!Idx(q) /\ Cache!hash(key[p]) = other[p]
        BY <1>1, <1>2, <2>5, <3>4, CacheApart DEF Cache!Erase, Cache!RecycleInv,
           Cache!Searching
      <4>2. at[p] # b[q]
        <5>1. at[p] # 0 => at[p] \in Cache!List(other[p])
          BY <3>4 DEF Cache!Erase, Cache!Sound, Cache!Ordered, Cache!WalkInv, Cache!Walk
        <5>2. b[q] \notin Cache!List(other[p])
          BY <2>5 DEF Cache!List, Cache!Off
        <5> QED
          BY <2>1, <5>1, <5>2, CacheSmallTypes
      <4> QED
        BY <2>1, <3>1, <3>4, <4>1, <4>2, CacheLocalTypes DEF Cache!Erase, Cache!TypeOK
    <3> QED
      BY <3>1, <3>2, <3>3, <3>4, CacheListsStep
  <2>6. Has(q)'
    BY <2>1, <2>3, <2>4, <2>5 DEF Cache!Mine
  <2> QED
    BY <2>6
<1>3. Has(p)'
  <2>1. Has(p) /\ b[p] \in Cache!Bufs /\ Cache!Idx(p) \in Cache!Buckets
    BY <1>1, CacheLocalTypes DEF Cache!RecycleInv
  <2> USE DEF Cache!Mine, Cache!Goto, Cache!Look, Cache!Remember, Cache!WalkAt, Cache!buffers, Cache!lists
  <2>2. CASE Cache!Unused(p)
    <3>1. Cache!Mine(p) # 1
      BY <1>1, <2>1, <2>2 DEF Cache!Unused, Cache!Sound, Cache!HalfInv
    <3> QED
      BY <2>1, <2>2, <3>1 DEF Cache!Unused, Cache!TypeOK
  <2>3. CASE Cache!EraseNext(p) \/ Cache!EraseNothing(p) \/ Cache!Erase(p)
    BY <2>1, <2>3 DEF Cache!EraseNext, Cache!EraseNothing, Cache!Erase, Cache!TypeOK
  <2>4. CASE Cache!SetDev(p) \/ Cache!Retag(p)
    BY <2>1, <2>4 DEF Cache!SetDev, Cache!Retag, Cache!TypeOK
  <2>5. CASE Cache!Invalidate(p)
    BY <2>1, <2>5 DEF Cache!Invalidate, Cache!TypeOK
  <2>6. CASE Cache!Own(p)
    BY <2>1, <2>6 DEF Cache!Own, Cache!TypeOK
  <2>7. CASE Cache!Insert(p)
    BY <2>1, <2>7 DEF Cache!Insert, Cache!TypeOK, Cache!Idx
  <2>8. CASE ~(\/ Cache!Unused(p) \/ Cache!EraseNext(p) \/ Cache!EraseNothing(p) \/ Cache!Erase(p)
               \/ Cache!SetDev(p) \/ Cache!Retag(p) \/ Cache!Invalidate(p) \/ Cache!Own(p) \/ Cache!Insert(p))
    <3>1. pc'[p] \notin Cache!Recycling
      BY <2>8, CacheMoves
    <3> QED
      BY <3>1
  <2> QED
    BY <2>2, <2>3, <2>4, <2>5, <2>6, <2>7, <2>8
<1>4. \A q \in Procs : Has(q)'
  BY <1>2, <1>3
<1>5. \A q, r \in Procs : pc'[q] \in Cache!Recycling /\ pc'[r] \in Cache!Recycling /\ b'[q] = b'[r] => q = r
  <2>1. \A q \in Procs : q # p => pc'[q] = pc[q] /\ b'[q] = b[q]
    BY CacheOthersStay
  <2>2. CASE pc'[p] \in Cache!Recycling
    <3>1. b' = b
      BY <2>2, CacheMoves DEF Cache!Unused, Cache!EraseNext, Cache!Erase, Cache!EraseNothing,
         Cache!SetDev, Cache!Retag, Cache!Invalidate, Cache!Own, Cache!Insert
    <3>2. CASE pc[p] \in Cache!Recycling
      BY <1>1, <2>1, <3>1, <3>2, CacheOneRecycles
    <3>3. CASE pc[p] \notin Cache!Recycling
      <4>1. Cache!Unused(p)
        BY <2>2, <3>3, CacheMoves DEF Cache!EraseNext, Cache!Erase, Cache!EraseNothing,
           Cache!SetDev, Cache!Retag, Cache!Invalidate, Cache!Own, Cache!Insert
      <4>2. \A q \in Procs \ {p} : ~(pc[q] \in Cache!Recycling /\ b[q] = b[p])
        BY <4>1 DEF Cache!Unused
      <4> QED
        BY <1>1, <2>1, <3>1, <4>2, CacheOneRecycles
    <3> QED
      BY <3>2, <3>3
  <2>3. CASE pc'[p] \notin Cache!Recycling
    BY <1>1, <2>1, <2>3, CacheOneRecycles
  <2> QED
    BY <2>2, <2>3
<1> QED
  BY <1>4, <1>5 DEF Cache!RecycleInv

LEMMA CacheStepHalf ==
  ASSUME CacheSizes, Cache!TypeOK, Cache!Sound, ~stale, NEW p \in Procs, CacheStep(p), NEW x \in Cache!Bufs, blk'[x] = 1
  PROVE  \E q \in Procs : b'[q] = x /\ pc'[q] = "retag"
<1>1. b[p] \in Cache!Bufs /\ Cache!HalfInv /\ want[p] \in Blocks \cup {0} /\ 1 \notin Blocks
  BY CacheLocalTypes, CacheSmallTypes DEF Cache!Sound
<1>2. CASE Cache!SetDev(p) /\ x = b[p]
  BY <1>2 DEF Cache!SetDev, Cache!Goto, Cache!TypeOK
<1>3. CASE ~(Cache!SetDev(p) /\ x = b[p])
  <2>1. blk[x] = 1 /\ ~(Cache!Retag(p) /\ x = b[p])
    <3>1. CASE Cache!SetDev(p) \/ Cache!Retag(p)
      BY <1>1, <1>3, <3>1 DEF Cache!SetDev, Cache!Retag, Cache!TypeOK
    <3> QED
      BY <3>1, CacheBlkStep
  <2>2. PICK q \in Procs : b[q] = x /\ pc[q] = "retag"
    BY <1>1, <2>1 DEF Cache!HalfInv
  <2>3. pc[p] = "retag" => Cache!Retag(p)
    BY DEF CacheStep, Cache!Bget, Cache!LockBucket, Cache!FindNext, Cache!Hit, Cache!Miss,
       Cache!ReadDev, Cache!ReadBucket, Cache!LockOther, Cache!InUse, Cache!Unused,
       Cache!EraseNext, Cache!Erase, Cache!EraseNothing, Cache!SetDev, Cache!Invalidate,
       Cache!Own, Cache!Insert, Cache!Link, Cache!AcquireSleep, Cache!CallBread,
       Cache!ReadDisk, Cache!Holder, Cache!CallBpin, Cache!Bpin, Cache!CallBunpin,
       Cache!Bunpin, Cache!ReleaseSleep, Cache!BrelseIdx, Cache!Brelse
  <2>4. q # p
    BY <2>1, <2>2, <2>3
  <2> QED
    BY <2>2, <2>4, CacheOthersStay
<1> QED
  BY <1>2, <1>3

-----------------------------------------------------------------------------
(* Counts.                                                                 *)

(* A count is one more, or one less; it does not wrap round. *)
LEMMA CacheCountIs ==
  ASSUME CacheSizes, Cache!TypeOK, NEW x \in Cache!Bufs
  PROVE  /\ refcnt[x] < UINT_MAX /\ Cache!Count(x, Cache!Inc) =>
              refcnt' = [refcnt EXCEPT ![x] = refcnt[x] + 1]
         /\ refcnt[x] > 0 /\ Cache!Count(x, Cache!Dec) =>
              refcnt' = [refcnt EXCEPT ![x] = refcnt[x] - 1]
<1> DEFINE k == refcnt[x]
           m == UINT_MAX + 1
<1>1. k \in Nat /\ m \in Nat \ {0} /\ k < m
  BY DEF CacheSizes, Cache!TypeOK
<1>2. UINT_MAX = m - 1
  BY DEF CacheSizes
<1>3. Cache!Count(x, Cache!Inc) => refcnt' = [refcnt EXCEPT ![x] = (k + 1) % m]
  BY DEF Cache!Count, Cache!Inc
<1>4. Cache!Count(x, Cache!Dec) => refcnt' = [refcnt EXCEPT ![x] = (k + (m - 1)) % m]
  BY <1>2 DEF Cache!Count, Cache!Dec
<1> HIDE DEF k, m
<1>5. k < m - 1 => (k + 1) % m = k + 1
  BY <1>1
<1>6. k > 0 => (k + (m - 1)) % m = k - 1
  BY <1>1
<1> QED
  BY <1>2, <1>3, <1>4, <1>5, <1>6 DEF k

(* Each step counts what it changes. *)
LEMMA CacheStepCounts ==
  ASSUME CacheSizes, Cache!TypeOK, Cache!Sound, ~stale, NEW p \in Procs, CacheStep(p), NEW x \in Cache!Bufs
  PROVE  refcnt'[x] = Cardinality(Cache!Users(x)') + pins'[x]
<1>1. /\ refcnt[x] = Cardinality(Cache!Users(x)) + pins[x]
      /\ refcnt[x] \in 0..UINT_MAX /\ pins[x] \in 0..1
      /\ Cardinality(Cache!Users(x)) \in Nat /\ Cardinality(Cache!Users(x)) < UINT_MAX
      /\ Cardinality(Cache!Users(x)') < UINT_MAX
      /\ UINT_MAX \in Nat /\ b[p] \in Cache!Bufs
  BY CacheUsersAre, CacheUsersChange, CacheCounts DEF CacheSizes, Cache!Sound,
     Cache!RefcntCounts, Cache!TypeOK
<1> DEFINE Has == {"insert", "link", "acquiresleep", "read", "using",
                   "bpin", "bunpin", "brelse", "unref"}
<1>2. /\ p \in Cache!Users(x) <=> b[p] = x /\ pc[p] \in Has
      /\ p \in Cache!Users(x)' <=> b'[p] = x /\ pc'[p] \in Has
  BY DEF Cache!Users
<1>3. pc \in [Procs -> Cache!PCs] /\ b \in [Procs -> Cache!Bufs] /\ refcnt \in [Cache!Bufs -> 0..UINT_MAX]
      /\ pins \in [Cache!Bufs -> 0..1]
  BY DEF Cache!TypeOK
<1>4. CASE Cache!Hit(p)
  <2>1. at[p] \in Cache!Bufs
    BY <1>4, CacheLocalTypes DEF Cache!Hit
  <2>2. p \notin Cache!Users(x) /\ (p \in Cache!Users(x)' <=> x = at[p])
    BY <1>2, <1>3, <1>4 DEF Cache!Hit, Cache!Look, Cache!Goto
  <2>3. CASE x = at[p]
    <3>1. Cardinality(Cache!Users(x)') = Cardinality(Cache!Users(x)) + 1
      BY <2>2, <2>3, CacheUsersChange
    <3>2. refcnt[x] < UINT_MAX
      BY <1>1, <3>1
    <3> QED
      BY <1>1, <1>3, <1>4, <2>3, <3>1, <3>2, CacheCountIs DEF Cache!Hit
  <2>4. CASE x # at[p]
    <3>1. refcnt'[x] = refcnt[x]
      BY <1>3, <1>4, <2>1, <2>4 DEF Cache!Hit, Cache!Count
    <3> QED
      BY <1>1, <1>4, <2>2, <2>4, <3>1, CacheUsersChange DEF Cache!Hit
  <2> QED
    BY <2>3, <2>4
<1>5. CASE Cache!Own(p)
  <2>1. p \notin Cache!Users(x) /\ (p \in Cache!Users(x)' <=> x = b[p])
    BY <1>2, <1>3, <1>5 DEF Cache!Own, Cache!Goto
  <2>2. CASE x = b[p]
    <3>1. Cardinality(Cache!Users(x)) = 0 /\ pins[x] = 0
      BY <1>5, <2>2, CacheRecycledIsUnused, CacheUsersAre DEF Cache!Sound, Cache!Own
    <3>2. Cardinality(Cache!Users(x)') = 1
      BY <2>1, <2>2, <3>1, CacheUsersChange
    <3> QED
      BY <1>3, <1>5, <2>2, <3>1, <3>2 DEF Cache!Own
  <2>3. CASE x # b[p]
    BY <1>1, <1>3, <1>5, <2>1, <2>3, CacheUsersChange DEF Cache!Own
  <2> QED
    BY <2>2, <2>3
<1>6. CASE Cache!Bpin(p) \/ Cache!Bunpin(p)
  <2>1. Cache!Users(x)' = Cache!Users(x)
    BY <1>2, <1>3, <1>6, CacheUsersChange DEF Cache!Bpin, Cache!Bunpin, Cache!Goto
  <2>2. CASE x # b[p]
    BY <1>1, <1>3, <1>6, <2>1, <2>2 DEF Cache!Bpin, Cache!Bunpin, Cache!Count
  <2>3. CASE x = b[p] /\ Cache!Bpin(p)
    <3>1. refcnt[x] < UINT_MAX /\ Cache!Count(x, Cache!Inc) /\ pins' = [pins EXCEPT ![x] = 1] /\ pins[x] = 0
      BY <1>1, <2>3 DEF Cache!Bpin, Cache!Sound, Cache!UseInv
    <3>2. refcnt'[x] = refcnt[x] + 1 /\ pins'[x] = 1
      BY <1>1, <1>3, <3>1, CacheCountIs
    <3> QED
      BY <1>1, <2>1, <3>1, <3>2
  <2>4. CASE x = b[p] /\ Cache!Bunpin(p)
    <3>1. refcnt[x] > 0 /\ Cache!Count(x, Cache!Dec) /\ pins' = [pins EXCEPT ![x] = 0] /\ pins[x] = 1
      BY <1>1, <2>4 DEF Cache!Bunpin, Cache!Sound, Cache!UseInv
    <3>2. refcnt'[x] = refcnt[x] - 1 /\ pins'[x] = 0
      BY <1>1, <1>3, <3>1, CacheCountIs
    <3> QED
      BY <1>1, <2>1, <3>1, <3>2
  <2> QED
    BY <1>6, <2>2, <2>3, <2>4
<1>7. CASE Cache!Brelse(p)
  <2>1. p \notin Cache!Users(x)' /\ (p \in Cache!Users(x) <=> x = b[p])
    BY <1>2, <1>3, <1>7 DEF Cache!Brelse, Cache!Goto
  <2>2. CASE x = b[p]
    <3>1. Cardinality(Cache!Users(x)') = Cardinality(Cache!Users(x)) - 1
      BY <2>1, <2>2, CacheUsersChange
    <3>2. Cardinality(Cache!Users(x)) # 0
      BY <2>1, <2>2, CacheUsersAre
    <3>3. refcnt[x] > 0
      BY <1>1, <3>2
    <3>4. refcnt'[x] = refcnt[x] - 1 /\ pins' = pins
      BY <1>1, <1>3, <1>7, <2>2, <3>3, CacheCountIs DEF Cache!Brelse
    <3> QED
      BY <1>1, <3>1, <3>4
  <2>3. CASE x # b[p]
    BY <1>1, <1>3, <1>7, <2>1, <2>3, CacheUsersChange DEF Cache!Brelse, Cache!Count
  <2> QED
    BY <2>2, <2>3
<1>8. CASE ~Cache!Hit(p) /\ ~Cache!Own(p) /\ ~Cache!Bpin(p) /\ ~Cache!Bunpin(p) /\ ~Cache!Brelse(p)
  <2>1. refcnt' = refcnt /\ pins' = pins
    BY <1>8, CacheCountsStep
  <2>2. p \in Cache!Users(x)' <=> p \in Cache!Users(x)
    <3>1. CASE Cache!Bget(p)
      BY <1>2, <1>3, <1>8, <3>1 DEF Cache!Bget, Cache!LockBucket, Cache!FindNext,
         Cache!Miss, Cache!ReadDev, Cache!ReadBucket, Cache!dev, Cache!LockOther, Cache!InUse, Cache!Unused,
         Cache!EraseNext, Cache!Erase, Cache!EraseNothing, Cache!SetDev, Cache!Retag, Cache!Invalidate,
         Cache!Insert, Cache!Link, Cache!AcquireSleep, Cache!Goto, Cache!Look
    <3>2. CASE ~Cache!Bget(p)
      BY <1>2, <1>3, <1>8, <3>2 DEF CacheStep, Cache!CallBread, Cache!ReadDisk,
         Cache!Holder, Cache!CallBpin, Cache!CallBunpin, Cache!ReleaseSleep,
         Cache!BrelseIdx, Cache!ReadIdx, Cache!Goto
    <3> QED
      BY <3>1, <3>2
  <2> QED
    BY <1>1, <2>1, <2>2, CacheUsersChange
<1> QED
  BY <1>4, <1>5, <1>6, <1>7, <1>8

-----------------------------------------------------------------------------
(* Lists.  What erase() and insert() do to a chain of pointers.            *)

LEMMA CacheSameChain ==
  ASSUME CacheSizes, NEW f, NEW S, 0 \notin S, NEW m, NEW A, Cache!Chain(f, S, m, A),
         NEW n, NEW B, \A x \in S : n[x] = m[x] /\ B[x] = A[x]
  PROVE  Cache!Chain(f, S, n, B)
BY DEF Cache!Chain, Cache!Leads

LEMMA CacheInsertChain ==
  ASSUME CacheSizes, NEW f, NEW S, 0 \notin S, NEW m, NEW A, Cache!Chain(f, S, m, A),
         NEW n, NEW B, \A x \in S : n[x] = m[x] /\ B[x] = A[x],
         NEW y, y \notin S, y # 0, n[y] = f, B[y] = S
  PROVE  Cache!Chain(y, S \cup {y}, n, B)
<1>1. Cache!Leads(y, S \cup {y}, B)
  BY DEF Cache!Leads
<1>2. Cache!Chain(f, S, n, B)
  BY CacheSameChain
<1>3. Cache!Leads(n[y], B[y], B)
  BY <1>2 DEF Cache!Chain
<1> QED
  BY <1>1, <1>2, <1>3 DEF Cache!Chain

(* y taken out of what is behind the others, and what is so of all chains  *)
(* without y.                                                              *)
Taken(S, A, y, B) == \A x \in S \ {y} : B[x] = A[x] \ {y}
Kept(S, m, A, y, B) == /\ \A x \in S \ {y} :
                            /\ B[x] \subseteq (S \ {y}) \ {x}
                            /\ \A z \in B[x] : B[z] \subseteq B[x]
                            /\ \A z \in S \ {y} : z = x \/ z \in B[x] \/ x \in B[z]
                       /\ Cache!Leads(m[y], A[y], B)
                       /\ \A x \in S \ {y} : m[x] # y => Cache!Leads(m[x], B[x], B)

LEMMA CacheEraseKeeps ==
  ASSUME CacheSizes, NEW f, NEW S, 0 \notin S, NEW m, NEW A, Cache!Chain(f, S, m, A),
         NEW y \in S, NEW B, Taken(S, A, y, B)
  PROVE  Kept(S, m, A, y, B)
<1>0. \A x \in S \ {y} : B[x] = A[x] \ {y}
  BY DEF Taken
<1>1. \A x \in S : /\ Cache!Leads(m[x], A[x], A)
                   /\ A[x] \subseteq S \ {x}
                   /\ \A z \in A[x] : A[z] \subseteq A[x]
                   /\ \A z \in S : z = x \/ z \in A[x] \/ x \in A[z]
  BY DEF Cache!Chain
<1>2. \A x \in S \ {y} :
        /\ B[x] \subseteq (S \ {y}) \ {x}
        /\ \A z \in B[x] : B[z] \subseteq B[x]
        /\ \A z \in S \ {y} : z = x \/ z \in B[x] \/ x \in B[z]
  BY <1>0, <1>1
<1>3. Cache!Leads(m[y], A[y], B)
  <2>1. CASE m[y] = 0
    BY <1>1, <2>1 DEF Cache!Leads
  <2>2. CASE m[y] # 0
    <3>1. A[y] = {m[y]} \cup A[m[y]] /\ m[y] \in S \ {y}
      BY <1>1, <2>2 DEF Cache!Leads
    <3>2. y \notin A[m[y]]
      BY <1>1, <3>1
    <3> QED
      BY <1>0, <2>2, <3>1, <3>2 DEF Cache!Leads
  <2> QED
    BY <2>1, <2>2
<1>4. ASSUME NEW x \in S \ {y}, m[x] # y PROVE Cache!Leads(m[x], B[x], B)
  <2>1. CASE m[x] = 0
    BY <1>0, <1>1, <1>4, <2>1 DEF Cache!Leads
  <2>2. CASE m[x] # 0
    <3>1. A[x] = {m[x]} \cup A[m[x]] /\ m[x] \in S \ {y}
      BY <1>1, <1>4, <2>2 DEF Cache!Leads
    <3> QED
      BY <1>0, <1>4, <2>2, <3>1 DEF Cache!Leads
  <2> QED
    BY <2>1, <2>2
<1> QED
  BY <1>2, <1>3, <1>4 DEF Kept

(* The first is erased. *)
LEMMA CacheEraseFirst ==
  ASSUME CacheSizes, NEW S, 0 \notin S, NEW m, NEW A, NEW y \in S, Cache!Chain(y, S, m, A),
         NEW B, Taken(S, A, y, B), NEW n, \A x \in S \ {y} : n[x] = m[x]
  PROVE  Cache!Chain(m[y], S \ {y}, n, B)
<1>1. /\ S = {y} \cup A[y] /\ y # 0
      /\ \A x \in S : /\ Cache!Leads(m[x], A[x], A)
                      /\ A[x] \subseteq S \ {x}
                      /\ \A z \in A[x] : A[z] \subseteq A[x]
  BY DEF Cache!Chain, Cache!Leads
<1>2. A[y] = S \ {y}
  BY <1>1
<1>3. ASSUME NEW x \in S \ {y}, m[x] = y PROVE FALSE
  <2>1. y \in A[x] /\ x \in A[y]
    BY <1>1, <1>2, <1>3 DEF Cache!Leads
  <2> QED
    BY <1>1, <2>1
<1>4. Kept(S, m, A, y, B)
  BY CacheEraseKeeps
<1>5. \A x \in S \ {y} : Cache!Leads(n[x], B[x], B)
  BY <1>3, <1>4 DEF Kept
<1>6. Cache!Leads(m[y], S \ {y}, B)
  BY <1>2, <1>4 DEF Kept
<1> QED
  BY <1>4, <1>5, <1>6 DEF Cache!Chain, Kept

(* The one behind z is erased. *)
LEMMA CacheEraseBehind ==
  ASSUME CacheSizes, NEW f, NEW S, 0 \notin S, NEW m, NEW A, Cache!Chain(f, S, m, A),
         NEW y \in S, NEW z \in S, m[z] = y,
         NEW B, Taken(S, A, y, B), NEW n, n[z] = m[y], \A x \in S \ {y, z} : n[x] = m[x]
  PROVE  Cache!Chain(f, S \ {y}, n, B)
<1>1. /\ Cache!Leads(f, S, A) /\ f # 0
      /\ \A x \in S : /\ Cache!Leads(m[x], A[x], A)
                      /\ A[x] \subseteq S \ {x}
                      /\ \A w \in A[x] : A[w] \subseteq A[x]
                      /\ \A w \in S : w = x \/ w \in A[x] \/ x \in A[w]
  BY DEF Cache!Chain, Cache!Leads
<1>2. y # 0 /\ A[z] = {y} \cup A[y] /\ z # y
  BY <1>1 DEF Cache!Leads
<1>3. f # y
  <2> SUFFICES ASSUME f = y PROVE FALSE
    OBVIOUS
  <2>1. z \in A[y] /\ y \in A[z]
    BY <1>1, <1>2 DEF Cache!Leads
  <2> QED
    BY <1>1, <2>1
<1>4. ASSUME NEW x \in S \ {y, z} PROVE m[x] # y
  <2> SUFFICES ASSUME m[x] = y PROVE FALSE
    OBVIOUS
  <2>1. A[x] = {y} \cup A[y]
    BY <1>1, <1>2 DEF Cache!Leads
  <2>2. z \in A[x] \/ x \in A[z]
    BY <1>1
  <2>3. z \in A[y] \/ x \in A[y]
    BY <1>2, <2>1, <2>2
  <2>4. y \notin A[y] /\ (z \in A[y] => A[z] \subseteq A[y]) /\ (x \in A[y] => A[x] \subseteq A[y])
    BY <1>1
  <2> QED
    BY <1>2, <2>1, <2>3, <2>4
<1>7. Kept(S, m, A, y, B)
  BY CacheEraseKeeps
<1>5. Cache!Leads(f, S \ {y}, B)
  BY <1>1, <1>3 DEF Cache!Leads, Taken
<1>6. ASSUME NEW x \in S \ {y} PROVE Cache!Leads(n[x], B[x], B)
  <2>1. CASE x = z
    <3>1. z \in S \ {y} /\ y \notin A[y]
      BY <1>1, <1>2
    <3>2. B[z] = A[y]
      BY <1>2, <3>1 DEF Taken
    <3> QED
      BY <1>7, <2>1, <3>2 DEF Kept
  <2>2. CASE x # z
    BY <1>4, <1>7, <2>2 DEF Kept
  <2> QED
    BY <2>1, <2>2
<1> QED
  BY <1>5, <1>6, <1>7 DEF Cache!Chain, Kept

(* The lists change in Erase() and Link() only. *)
LEMMA CacheListsStay ==
  ASSUME CacheSizes, Cache!TypeOK, Cache!Sound, NEW p \in Procs, CacheStep(p), ~Cache!Erase(p), ~Cache!Link(p)
  PROVE  \A h \in Cache!Buckets :
           /\ Cache!List(h)' = Cache!List(h) /\ first'[h] = first[h]
           /\ \A x \in Cache!List(h) : next'[x] = next[x] /\ blk'[x] = blk[x]
<1>0. b[p] \in Cache!Bufs /\ pc \in [Procs -> Cache!PCs] /\ b \in [Procs -> Cache!Bufs]
      /\ Cache!SearchInv /\ Cache!RecycleInv
  BY CacheLocalTypes DEF Cache!TypeOK, Cache!Sound
<1> DEFINE Away == Cache!Recycling \ {"erase"}
<1>1. \A q \in Procs : q # p => pc'[q] = pc[q] /\ b'[q] = b[q]
  BY CacheOthersStay
<1>2. CASE Cache!SetDev(p) \/ Cache!Retag(p)
  <2>1. \A x \in Cache!Bufs : Cache!Off(x)' <=> Cache!Off(x)
    BY <1>0, <1>2 DEF Cache!SetDev, Cache!Retag, Cache!Goto, Cache!Off, Cache!Recycling
  <2>2. Cache!Off(b[p])
    BY <1>2 DEF Cache!SetDev, Cache!Retag, Cache!Off, Cache!Recycling
  <2>3. \A x \in Cache!Bufs : x # b[p] => blk'[x] = blk[x]
    BY <1>0, <1>2 DEF Cache!SetDev, Cache!Retag, Cache!TypeOK
  <2>4. first' = first /\ next' = next
    BY <1>2 DEF Cache!SetDev, Cache!Retag, Cache!lists
  <2> QED
    BY <2>1, <2>2, <2>3, <2>4 DEF Cache!List
<1>3. CASE Cache!Insert(p)
  <2>1. \A x \in Cache!Bufs : Cache!Off(x)' <=> Cache!Off(x)
    BY <1>0, <1>3 DEF Cache!Insert, Cache!Goto, Cache!Off, Cache!Recycling
  <2>2. Cache!Off(b[p]) /\ blk' = blk /\ first' = first
    BY <1>3 DEF Cache!Insert, Cache!Off, Cache!Recycling, Cache!buffers
  <2>3. \A x \in Cache!Bufs : x # b[p] => next'[x] = next[x]
    BY <1>0, <1>3 DEF Cache!Insert, Cache!TypeOK
  <2> QED
    BY <2>1, <2>2, <2>3 DEF Cache!List
<1>4. CASE Cache!EraseNothing(p)
  <2>1. blk' = blk /\ first' = first /\ next' = next /\ b' = b
    BY <1>4 DEF Cache!EraseNothing, Cache!buffers, Cache!lists
  <2>2. \A x \in Cache!Bufs : Cache!Off(x)' <=> Cache!Off(x) \/ x = b[p]
    BY <1>0, <1>4 DEF Cache!EraseNothing, Cache!Goto, Cache!Off, Cache!Recycling
  <2>3. blk[b[p]] = 0
    <3> SUFFICES ASSUME Cache!Mine(p) # 0 PROVE FALSE
      BY DEF Cache!Mine
    <3>1. other[p] = Cache!hash(Cache!Mine(p)) /\ key[p] = Cache!Mine(p) /\ other[p] \in Cache!Buckets
      BY <1>0, <1>4, CacheLocalTypes DEF Cache!EraseNothing, Cache!RecycleInv
    <3>2. ~Cache!Off(b[p])
      BY <1>0, <1>4, CacheOneRecycles DEF Cache!EraseNothing, Cache!Off, Cache!Recycling
    <3>3. b[p] \in Cache!List(other[p])
      BY <1>0, <3>1, <3>2 DEF Cache!List, Cache!Mine
    <3>4. PICK after : Cache!Chain(first[other[p]], Cache!List(other[p]), next, after) /\ Cache!WalkInv(after)
      BY <3>1 DEF Cache!Sound, Cache!Ordered
    <3>5. CASE at[p] = 0
      BY <1>4, <3>1, <3>3, <3>4, <3>5 DEF Cache!EraseNothing, Cache!Ahead, Cache!Chain,
         Cache!Leads
    <3>6. CASE at[p] # 0
      <4>1. at[p] \in Cache!List(other[p]) /\ b[p] \in after[at[p]] /\ next[at[p]] = 0
        BY <1>4, <3>4, <3>6 DEF Cache!EraseNothing, Cache!Ahead, Cache!WalkInv, Cache!Walk
      <4> QED
        BY <3>4, <4>1 DEF Cache!Chain, Cache!Leads
    <3> QED
      BY <3>5, <3>6
  <2> QED
    BY <2>1, <2>2, <2>3 DEF Cache!List
<1>5. CASE ~Cache!SetDev(p) /\ ~Cache!Retag(p) /\ ~Cache!Insert(p) /\ ~Cache!EraseNothing(p)
  <2>1. blk' = blk /\ first' = first /\ next' = next
    BY <1>5, CacheBlkStep, CacheListsStep
  <2>2. /\ pc'[p] \in Away <=> pc[p] \in Away
        /\ pc[p] \in Away => b'[p] = b[p]
    <3>1. CASE Cache!Bget(p)
      BY <1>0, <1>5, <3>1 DEF Cache!Bget, Cache!LockBucket, Cache!FindNext, Cache!Hit,
         Cache!Miss, Cache!ReadDev, Cache!ReadBucket, Cache!dev, Cache!LockOther, Cache!InUse, Cache!Unused,
         Cache!EraseNext, Cache!Invalidate, Cache!Own, Cache!AcquireSleep, Cache!Goto,
         Cache!Look, Cache!Recycling
    <3>2. CASE ~Cache!Bget(p)
      BY <1>0, <3>2 DEF CacheStep, Cache!CallBread, Cache!ReadDisk, Cache!Holder,
         Cache!CallBpin, Cache!Bpin, Cache!CallBunpin, Cache!Bunpin, Cache!ReleaseSleep,
         Cache!BrelseIdx, Cache!Brelse, Cache!ReadIdx, Cache!Goto, Cache!Recycling
    <3> QED
      BY <3>1, <3>2
  <2>3. \A x \in Cache!Bufs : Cache!Off(x)' <=> Cache!Off(x)
    BY <1>1, <2>2 DEF Cache!Off
  <2> QED
    BY <2>1, <2>3 DEF Cache!List
<1> QED
  BY <1>2, <1>3, <1>4, <1>5

(* The buffer that is erased is the one to be recycled. *)
LEMMA CacheEraseIs ==
  ASSUME CacheSizes, Cache!TypeOK, Cache!Sound, ~stale, NEW p \in Procs, Cache!Erase(p)
  PROVE  /\ Cache!Ahead(p) = b[p] /\ Cache!hash(key[p]) = other[p] /\ other[p] \in Cache!Buckets
         /\ at[p] # 0 => at[p] \in Cache!List(other[p])
         /\ b[p] \in Cache!Bufs /\ b[p] \in Cache!List(other[p])
         /\ \A h \in Cache!Buckets : Cache!List(h)' = Cache!List(h) \ {b[p]}
         /\ \A h \in Cache!Buckets : h # other[p] => b[p] \notin Cache!List(h)
<1>1. /\ pc[p] = "erase" /\ key[p] = Cache!Mine(p) /\ Cache!hash(Cache!Mine(p)) = other[p] /\ b[p] \in Cache!Bufs
      /\ other[p] \in Cache!Buckets /\ Cache!Ahead(p) # 0 /\ blk[Cache!Ahead(p)] = key[p]
      /\ Cache!SearchInv /\ Cache!RecycleInv /\ Cache!OneBufferPerBlock
  BY CacheLocalTypes DEF Cache!Erase, Cache!Sound, Cache!RecycleInv
<1>2. PICK after : Cache!Chain(first[other[p]], Cache!List(other[p]), next, after) /\ Cache!WalkInv(after)
  BY <1>1 DEF Cache!Sound, Cache!Ordered
<1>3. at[p] # 0 => at[p] \in Cache!List(other[p])
  BY <1>1, <1>2 DEF Cache!WalkInv, Cache!Walk
<1>4. Cache!Ahead(p) \in Cache!List(other[p])
  BY <1>1, <1>2, <1>3 DEF Cache!Ahead, Cache!Chain, Cache!Leads
<1>5. Cache!Ahead(p) = b[p]
  <2>1. Cache!Mine(p) \in Blocks
    <3>1. Cache!Mine(p) # 0
      BY <1>1, <1>4 DEF Cache!List
    <3>2. Cache!Mine(p) # 1
      BY <1>1 DEF Cache!RecycleInv
    <3> QED
      BY <3>1, <3>2, CacheLocalTypes
  <2> QED
    BY <1>1, <1>4, <2>1 DEF Cache!List, Cache!Mine, Cache!OneBufferPerBlock
<1>6. \A h \in Cache!Buckets : h # other[p] => b[p] \notin Cache!List(h)
  BY <1>1 DEF Cache!List, Cache!Mine
<1>7. \A x \in Cache!Bufs : Cache!Off(x)' <=> Cache!Off(x) \/ x = b[p]
  BY <1>1 DEF Cache!Erase, Cache!Goto, Cache!Off, Cache!Recycling, Cache!TypeOK
<1>8. blk' = blk
  BY DEF Cache!Erase, Cache!buffers
<1>9. \A h \in Cache!Buckets : Cache!List(h)' = Cache!List(h) \ {b[p]}
  BY <1>7, <1>8 DEF Cache!List
<1> QED
  BY <1>1, <1>3, <1>4, <1>5, <1>6, <1>9

LEMMA CacheLinkIs ==
  ASSUME CacheSizes, Cache!TypeOK, Cache!Sound, ~stale, NEW p \in Procs, Cache!Link(p)
  PROVE  /\ Cache!hash(key[p]) = Cache!Idx(p) /\ Cache!Idx(p) \in Cache!Buckets
         /\ b[p] \in Cache!Bufs /\ next[b[p]] = first[Cache!Idx(p)]
         /\ \A h \in Cache!Buckets : b[p] \notin Cache!List(h)
         /\ \A h \in Cache!Buckets : Cache!List(h)' = IF h = Cache!Idx(p) THEN Cache!List(h) \cup {b[p]} ELSE Cache!List(h)
<1>1. /\ pc[p] = "link" /\ key[p] = want[p] /\ Cache!Mine(p) = want[p] /\ b[p] \in Cache!Bufs
      /\ want[p] # 0 /\ Cache!Idx(p) \in Cache!Buckets /\ next[b[p]] = first[Cache!Idx(p)]
      /\ Cache!SearchInv /\ Cache!RecycleInv
  BY CacheLocalTypes, CacheSmallTypes DEF Cache!Link, Cache!Sound, Cache!RecycleInv,
     Cache!SearchInv
<1>2. Cache!Off(b[p])
  BY <1>1 DEF Cache!Off, Cache!Recycling
<1>3. \A x \in Cache!Bufs : Cache!Off(x)' <=> Cache!Off(x) /\ x # b[p]
  <2>1. \A q \in Procs : pc[q] \in Cache!Recycling /\ b[q] = b[p] => q = p
    BY <1>1, CacheOneRecycles DEF Cache!Recycling
  <2> QED
    BY <1>1, <2>1 DEF Cache!Link, Cache!Goto, Cache!Off, Cache!Recycling, Cache!TypeOK
<1>4. blk' = blk
  BY DEF Cache!Link, Cache!buffers
<1>5. \A h \in Cache!Buckets : Cache!List(h)' = IF h = Cache!Idx(p) THEN Cache!List(h) \cup {b[p]} ELSE Cache!List(h)
  <2> SUFFICES ASSUME NEW h \in Cache!Buckets, NEW x
               PROVE  x \in Cache!List(h)' <=> x \in Cache!List(h) \/ (h = Cache!Idx(p) /\ x = b[p])
    OBVIOUS
  <2>1. CASE x = b[p]
    BY <1>1, <1>2, <1>3, <1>4, <2>1 DEF Cache!List, Cache!Idx, Cache!Mine
  <2>2. CASE x # b[p]
    BY <1>3, <1>4, <2>2 DEF Cache!List
  <2> QED
    BY <2>1, <2>2
<1> QED
  BY <1>1, <1>2, <1>5 DEF Cache!List, Cache!Idx

(* p changes the list of h, or leaves it with its order. *)
Touches(p, h) == \/ Cache!Erase(p) /\ h = other[p]
                 \/ Cache!Link(p) /\ h = Cache!Idx(p)
Untouched(h, A, B) == /\ Cache!List(h)' = Cache!List(h)
                      /\ \A x \in Cache!List(h) : B[x] = A[x] /\ blk'[x] = blk[x]

(* An order of the lists goes over into one of the next state, and only in *)
(* a bucket that p has locked is it another.                               *)
LEMMA CacheNewOrder ==
  ASSUME CacheSizes, Cache!TypeOK, Cache!Sound, ~stale, NEW p \in Procs, CacheStep(p),
         NEW A \in [Cache!Bufs -> SUBSET Cache!Bufs],
         \A h \in Cache!Buckets : Cache!Chain(first[h], Cache!List(h), next, A)
  PROVE  \E B \in [Cache!Bufs -> SUBSET Cache!Bufs] :
           /\ \A h \in Cache!Buckets : Cache!Chain(first'[h], Cache!List(h)', next', B)
           /\ \A h \in Cache!Buckets : ~Touches(p, h) => Untouched(h, A, B)
           /\ ~Cache!Erase(p) /\ ~Cache!Link(p) => B = A
<1>0. \A h \in Cache!Buckets : 0 \notin Cache!List(h) /\ Cache!List(h) \subseteq Cache!Bufs
  BY CacheSmallTypes DEF Cache!List
<1>1. CASE ~Cache!Erase(p) /\ ~Cache!Link(p)
  <2>1. \A h \in Cache!Buckets :
          /\ Cache!List(h)' = Cache!List(h) /\ first'[h] = first[h]
          /\ \A x \in Cache!List(h) : next'[x] = next[x] /\ blk'[x] = blk[x]
    BY <1>1, CacheListsStay
  <2>2. \A h \in Cache!Buckets : Cache!Chain(first'[h], Cache!List(h)', next', A)
    BY <1>0, <2>1, CacheSameChain
  <2> QED
    BY <2>1, <2>2 DEF Untouched
<1>2. CASE Cache!Erase(p)
  <2> DEFINE y == b[p]
             B == [x \in Cache!Bufs |-> A[x] \ {y}]
  <2>1. /\ Cache!Ahead(p) = y /\ Cache!hash(key[p]) = other[p] /\ other[p] \in Cache!Buckets
        /\ at[p] # 0 => at[p] \in Cache!List(other[p])
        /\ y \in Cache!Bufs /\ y \in Cache!List(other[p])
        /\ \A h \in Cache!Buckets : Cache!List(h)' = Cache!List(h) \ {y}
        /\ \A h \in Cache!Buckets : h # other[p] => y \notin Cache!List(h)
    BY <1>2, CacheEraseIs
  <2>2. /\ blk' = blk /\ other' = other
        /\ first \in [Cache!Buckets -> Cache!Bufs \cup {0}] /\ next \in [Cache!Bufs -> Cache!Bufs \cup {0}]
    BY <1>2 DEF Cache!Erase, Cache!TypeOK, Cache!buffers
  <2>3. B \in [Cache!Bufs -> SUBSET Cache!Bufs] /\ \A x \in Cache!Bufs : B[x] = A[x] \ {y}
    OBVIOUS
  <2> HIDE DEF B, y
  <2>4. ASSUME NEW h \in Cache!Buckets, h # other[p]
        PROVE  Cache!List(h)' = Cache!List(h) /\ \A x \in Cache!List(h) : B[x] = A[x]
    <3>1. Cache!List(h)' = Cache!List(h) /\ y \notin Cache!List(h) /\ Cache!List(h) \subseteq Cache!Bufs
      BY <1>0, <2>1, <2>4
    <3>2. \A x \in Cache!List(h) : A[x] \subseteq Cache!List(h)
      BY <2>4 DEF Cache!Chain
    <3> QED
      BY <2>3, <3>1, <3>2
  <2>5. ASSUME NEW h \in Cache!Buckets, h # other[p]
        PROVE  first'[h] = first[h] /\ \A x \in Cache!List(h) : next'[x] = next[x]
    <3>1. CASE at[p] = 0
      BY <1>2, <2>1, <2>2, <2>5, <3>1 DEF Cache!Erase
    <3>2. CASE at[p] # 0
      <4>1. at[p] \notin Cache!List(h)
        BY <2>1, <2>5, <3>2 DEF Cache!List
      <4> QED
        BY <1>0, <1>2, <2>1, <2>2, <3>2, <4>1 DEF Cache!Erase
    <3> QED
      BY <3>1, <3>2
  <2> DEFINE S == Cache!List(other[p])
  <2>6. Cache!Chain(first'[other[p]], S \ {y}, next', B)
    <3>1. Cache!Chain(first[other[p]], S, next, A) /\ 0 \notin S /\ S \subseteq Cache!Bufs /\ y \in S
      BY <1>0, <2>1
    <3> HIDE DEF S
    <3>2. Taken(S, A, y, B)
      BY <2>3, <3>1 DEF Taken
    <3>3. CASE at[p] = 0
      <4>1. first[other[p]] = y /\ first'[other[p]] = next[y] /\ next' = next
        BY <1>2, <2>1, <2>2, <3>3 DEF Cache!Erase, Cache!Ahead
      <4>2. Cache!Chain(y, S, next, A)
        BY <3>1, <4>1
      <4>3. Cache!Chain(next[y], S \ {y}, next, B)
        BY <3>1, <3>2, <4>2, CacheEraseFirst
      <4> QED
        BY <4>1, <4>3
    <3>4. CASE at[p] # 0
      <4>1. /\ at[p] \in S /\ next[at[p]] = y /\ next'[at[p]] = next[y]
            /\ \A x \in S \ {y, at[p]} : next'[x] = next[x]
            /\ first' = first
        BY <1>2, <2>1, <2>2, <3>1, <3>4 DEF Cache!Erase, Cache!Ahead, S
      <4>2. Cache!Chain(first[other[p]], S \ {y}, next', B)
        BY <3>1, <3>2, <4>1, CacheEraseBehind
      <4> QED
        BY <4>1, <4>2
    <3> QED
      BY <3>3, <3>4
  <2>7. ASSUME NEW h \in Cache!Buckets PROVE Cache!Chain(first'[h], Cache!List(h)', next', B)
    <3>1. CASE h = other[p]
      <4>1. Cache!List(h)' = S \ {y} /\ first'[h] = first'[other[p]]
        BY <2>1, <3>1
      <4> QED
        BY <2>6, <4>1
    <3>2. CASE h # other[p]
      <4>1. /\ Cache!Chain(first[h], Cache!List(h), next, A) /\ 0 \notin Cache!List(h)
            /\ \A x \in Cache!List(h) : next'[x] = next[x] /\ B[x] = A[x]
        BY <1>0, <2>4, <2>5, <3>2
      <4>2. Cache!Chain(first[h], Cache!List(h), next', B)
        BY <4>1, CacheSameChain
      <4> QED
        BY <2>4, <2>5, <3>2, <4>2
    <3> QED
      BY <3>1, <3>2
  <2>8. ~Cache!Link(p)
    BY <1>2 DEF Cache!Erase, Cache!Link
  <2> QED
    BY <1>2, <2>2, <2>3, <2>4, <2>7, <2>8 DEF Touches, Untouched
<1>3. CASE Cache!Link(p)
  <2> DEFINE y == b[p]
             S == Cache!List(Cache!Idx(p))
             B == [A EXCEPT ![y] = S]
  <2>1. /\ Cache!hash(key[p]) = Cache!Idx(p) /\ Cache!Idx(p) \in Cache!Buckets
        /\ y \in Cache!Bufs /\ next[y] = first[Cache!Idx(p)]
        /\ \A h \in Cache!Buckets : y \notin Cache!List(h)
        /\ \A h \in Cache!Buckets : Cache!List(h)' = IF h = Cache!Idx(p) THEN S \cup {y} ELSE Cache!List(h)
    BY <1>3, CacheLinkIs
  <2>2. /\ blk' = blk /\ next' = next
        /\ first'[Cache!Idx(p)] = y /\ \A h \in Cache!Buckets : h # Cache!Idx(p) => first'[h] = first[h]
    BY <1>3, <2>1 DEF Cache!Link, Cache!TypeOK, Cache!buffers
  <2>3. /\ B \in [Cache!Bufs -> SUBSET Cache!Bufs] /\ B[y] = S
        /\ \A h \in Cache!Buckets : \A x \in Cache!List(h) : B[x] = A[x]
    BY <1>0, <2>1
  <2>4. y # 0 /\ 0 \notin S /\ Cache!Chain(first[Cache!Idx(p)], S, next, A) /\ y \notin S
        /\ \A x \in S : B[x] = A[x]
    BY <1>0, <2>1, <2>3, CacheSmallTypes
  <2> HIDE DEF B, y, S
  <2>5. Cache!Chain(y, S \cup {y}, next, B)
    BY <2>1, <2>3, <2>4, CacheInsertChain
  <2>6. \A h \in Cache!Buckets : Cache!Chain(first'[h], Cache!List(h)', next', B)
    <3> SUFFICES ASSUME NEW h \in Cache!Buckets PROVE Cache!Chain(first'[h], Cache!List(h)', next', B)
      OBVIOUS
    <3>1. CASE h = Cache!Idx(p)
      BY <2>1, <2>2, <2>5, <3>1
    <3>2. CASE h # Cache!Idx(p)
      BY <1>0, <2>1, <2>2, <2>3, <3>2, CacheSameChain
    <3> QED
      BY <3>1, <3>2
  <2>7. ~Cache!Erase(p)
    BY <1>3 DEF Cache!Erase, Cache!Link
  <2> QED
    BY <1>3, <2>1, <2>2, <2>3, <2>6, <2>7 DEF Touches, Untouched
<1> QED
  BY <1>1, <1>2, <1>3

(* The walk of a process that does not move. *)
LEMMA CacheOthersWalk ==
  ASSUME CacheSizes, Cache!TypeOK, Cache!Sound, NEW p \in Procs, CacheStep(p), NEW q \in Procs, q # p,
         NEW A, Cache!WalkInv(A), NEW B,
         \A h \in Cache!Buckets : ~Touches(p, h) => Untouched(h, A, B)
  PROVE  Cache!Walk(q, B)'
<1>1. /\ pc'[q] = pc[q] /\ want'[q] = want[q] /\ b'[q] = b[q] /\ other'[q] = other[q]
      /\ at'[q] = at[q] /\ Cache!Idx(q)' = Cache!Idx(q) /\ Cache!Idx(q) \in Cache!Buckets /\ other[q] \in Cache!Buckets
      /\ Cache!SearchInv /\ Cache!RecycleInv
  BY CacheOthersStay, CacheLocalTypes DEF Cache!Sound
<1>2. /\ pc[q] \in {"next", "bucket", "lock", "test"} => at[q] = 0
      /\ pc[q] = "find" =>
           IF at[q] = 0 THEN \A x \in Cache!List(Cache!Idx(q)) : blk[x] # want[q]
           ELSE /\ at[q] \in Cache!List(Cache!Idx(q))
                /\ \A x \in Cache!List(Cache!Idx(q)) : blk[x] = want[q] => x \in {at[q]} \cup A[at[q]]
      /\ pc[q] = "erase" /\ at[q] # 0 =>
           /\ at[q] \in Cache!List(other[q])
           /\ Cache!Mine(q) # 0 => b[q] \in A[at[q]]
  BY DEF Cache!WalkInv, Cache!Walk
<1>3. /\ Cache!Erase(p) => pc[p] = "erase"
      /\ Cache!Link(p) => pc[p] = "link"
  BY DEF Cache!Erase, Cache!Link
<1>4. ASSUME pc[q] = "find"
      PROVE  /\ Cache!List(Cache!Idx(q))' = Cache!List(Cache!Idx(q))
             /\ \A x \in Cache!List(Cache!Idx(q)) : B[x] = A[x] /\ blk'[x] = blk[x]
  <2>1. ~Touches(p, Cache!Idx(q))
    BY <1>1, <1>3, <1>4, CacheApart DEF Touches, Cache!Searching, Cache!Recycling
  <2> QED
    BY <1>1, <2>1 DEF Untouched
<1>5. ASSUME pc[q] = "erase"
      PROVE  /\ Cache!List(other[q])' = Cache!List(other[q])
             /\ \A x \in Cache!List(other[q]) : B[x] = A[x]
             /\ Cache!Mine(q)' = Cache!Mine(q)
  <2>1. ~Touches(p, other[q])
    BY <1>1, <1>3, <1>5, CacheApart DEF Touches, Cache!Searching, Cache!Recycling
  <2>2. Cache!Mine(q)' = Cache!Mine(q)
    <3>1. CASE Cache!SetDev(p) \/ Cache!Retag(p)
      <4>1. b[p] # b[q]
        BY <1>1, <1>5, <3>1, CacheOneRecycles DEF Cache!SetDev, Cache!Retag, Cache!Recycling
      <4> QED
        BY <1>1, <3>1, <4>1, CacheLocalTypes DEF Cache!SetDev, Cache!Retag, Cache!Mine, Cache!TypeOK
    <3> QED
      BY <1>1, <3>1, CacheBlkStep DEF Cache!Mine
  <2> QED
    BY <1>1, <2>1, <2>2 DEF Untouched
<1>6. pc'[q] \in {"next", "bucket", "lock", "test"} => at'[q] = 0
  BY <1>1, <1>2
<1>7. ASSUME pc[q] = "find"
      PROVE  IF at'[q] = 0 THEN \A x \in Cache!List(Cache!Idx(q))' : blk'[x] # want'[q]
             ELSE /\ at'[q] \in Cache!List(Cache!Idx(q))'
                  /\ \A x \in Cache!List(Cache!Idx(q))' : blk'[x] = want'[q] => x \in {at'[q]} \cup B[at'[q]]
  <2> DEFINE S == Cache!List(Cache!Idx(q))
  <2>1. /\ \A x \in S : B[x] = A[x] /\ blk'[x] = blk[x]
        /\ IF at[q] = 0 THEN \A x \in S : blk[x] # want[q]
           ELSE /\ at[q] \in S
                /\ \A x \in S : blk[x] = want[q] => x \in {at[q]} \cup A[at[q]]
        /\ Cache!List(Cache!Idx(q))' = S
    BY <1>1, <1>2, <1>4, <1>7
  <2> HIDE DEF S
  <2> QED
    BY <1>1, <2>1
<1>8. ASSUME pc[q] = "erase", at[q] # 0
      PROVE  /\ at'[q] \in Cache!List(other[q])'
             /\ Cache!Mine(q)' # 0 => b'[q] \in B[at'[q]]
  <2> DEFINE S == Cache!List(other[q])
  <2>1. /\ at[q] \in S /\ (Cache!Mine(q) # 0 => b[q] \in A[at[q]])
        /\ \A x \in S : B[x] = A[x]
        /\ Cache!List(other[q])' = S /\ Cache!Mine(q)' = Cache!Mine(q)
    <3>1. at[q] \in S /\ (Cache!Mine(q) # 0 => b[q] \in A[at[q]])
      BY <1>2, <1>8
    <3>2. (\A x \in S : B[x] = A[x]) /\ Cache!List(other[q])' = S /\ Cache!Mine(q)' = Cache!Mine(q)
      BY <1>5, <1>8
    <3> QED
      BY <3>1, <3>2
  <2> HIDE DEF S
  <2> QED
    BY <1>1, <2>1
<1> QED
  BY <1>1, <1>6, <1>7, <1>8 DEF Cache!Walk

(* p walks on, or begins to. *)
LEMMA CacheOwnWalk ==
  ASSUME CacheSizes, Cache!TypeOK, Cache!Sound, ~stale, ~stale', NEW p \in Procs, CacheStep(p),
         NEW A \in [Cache!Bufs -> SUBSET Cache!Bufs], Cache!WalkInv(A),
         \A h \in Cache!Buckets : Cache!Chain(first[h], Cache!List(h), next, A),
         ~Cache!Erase(p), ~Cache!Link(p)
  PROVE  /\ pc'[p] \in {"next", "bucket", "lock", "test"} => at'[p] = 0
         /\ pc'[p] = "find" =>
              IF at'[p] = 0 THEN \A x \in Cache!List(Cache!Idx(p)') : blk[x] # want'[p]
              ELSE /\ at'[p] \in Cache!List(Cache!Idx(p)')
                   /\ \A x \in Cache!List(Cache!Idx(p)') : blk[x] = want'[p] => x \in {at'[p]} \cup A[at'[p]]
         /\ pc'[p] = "erase" /\ at'[p] # 0 =>
              /\ at'[p] \in Cache!List(other'[p])
              /\ Cache!Mine(p)' # 0 => b'[p] \in A[at'[p]]
<1>0. Cache!SearchInv /\ Cache!RecycleInv
  BY DEF Cache!Sound
<1>1. /\ pc[p] \in {"next", "bucket", "lock", "test"} => at[p] = 0
      /\ pc[p] = "find" =>
           IF at[p] = 0 THEN \A x \in Cache!List(Cache!Idx(p)) : blk[x] # want[p]
           ELSE /\ at[p] \in Cache!List(Cache!Idx(p))
                /\ \A x \in Cache!List(Cache!Idx(p)) : blk[x] = want[p] => x \in {at[p]} \cup A[at[p]]
      /\ pc[p] = "erase" /\ at[p] # 0 =>
           /\ at[p] \in Cache!List(other[p])
           /\ Cache!Mine(p) # 0 => b[p] \in A[at[p]]
  BY DEF Cache!WalkInv, Cache!Walk
<1>2. CASE Cache!LockBucket(p)
  <2> DEFINE S == Cache!List(Cache!Idx(p))
             f == first[Cache!Idx(p)]
  <2>1. /\ pc'[p] = "find" /\ at'[p] = f /\ want' = want /\ Cache!Idx(p)' = Cache!Idx(p)
        /\ Cache!List(Cache!Idx(p)') = S /\ Cache!Leads(f, S, A)
    BY <1>2, CacheLocalTypes DEF Cache!LockBucket, Cache!Goto, Cache!WalkAt, Cache!TypeOK,
       Cache!Idx, Cache!Chain
  <2> HIDE DEF S, f
  <2> QED
    BY <2>1 DEF Cache!Leads
<1>3. CASE Cache!FindNext(p)
  <2> DEFINE S == Cache!List(Cache!Idx(p))
             y == at[p]
  <2>1. /\ pc'[p] = "find" /\ at'[p] = next[y] /\ want' = want /\ Cache!Idx(p)' = Cache!Idx(p)
        /\ Cache!List(Cache!Idx(p)') = S /\ y \in S /\ blk[y] # want[p]
        /\ \A x \in S : blk[x] = want[p] => x \in {y} \cup A[y]
    BY <1>1, <1>3 DEF Cache!FindNext, Cache!Goto, Cache!WalkAt, Cache!TypeOK, Cache!Idx
  <2>2. Cache!Leads(next[y], A[y], A) /\ A[y] \subseteq S
    BY <2>1, CacheLocalTypes DEF Cache!Chain
  <2> HIDE DEF S, y
  <2> QED
    BY <2>1, <2>2 DEF Cache!Leads
<1>4. CASE Cache!EraseNext(p)
  <2> DEFINE S == Cache!List(other[p])
             y == at[p]
             f == first[other[p]]
  <2>1. /\ pc[p] = "erase" /\ pc'[p] = "erase" /\ at'[p] = Cache!Ahead(p) /\ other' = other /\ b' = b
        /\ Cache!Mine(p)' = Cache!Mine(p) /\ blk[Cache!Ahead(p)] # Cache!Mine(p) /\ Cache!Ahead(p) # 0
        /\ Cache!hash(key[p]) = other[p] /\ Cache!hash(Cache!Mine(p)) = other[p] /\ b[p] \in Cache!Bufs
        /\ other[p] \in Cache!Buckets
    <3>1. /\ pc[p] = "erase" /\ pc' = pc /\ at'[p] = Cache!Ahead(p) /\ other' = other /\ b' = b /\ blk' = blk
          /\ Cache!Ahead(p) # 0 /\ blk[Cache!Ahead(p)] # key[p]
      BY <1>4 DEF Cache!EraseNext, Cache!WalkAt, Cache!TypeOK, Cache!buffers
    <3>2. Cache!hash(Cache!Mine(p)) = other[p] /\ key[p] = Cache!Mine(p)
      BY <1>0, <3>1 DEF Cache!RecycleInv
    <3> QED
      BY <3>1, <3>2, CacheLocalTypes DEF Cache!Mine
  <2>2. Cache!Mine(p) # 0 => b[p] \in S /\ b[p] # Cache!Ahead(p)
    <3>1. ~Cache!Off(b[p])
      <4>1. ASSUME NEW q \in Procs, b[q] = b[p], pc[q] \in Cache!Recycling \ {"erase"} PROVE FALSE
        BY <1>0, <2>1, <4>1, CacheOneRecycles DEF Cache!Recycling
      <4> QED
        BY <4>1 DEF Cache!Off
    <3> QED
      BY <2>1, <3>1 DEF Cache!List, Cache!Mine
  <2>3. Cache!Leads(f, S, A)
    BY <2>1 DEF Cache!Chain
  <2>4. ASSUME y # 0
        PROVE  y \in S /\ Cache!Leads(next[y], A[y], A) /\ A[y] \subseteq S /\ (Cache!Mine(p) # 0 => b[p] \in A[y])
    <3>1. y \in S /\ (Cache!Mine(p) # 0 => b[p] \in A[y]) /\ Cache!Chain(f, S, next, A)
      <4>1. y \in S /\ (Cache!Mine(p) # 0 => b[p] \in A[y])
        BY <1>1, <2>1, <2>4
      <4>2. Cache!Chain(f, S, next, A)
        BY <2>1
      <4> QED
        BY <4>1, <4>2
    <3> HIDE DEF S, f, y
    <3> QED
      BY <3>1 DEF Cache!Chain
  <2>5. Cache!Ahead(p) = IF y = 0 THEN f ELSE next[y]
    BY <2>1 DEF Cache!Ahead
  <2>6. Cache!Ahead(p) \in S /\ (Cache!Mine(p) # 0 => b[p] \in A[Cache!Ahead(p)])
    <3> HIDE DEF S, f, y
    <3> QED
      BY <2>1, <2>2, <2>3, <2>4, <2>5 DEF Cache!Leads
  <2> QED
    BY <2>1, <2>6
<1>5. CASE Cache!Miss(p) \/ Cache!ReadDev(p) \/ Cache!ReadBucket(p) \/ Cache!LockOther(p) \/ Cache!InUse(p) \/ Cache!Unused(p)
  <2>1. at' = at /\ at[p] = 0 /\ pc'[p] # "find"
    BY <1>1, <1>5 DEF Cache!Miss, Cache!ReadDev, Cache!ReadBucket, Cache!dev, Cache!LockOther, Cache!InUse,
       Cache!Unused, Cache!Goto, Cache!TypeOK
  <2> QED
    BY <2>1
<1>6. CASE ~(Cache!LockBucket(p) \/ Cache!FindNext(p) \/ Cache!EraseNext(p) \/ Cache!Miss(p)
             \/ Cache!ReadDev(p) \/ Cache!ReadBucket(p) \/ Cache!LockOther(p) \/ Cache!InUse(p) \/ Cache!Unused(p))
  <2>1. pc'[p] \notin {"next", "bucket", "lock", "test", "find", "erase"}
    BY <1>6, CacheMoves
  <2> QED
    BY <2>1
<1> QED
  BY <1>2, <1>3, <1>4, <1>5, <1>6

LEMMA CacheStepOrdered ==
  ASSUME CacheSizes, Cache!TypeOK, Cache!Sound, ~stale, ~stale', NEW p \in Procs, CacheStep(p)
  PROVE  Cache!Ordered'
<1>1. PICK A \in [Cache!Bufs -> SUBSET Cache!Bufs] :
        /\ \A h \in Cache!Buckets : Cache!Chain(first[h], Cache!List(h), next, A)
        /\ Cache!WalkInv(A)
  BY DEF Cache!Sound, Cache!Ordered
<1>2. PICK B \in [Cache!Bufs -> SUBSET Cache!Bufs] :
        /\ \A h \in Cache!Buckets : Cache!Chain(first'[h], Cache!List(h)', next', B)
        /\ \A h \in Cache!Buckets : ~Touches(p, h) => Untouched(h, A, B)
        /\ ~Cache!Erase(p) /\ ~Cache!Link(p) => B = A
  BY <1>1, CacheNewOrder
<1>5. ASSUME NEW q \in Procs, q # p PROVE Cache!Walk(q, B)'
  BY <1>1, <1>2, <1>5, CacheOthersWalk
<1>6. Cache!Walk(p, B)'
  <2>1. CASE Cache!Erase(p) \/ Cache!Link(p)
    <3>1. pc'[p] \in {"dev", "acquiresleep"}
      BY <2>1 DEF Cache!Erase, Cache!Link, Cache!Goto, Cache!TypeOK
    <3> QED
      BY <3>1 DEF Cache!Walk
  <2>2. CASE ~Cache!Erase(p) /\ ~Cache!Link(p)
    <3>1. Cache!Idx(p)' \in Cache!Buckets /\ other'[p] \in Cache!Buckets
      BY CacheStepType, CacheHashType, CacheSmallTypes DEF Cache!TypeOK, Cache!Idx
    <3>2. \A h \in Cache!Buckets : Cache!List(h)' = Cache!List(h) /\ \A x \in Cache!List(h) : blk'[x] = blk[x]
      BY <2>2, CacheListsStay
    <3>3. /\ pc'[p] \in {"next", "bucket", "lock", "test"} => at'[p] = 0
          /\ pc'[p] = "find" =>
               IF at'[p] = 0 THEN \A x \in Cache!List(Cache!Idx(p)') : blk[x] # want'[p]
               ELSE /\ at'[p] \in Cache!List(Cache!Idx(p)')
                    /\ \A x \in Cache!List(Cache!Idx(p)') : blk[x] = want'[p] => x \in {at'[p]} \cup B[at'[p]]
          /\ pc'[p] = "erase" /\ at'[p] # 0 =>
               /\ at'[p] \in Cache!List(other'[p])
               /\ Cache!Mine(p)' # 0 => b'[p] \in B[at'[p]]
      BY <1>1, <1>2, <2>2, CacheOwnWalk
    <3> QED
      BY <3>1, <3>2, <3>3 DEF Cache!Walk
  <2> QED
    BY <2>1, <2>2
<1>3. Cache!WalkInv(B)'
  BY <1>5, <1>6 DEF Cache!WalkInv
<1>4. \A h \in Cache!Buckets : Cache!Chain(first[h], Cache!List(h), next, B)'
  BY <1>2
<1> QED
  BY <1>3, <1>4 DEF Cache!Ordered

-----------------------------------------------------------------------------
LEMMA CacheInitInv ==
  ASSUME CacheSizes
  PROVE  Cache!Init => Cache!IInv
<1> SUFFICES ASSUME Cache!Init PROVE Cache!IInv
  OBVIOUS
<1>1. Cache!TypeOK
  <2>1. 0 \in Cache!Buckets /\ 1 \in Cache!Bufs /\ 0 \in 0..UINT_MAX /\ 0 \in 0..1
    BY CacheSmallTypes
  <2>2. /\ refcnt \in [Cache!Bufs -> 0..UINT_MAX] /\ pins \in [Cache!Bufs -> 0..1]
        /\ other \in [Procs -> Cache!Buckets] /\ b \in [Procs -> Cache!Bufs]
    BY <2>1 DEF Cache!Init
  <2> QED
    BY <2>2 DEF Cache!Init, Cache!TypeOK, Cache!PCs
<1>2. Cache!SearchInv /\ Cache!RecycleInv /\ Cache!HalfInv /\ Cache!UseInv /\ Cache!DataInv /\ Cache!OneBufferPerBlock
  BY CacheSmallTypes DEF Cache!Init, Cache!HalfInv, Cache!SearchInv, Cache!RecycleInv, Cache!UseInv, Cache!DataInv,
     Cache!OneBufferPerBlock, Cache!Searching, Cache!Recycling, Cache!Using
<1>3. Cache!RefcntCounts
  <2>1. \A x \in Cache!Bufs : Cache!Users(x) = {} /\ refcnt[x] = 0 /\ pins[x] = 0
    BY DEF Cache!Init, Cache!Users
  <2> QED
    BY <2>1, CacheUsersAre, CacheCounts DEF Cache!RefcntCounts
<1>4. Cache!Ordered
  <2> DEFINE A == [x \in Cache!Bufs |-> {}]
  <2>1. \A h \in Cache!Buckets : Cache!List(h) = {} /\ first[h] = 0
    BY DEF Cache!Init, Cache!List
  <2>2. \A h \in Cache!Buckets : Cache!Chain(first[h], Cache!List(h), next, A)
    BY <2>1 DEF Cache!Chain, Cache!Leads
  <2>3. Cache!WalkInv(A)
    BY DEF Cache!Init, Cache!WalkInv, Cache!Walk
  <2>4. A \in [Cache!Bufs -> SUBSET Cache!Bufs]
    OBVIOUS
  <2> QED
    BY <2>2, <2>3, <2>4 DEF Cache!Ordered
<1> QED
  BY <1>1, <1>2, <1>3, <1>4 DEF Cache!IInv, Cache!Sound

LEMMA CacheNextInv ==
  ASSUME CacheSizes
  PROVE  Cache!IInv /\ [Cache!Next]_Cache!vars => Cache!IInv'
<1> SUFFICES ASSUME Cache!IInv, [Cache!Next]_Cache!vars PROVE Cache!IInv'
  OBVIOUS
<1>1. ASSUME NEW p \in Procs, CacheStep(p) PROVE Cache!IInv'
  <2>1. Cache!TypeOK /\ Cache!TypeOK'
    BY <1>1, CacheStepType DEF Cache!IInv
  <2>2. ASSUME ~stale' PROVE Cache!Sound'
    <3>1. ~stale /\ Cache!Sound
      BY <1>1, <2>2, CacheStaleStays DEF Cache!IInv
    <3>2. Cache!RefcntCounts'
      BY <1>1, <2>1, <3>1, CacheStepCounts, CacheCounts DEF Cache!RefcntCounts
    <3>3. Cache!HalfInv'
      BY <1>1, <2>1, <3>1, CacheStepHalf DEF Cache!HalfInv
    <3> QED
      BY <1>1, <2>1, <2>2, <3>1, <3>2, <3>3, CacheStepSearch, CacheStepRecycle, CacheStepUse,
         CacheStepData, CacheStepOneBuffer, CacheStepOrdered DEF Cache!Sound
  <2> QED
    BY <2>1, <2>2 DEF Cache!IInv
<1>2. CASE UNCHANGED Cache!vars
  <2>1. Cache!TypeOK' /\ (stale' <=> stale)
    BY <1>2 DEF Cache!IInv, Cache!TypeOK, Cache!vars, Cache!buffers, Cache!lists,
       Cache!locals
  <2>2. Cache!Sound => Cache!Sound'
    <3>1. /\ Cache!SearchInv => Cache!SearchInv'
          /\ Cache!RecycleInv => Cache!RecycleInv'
          /\ Cache!HalfInv => Cache!HalfInv'
          /\ Cache!UseInv => Cache!UseInv'
          /\ Cache!DataInv => Cache!DataInv'
          /\ Cache!OneBufferPerBlock => Cache!OneBufferPerBlock'
          /\ Cache!RefcntCounts => Cache!RefcntCounts'
      BY <1>2 DEF Cache!SearchInv, Cache!RecycleInv, Cache!HalfInv, Cache!UseInv, Cache!DataInv,
         Cache!OneBufferPerBlock, Cache!RefcntCounts, Cache!Users, Cache!Idx, Cache!Mine,
         Cache!vars, Cache!buffers, Cache!lists, Cache!locals
    <3>2. Cache!Ordered => Cache!Ordered'
      <4>1. /\ \A h \in Cache!Buckets : Cache!List(h)' = Cache!List(h) /\ first'[h] = first[h]
            /\ next' = next
        BY <1>2 DEF Cache!List, Cache!Off, Cache!vars, Cache!buffers, Cache!lists,
           Cache!locals
      <4>2. ASSUME NEW A, Cache!WalkInv(A) PROVE Cache!WalkInv(A)'
        BY <1>2, <4>2 DEF Cache!WalkInv, Cache!Walk, Cache!List, Cache!Off, Cache!Idx,
           Cache!Mine, Cache!vars, Cache!buffers, Cache!lists, Cache!locals
      <4> QED
        BY <4>1, <4>2 DEF Cache!Ordered
    <3> QED
      BY <3>1, <3>2 DEF Cache!Sound
  <2> QED
    BY <2>1, <2>2 DEF Cache!IInv
<1> QED
  BY <1>1, <1>2, CacheStepIs

LEMMA CacheInvariance ==
  ASSUME CacheSizes
  PROVE  Cache!Spec => []Cache!IInv
BY CacheInitInv, CacheNextInv, PTL DEF Cache!Spec

(* A block never has two buffers, however many buckets there are, as long  *)
(* as none is recycled under a wrong lock: bget() keeps the lock of the    *)
(* block's own bucket while it looks for a buffer, find() sees the whole   *)
(* list, and erase() and insert() leave it whole.                          *)
THEOREM OneBuffer ==
  ASSUME CacheSizes
  PROVE  Cache!Spec => []Cache!OneBufferPerBlock
<1>1. Cache!IInv => Cache!OneBufferPerBlock
  BY DEF Cache!IInv, Cache!Sound, Cache!OneBufferPerBlock
<1> QED
  BY <1>1, CacheInvariance, PTL

(* bread() returns a valid buffer of the block it was asked for, with that  *)
(* block's data and locked by the caller, however many buckets there are,  *)
(* as long as none is recycled under a wrong lock.                         *)
THEOREM BreadGetsItsBlock ==
  ASSUME CacheSizes
  PROVE  Cache!Spec => []Cache!GetsItsBlock
<1>1. Cache!IInv => Cache!GetsItsBlock
  <2> SUFFICES ASSUME Cache!TypeOK, Cache!Sound, ~stale, NEW p \in Procs, pc[p] = "using"
               PROVE  slock[b[p]] = p /\ blk[b[p]] = want[p] /\ data[b[p]] = want[p]
    BY DEF Cache!IInv, Cache!GetsItsBlock, Cache!ReturnsItsBlock
  <2>1. /\ slock[b[p]] = p /\ Cache!Mine(p) = want[p] /\ valid[b[p]] /\ b[p] \in Cache!Bufs
        /\ Cache!UseInv /\ Cache!DataInv /\ Cache!RecycleInv
    BY CacheLocalTypes DEF Cache!Sound, Cache!UseInv, Cache!Using
  <2>2. ASSUME NEW q \in Procs, b[q] = b[p], pc[q] \in {"retag", "invalidate"} PROVE FALSE
    <3>1. Cache!Users(b[q]) = {}
      BY <2>2, CacheRecycledIsUnused DEF Cache!Sound
    <3> QED
      BY <2>2, <3>1 DEF Cache!Users
  <2> QED
    BY <2>1, <2>2 DEF Cache!DataInv, Cache!Mine
<1> QED
  BY <1>1, CacheInvariance, PTL

(* b->refcnt is the number of the processes that use b and of the log's    *)
(* pins under the same condition: brelse() and bunpin() undo exactly what  *)
(* bget() and bpin() did, whichever bucket they lock.                      *)
THEOREM RefcntsCount ==
  ASSUME CacheSizes
  PROVE  Cache!Spec => []Cache!RefcntCounts
<1>1. Cache!IInv => Cache!RefcntCounts
  BY DEF Cache!IInv, Cache!Sound, Cache!RefcntCounts
<1> QED
  BY <1>1, CacheInvariance, PTL

-----------------------------------------------------------------------------
(* KallocPerCpu                                                            *)
(*                                                                         *)
(* No page is lost or given out twice, and a kalloc() that returns 0 saw   *)
(* memory exhausted or raced a kfree().  The invariant that carries the    *)
(* second is VisitedAreEmpty: what the loop has passed stays empty, since  *)
(* kalloc() only takes pages off the lists.                                *)

KallocSizes == NCPU \in Nat \ {0}

USE DEF PerCpu!CPUs

(* kinit() establishes the invariant. *)
LEMMA KallocInitInv ==
  ASSUME KallocSizes
  PROVE  PerCpu!Init => PerCpu!IInv
<1> SUFFICES ASSUME PerCpu!Init PROVE PerCpu!IInv
  OBVIOUS
<1>1. 0 \in PerCpu!CPUs
  BY DEF KallocSizes
<1>2. PerCpu!TypeOK
  BY <1>1 DEF PerCpu!Init, PerCpu!TypeOK, PerCpu!PCs
<1>3. PerCpu!PagesArePartitioned
  BY DEF PerCpu!Init, PerCpu!PagesArePartitioned
<1>4. PerCpu!VisitedAreEmpty /\ PerCpu!FailsOnlyWhenExhaustedOrRaced
  BY DEF PerCpu!Init, PerCpu!VisitedAreEmpty, PerCpu!FailsOnlyWhenExhaustedOrRaced
<1> QED
  BY <1>2, <1>3, <1>4 DEF PerCpu!IInv

-----------------------------------------------------------------------------
(* The history variables keep their type in every step. *)
LEMMA KallocRecordTypeOK ==
  ASSUME KallocSizes, PerCpu!Record
  PROVE  exhausted' \in [Procs -> BOOLEAN] /\ freed' \in [Procs -> BOOLEAN]
BY DEF PerCpu!Record

(* One step per action: each keeps the types. *)
LEMMA KallocNextTypeOK ==
  ASSUME KallocSizes
  PROVE  PerCpu!TypeOK /\ [PerCpu!Next]_PerCpu!vars => PerCpu!TypeOK'
<1> SUFFICES ASSUME PerCpu!TypeOK, [PerCpu!Next]_PerCpu!vars PROVE PerCpu!TypeOK'
  OBVIOUS
<1> USE DEF PerCpu!Goto
<1> DEFINE ListsOK == freelist \in [PerCpu!CPUs -> SUBSET Pages]
           HeldOK == held \in [Procs -> SUBSET Pages]
           OthersOK == /\ lock \in [PerCpu!CPUs -> Procs \cup {None}]
                       /\ pc \in [Procs -> PerCpu!PCs]
                       /\ cpu \in [Procs -> PerCpu!CPUs]
                       /\ i \in [Procs -> PerCpu!CPUs]
           HistoryOK == /\ exhausted \in [Procs -> BOOLEAN]
                        /\ freed \in [Procs -> BOOLEAN]
<1>1. ListsOK /\ HeldOK /\ OthersOK /\ HistoryOK
  BY DEF PerCpu!TypeOK
<1>2. ASSUME PerCpu!Record PROVE HistoryOK'
  BY <1>2, KallocRecordTypeOK
<1>3. ASSUME NEW p \in Procs, NEW c \in PerCpu!CPUs, NEW r \in freelist[c], PerCpu!Pop(p, c, r)
      PROVE  ListsOK' /\ HeldOK'
  <2>1. r \in Pages
    BY <1>1
  <2>2. ListsOK'
    BY <1>1, <1>3 DEF PerCpu!Pop
  <2>3. HeldOK'
    BY <1>1, <1>3, <2>1 DEF PerCpu!Pop
  <2> QED
    BY <2>2, <2>3
<1>4. ASSUME NEW p \in Procs, NEW c \in PerCpu!CPUs, PerCpu!CallKalloc(p, c) \/ PerCpu!CallKfree(p, c)
      PROVE  PerCpu!TypeOK'
  BY <1>1, <1>2, <1>4 DEF PerCpu!CallKalloc, PerCpu!CallKfree, PerCpu!kmem, PerCpu!TypeOK, PerCpu!PCs
<1>5. ASSUME NEW p \in Procs, PerCpu!TakeOwn(p) PROVE PerCpu!TypeOK'
  <2>1. OthersOK'
    BY <1>1, <1>5 DEF PerCpu!TakeOwn, PerCpu!Pop, PerCpu!PCs
  <2> QED
    BY <1>1, <1>2, <1>3, <1>5, <2>1 DEF PerCpu!TakeOwn, PerCpu!TypeOK
<1>6. ASSUME NEW p \in Procs, PerCpu!OwnIsEmpty(p) PROVE PerCpu!TypeOK'
  <2>1. 0 \in PerCpu!CPUs
    BY DEF KallocSizes
  <2>2. OthersOK'
    BY <1>1, <1>6, <2>1 DEF PerCpu!OwnIsEmpty, PerCpu!PCs
  <2> QED
    BY <1>1, <1>2, <1>6, <2>2 DEF PerCpu!OwnIsEmpty, PerCpu!TypeOK
<1>7. ASSUME NEW p \in Procs, PerCpu!Steal(p) PROVE PerCpu!TypeOK'
  <2>1. 0 \in PerCpu!CPUs
    BY DEF KallocSizes
  <2>2. OthersOK'
    BY <1>1, <1>7, <2>1 DEF PerCpu!Steal, PerCpu!Pop, PerCpu!PCs
  <2> QED
    BY <1>1, <1>2, <1>3, <1>7, <2>2 DEF PerCpu!Steal, PerCpu!TypeOK
<1>8. ASSUME NEW p \in Procs, PerCpu!NextList(p) PROVE PerCpu!TypeOK'
  <2>1. 0 \in PerCpu!CPUs
    BY DEF KallocSizes
  <2>2. CASE i[p] + 1 < NCPU
    <3>1. i[p] + 1 \in PerCpu!CPUs
      BY <1>1, <2>2 DEF KallocSizes
    <3>2. OthersOK'
      BY <1>1, <1>8, <2>2, <3>1 DEF PerCpu!NextList
    <3> QED
      BY <1>1, <1>2, <1>8, <3>2 DEF PerCpu!NextList, PerCpu!TypeOK
  <2>3. CASE ~(i[p] + 1 < NCPU)
    <3>1. OthersOK'
      BY <1>1, <1>8, <2>1, <2>3 DEF PerCpu!NextList, PerCpu!PCs
    <3> QED
      BY <1>1, <1>2, <1>8, <3>1 DEF PerCpu!NextList, PerCpu!TypeOK
  <2> QED
    BY <2>2, <2>3
<1>9. ASSUME NEW p \in Procs, PerCpu!Return(p) PROVE PerCpu!TypeOK'
  BY <1>1, <1>2, <1>9 DEF PerCpu!Return, PerCpu!kmem, PerCpu!TypeOK, PerCpu!PCs
<1>10. ASSUME NEW p \in Procs, PerCpu!Kfree(p) PROVE PerCpu!TypeOK'
  <2>1. PICK r \in held[p] : /\ freelist' = [freelist EXCEPT ![cpu[p]] = @ \cup {r}]
                             /\ held' = [held EXCEPT ![p] = @ \ {r}]
    BY <1>10 DEF PerCpu!Kfree
  <2>2. r \in Pages
    BY <1>1
  <2>3. ListsOK'
    BY <1>1, <2>1, <2>2
  <2>4. HeldOK'
    BY <1>1, <2>1
  <2>5. OthersOK'
    BY <1>1, <1>10 DEF PerCpu!Kfree, PerCpu!PCs
  <2> QED
    BY <1>2, <1>10, <2>3, <2>4, <2>5 DEF PerCpu!Kfree, PerCpu!TypeOK
<1>11. CASE UNCHANGED PerCpu!vars
  BY <1>1, <1>11 DEF PerCpu!vars, PerCpu!kmem, PerCpu!locals, PerCpu!history, PerCpu!TypeOK
<1> QED
  BY <1>4, <1>5, <1>6, <1>7, <1>8, <1>9, <1>10, <1>11 DEF PerCpu!Next, PerCpu!Step

-----------------------------------------------------------------------------
(* A page that moves has one owner before and one after. *)
LEMMA KallocNextPartition ==
  ASSUME KallocSizes
  PROVE  PerCpu!TypeOK /\ PerCpu!PagesArePartitioned /\ [PerCpu!Next]_PerCpu!vars => PerCpu!PagesArePartitioned'
<1> SUFFICES ASSUME PerCpu!TypeOK, PerCpu!PagesArePartitioned, [PerCpu!Next]_PerCpu!vars
             PROVE  PerCpu!PagesArePartitioned'
  OBVIOUS
<1> DEFINE Listed(s) == \E c \in PerCpu!CPUs : s \in freelist[c]
           Held(s) == \E q \in Procs : s \in held[q]
<1>1. ASSUME NEW p \in Procs, NEW c \in PerCpu!CPUs, NEW r \in freelist[c], PerCpu!Pop(p, c, r)
      PROVE  PerCpu!PagesArePartitioned'
  <2>1. \A d \in PerCpu!CPUs : \A s : s \in freelist'[d] <=>
                                   s \in freelist[d] /\ ~(d = c /\ s = r)
    BY <1>1 DEF PerCpu!Pop, PerCpu!TypeOK
  <2>2. \A q \in Procs : \A s : s \in held'[q] <=> s \in held[q] \/ (q = p /\ s = r)
    BY <1>1 DEF PerCpu!Pop, PerCpu!TypeOK
  <2>3. /\ \A d \in PerCpu!CPUs : r \in freelist[d] => d = c
        /\ \A q \in Procs : r \notin held[q]
    BY <1>1 DEF PerCpu!PagesArePartitioned
  <2>4. ASSUME NEW s \in Pages PROVE Listed(s)' \/ Held(s)'
    <3>1. CASE s = r
      BY <2>2, <3>1
    <3>2. CASE s # r /\ Listed(s)
      BY <2>1, <3>2
    <3>3. CASE Held(s)
      BY <2>2, <3>3
    <3> QED
      BY <3>1, <3>2, <3>3 DEF PerCpu!PagesArePartitioned
  <2>5. \A d, e \in PerCpu!CPUs : d # e => freelist'[d] \cap freelist'[e] = {}
    BY <2>1 DEF PerCpu!PagesArePartitioned
  <2>6. \A q, s \in Procs : q # s => held'[q] \cap held'[s] = {}
    BY <2>2, <2>3 DEF PerCpu!PagesArePartitioned
  <2>7. \A d \in PerCpu!CPUs, q \in Procs : freelist'[d] \cap held'[q] = {}
    BY <2>1, <2>2, <2>3 DEF PerCpu!PagesArePartitioned
  <2> QED
    BY <2>4, <2>5, <2>6, <2>7 DEF PerCpu!PagesArePartitioned
<1>2. ASSUME NEW p \in Procs, PerCpu!Kfree(p) PROVE PerCpu!PagesArePartitioned'
  <2>1. PICK r \in held[p] : /\ freelist' = [freelist EXCEPT ![cpu[p]] = @ \cup {r}]
                             /\ held' = [held EXCEPT ![p] = @ \ {r}]
    BY <1>2 DEF PerCpu!Kfree
  <2>2. \A c \in PerCpu!CPUs : \A s : s \in freelist'[c] <=>
                                   s \in freelist[c] \/ (c = cpu[p] /\ s = r)
    BY <2>1 DEF PerCpu!TypeOK
  <2>3. \A q \in Procs : \A s : s \in held'[q] <=> s \in held[q] /\ ~(q = p /\ s = r)
    BY <2>1 DEF PerCpu!TypeOK
  <2>4. /\ cpu[p] \in PerCpu!CPUs
        /\ \A c \in PerCpu!CPUs : r \notin freelist[c]
        /\ \A q \in Procs : r \in held[q] => q = p
    BY <1>2, <2>1 DEF PerCpu!TypeOK, PerCpu!PagesArePartitioned
  <2>5. ASSUME NEW s \in Pages PROVE Listed(s)' \/ Held(s)'
    <3>1. CASE s = r
      BY <2>2, <2>4, <3>1
    <3>2. CASE Listed(s)
      BY <2>2, <3>2
    <3>3. CASE s # r /\ Held(s)
      BY <2>3, <3>3
    <3> QED
      BY <3>1, <3>2, <3>3 DEF PerCpu!PagesArePartitioned
  <2>6. \A c, d \in PerCpu!CPUs : c # d => freelist'[c] \cap freelist'[d] = {}
    BY <2>2, <2>4 DEF PerCpu!PagesArePartitioned
  <2>7. \A q, s \in Procs : q # s => held'[q] \cap held'[s] = {}
    BY <2>3 DEF PerCpu!PagesArePartitioned
  <2>8. \A c \in PerCpu!CPUs, q \in Procs : freelist'[c] \cap held'[q] = {}
    BY <2>2, <2>3, <2>4 DEF PerCpu!PagesArePartitioned
  <2> QED
    BY <2>5, <2>6, <2>7, <2>8 DEF PerCpu!PagesArePartitioned
<1>3. CASE UNCHANGED <<freelist, held>>
  BY <1>3 DEF PerCpu!PagesArePartitioned
<1>4. ASSUME NEW p \in Procs, PerCpu!TakeOwn(p) \/ PerCpu!Steal(p) PROVE PerCpu!PagesArePartitioned'
  BY <1>1, <1>4 DEF PerCpu!TakeOwn, PerCpu!Steal, PerCpu!TypeOK
<1> QED
  BY <1>2, <1>3, <1>4
     DEF PerCpu!Next, PerCpu!Step, PerCpu!CallKalloc, PerCpu!CallKfree, PerCpu!OwnIsEmpty, PerCpu!NextList, PerCpu!Return,
         PerCpu!vars, PerCpu!kmem, PerCpu!locals

-----------------------------------------------------------------------------
(* In a step with no kfree() no list gains a page. *)
LEMMA KallocListsOnlyShrink ==
  ASSUME KallocSizes, PerCpu!TypeOK, [PerCpu!Next]_PerCpu!vars, NEW c \in PerCpu!CPUs, NEW q \in Procs,
         PerCpu!InKalloc(q), pc'[q] \in {"take", "scan", "failed"}
  PROVE  freed'[q] \/ freelist'[c] \subseteq freelist[c]
<1>1. CASE UNCHANGED PerCpu!vars
  BY <1>1 DEF PerCpu!vars, PerCpu!kmem
<1>2. CASE PerCpu!Record
  BY <1>2 DEF PerCpu!Record
<1> QED
  BY <1>1, <1>2
     DEF PerCpu!Next, PerCpu!Step, PerCpu!CallKalloc, PerCpu!CallKfree, PerCpu!TakeOwn, PerCpu!OwnIsEmpty, PerCpu!Steal,
         PerCpu!NextList, PerCpu!Return, PerCpu!Kfree

LEMMA KallocFreedLasts ==
  ASSUME KallocSizes, PerCpu!TypeOK, [PerCpu!Next]_PerCpu!vars, NEW q \in Procs,
         freed[q], pc'[q] \in {"take", "scan", "failed"}
  PROVE  freed'[q]
<1>1. CASE UNCHANGED PerCpu!vars
  BY <1>1 DEF PerCpu!vars, PerCpu!history
<1>2. CASE PerCpu!Record
  BY <1>2 DEF PerCpu!Record
<1> QED
  BY <1>1, <1>2
     DEF PerCpu!Next, PerCpu!Step, PerCpu!CallKalloc, PerCpu!CallKfree, PerCpu!TakeOwn, PerCpu!OwnIsEmpty, PerCpu!Steal,
         PerCpu!NextList, PerCpu!Return, PerCpu!Kfree
-----------------------------------------------------------------------------
(* The lists the loop has passed stay empty. *)
LEMMA KallocNextVisited ==
  ASSUME KallocSizes
  PROVE  PerCpu!TypeOK /\ PerCpu!VisitedAreEmpty /\ [PerCpu!Next]_PerCpu!vars => PerCpu!VisitedAreEmpty'
<1> SUFFICES ASSUME PerCpu!TypeOK, PerCpu!VisitedAreEmpty, [PerCpu!Next]_PerCpu!vars,
                    NEW q \in Procs, pc'[q] = "scan", ~freed'[q],
                    NEW c \in PerCpu!CPUs, c < i'[q] \/ c = cpu'[q]
             PROVE  freelist'[c] = {}
  BY DEF PerCpu!VisitedAreEmpty
<1>1. CASE UNCHANGED <<pc, cpu, i>> \/ UNCHANGED <<pc[q], cpu[q], i[q]>>
  <2>1. pc[q] = "scan" /\ (c < i[q] \/ c = cpu[q])
    BY <1>1
  <2>2. ~freed[q] /\ freelist'[c] \subseteq freelist[c]
    BY <2>1, KallocFreedLasts, KallocListsOnlyShrink DEF PerCpu!InKalloc
  <2> QED
    BY <2>1, <2>2 DEF PerCpu!VisitedAreEmpty
(* The loop begins: the own list is empty. *)
<1>2. CASE PerCpu!OwnIsEmpty(q)
  <2>1. i'[q] = 0 /\ cpu'[q] = cpu[q]
    BY <1>2 DEF PerCpu!OwnIsEmpty, PerCpu!TypeOK
  <2>2. c = cpu[q]
    BY <2>1
  <2> QED
    BY <1>2, <2>2 DEF PerCpu!OwnIsEmpty
(* The loop goes on past an empty list. *)
<1>3. CASE PerCpu!NextList(q)
  <2>1. pc[q] = "scan" /\ freelist' = freelist /\ cpu' = cpu
    BY <1>3 DEF PerCpu!NextList
  <2>2. ~freed[q]
    BY <2>1, KallocFreedLasts
  <2>3. i' = [i EXCEPT ![q] = i[q] + 1]
    BY <1>3 DEF PerCpu!NextList, PerCpu!Goto, PerCpu!TypeOK
  <2>4. i[q] \in Nat /\ i'[q] = i[q] + 1
    BY <2>3 DEF PerCpu!TypeOK
  <2>5. c < i[q] \/ c = i[q] \/ c = cpu[q]
    BY <2>1, <2>4
  <2>6. CASE c < i[q] \/ c = cpu[q]
    BY <2>1, <2>2, <2>6 DEF PerCpu!VisitedAreEmpty
  <2>7. CASE c = i[q] /\ c # cpu[q]
    BY <1>3, <2>1, <2>7 DEF PerCpu!NextList
  <2> QED
    BY <2>5, <2>6, <2>7
<1>4. ASSUME NEW p \in Procs, p # q,
             PerCpu!Step(p) \/ PerCpu!Return(p) \/ \E d \in PerCpu!CPUs : PerCpu!CallKalloc(p, d) \/ PerCpu!CallKfree(p, d)
      PROVE  UNCHANGED <<pc[q], cpu[q], i[q]>>
  BY <1>4 DEF PerCpu!Step, PerCpu!Return, PerCpu!CallKalloc, PerCpu!CallKfree, PerCpu!TakeOwn, PerCpu!OwnIsEmpty, PerCpu!Steal,
              PerCpu!NextList, PerCpu!Kfree, PerCpu!Pop, PerCpu!Goto, PerCpu!TypeOK
<1>5. ASSUME \/ PerCpu!TakeOwn(q) \/ PerCpu!Steal(q) \/ PerCpu!Return(q) \/ PerCpu!Kfree(q)
             \/ \E d \in PerCpu!CPUs : PerCpu!CallKalloc(q, d) \/ PerCpu!CallKfree(q, d)
      PROVE  FALSE
  BY <1>5 DEF PerCpu!TakeOwn, PerCpu!Steal, PerCpu!Return, PerCpu!Kfree, PerCpu!CallKalloc, PerCpu!CallKfree, PerCpu!Pop, PerCpu!Goto, PerCpu!TypeOK
<1>6. CASE UNCHANGED PerCpu!vars
  BY <1>1, <1>6 DEF PerCpu!vars, PerCpu!locals
<1> QED
  BY <1>1, <1>2, <1>3, <1>4, <1>5, <1>6 DEF PerCpu!Next, PerCpu!Step

(* When the loop ends every list has been passed. *)
LEMMA KallocNextFailed ==
  ASSUME KallocSizes
  PROVE  PerCpu!TypeOK /\ PerCpu!VisitedAreEmpty /\ PerCpu!FailsOnlyWhenExhaustedOrRaced /\ [PerCpu!Next]_PerCpu!vars
    => PerCpu!FailsOnlyWhenExhaustedOrRaced'
<1> SUFFICES ASSUME PerCpu!TypeOK, PerCpu!VisitedAreEmpty, PerCpu!FailsOnlyWhenExhaustedOrRaced,
                    [PerCpu!Next]_PerCpu!vars, NEW q \in Procs, pc'[q] = "failed"
             PROVE  exhausted'[q] \/ freed'[q]
  BY DEF PerCpu!FailsOnlyWhenExhaustedOrRaced
<1>1. CASE PerCpu!NextList(q)
  <2>1. pc[q] = "scan" /\ freelist' = freelist /\ PerCpu!Record
    BY <1>1 DEF PerCpu!NextList
  <2>2. ~(i[q] + 1 < NCPU) /\ i[q] \in 0..(NCPU - 1)
    BY <1>1, <2>1 DEF PerCpu!NextList, PerCpu!TypeOK
  <2>3. i[q] # cpu[q] => freelist[i[q]] = {}
    BY <1>1 DEF PerCpu!NextList
  <2>4. CASE freed[q]
    BY <2>4, KallocFreedLasts
  <2>5. CASE ~freed[q]
    <3>1. ASSUME NEW c \in PerCpu!CPUs PROVE freelist[c] = {}
      <4>1. c < i[q] \/ c = i[q]
        BY <2>2 DEF KallocSizes
      <4>2. CASE c < i[q] \/ c = cpu[q]
        BY <2>1, <2>5, <4>2 DEF PerCpu!VisitedAreEmpty
      <4>3. CASE c = i[q] /\ c # cpu[q]
        BY <2>3, <4>3
      <4> QED
        BY <4>1, <4>2, <4>3
    <3>2. PerCpu!NoneFree'
      BY <2>1, <3>1 DEF PerCpu!NoneFree
    <3> QED
      BY <2>1, <3>2 DEF PerCpu!Record
  <2> QED
    BY <2>4, <2>5
<1>2. CASE pc[q] = "failed"
  <2>1. exhausted[q] \/ freed[q]
    BY <1>2 DEF PerCpu!FailsOnlyWhenExhaustedOrRaced
  <2>2. CASE UNCHANGED PerCpu!vars
    BY <2>1, <2>2 DEF PerCpu!vars, PerCpu!history
  <2>3. CASE PerCpu!Record
    BY <2>1, <2>3 DEF PerCpu!Record
  <2> QED
    BY <2>2, <2>3
       DEF PerCpu!Next, PerCpu!Step, PerCpu!CallKalloc, PerCpu!CallKfree, PerCpu!TakeOwn, PerCpu!OwnIsEmpty, PerCpu!Steal,
           PerCpu!NextList, PerCpu!Return, PerCpu!Kfree
<1>3. ASSUME pc[q] # "failed" PROVE PerCpu!NextList(q)
  BY <1>3 DEF PerCpu!Next, PerCpu!Step, PerCpu!CallKalloc, PerCpu!CallKfree, PerCpu!TakeOwn, PerCpu!OwnIsEmpty, PerCpu!Steal,
              PerCpu!NextList, PerCpu!Return, PerCpu!Kfree, PerCpu!Pop, PerCpu!Goto, PerCpu!vars, PerCpu!locals, PerCpu!TypeOK
<1> QED
  BY <1>1, <1>2, <1>3

-----------------------------------------------------------------------------
(* IInv is an invariant of the allocator. *)
THEOREM KallocInvariance ==
  ASSUME KallocSizes
  PROVE  PerCpu!Spec => []PerCpu!IInv
<1>1. PerCpu!IInv /\ [PerCpu!Next]_PerCpu!vars => PerCpu!IInv'
  BY KallocNextTypeOK, KallocNextPartition, KallocNextVisited, KallocNextFailed DEF PerCpu!IInv
<1> QED
  BY KallocInitInv, <1>1, PTL DEF PerCpu!Spec

(* Every variable keeps its type; kalloc()'s loop stays within the lists.  *)
THEOREM KallocTypeCorrect ==
  ASSUME KallocSizes
  PROVE  PerCpu!Spec => []PerCpu!TypeOK
<1>1. PerCpu!IInv => PerCpu!TypeOK
  BY DEF PerCpu!IInv
<1> QED
  BY KallocInvariance, <1>1, PTL

(* No page is lost, and none is on two lists, with two processes or both,  *)
(* whichever lists kalloc() steals from.                                   *)
THEOREM NoPageIsLost ==
  ASSUME KallocSizes
  PROVE  PerCpu!Spec => []PerCpu!PagesArePartitioned
<1>1. PerCpu!IInv => PerCpu!PagesArePartitioned
  BY DEF PerCpu!IInv
<1> QED
  BY KallocInvariance, <1>1, PTL

(* A kalloc() that returns 0 was called when memory ran out, or raced a    *)
(* kfree(); other kalloc()s cannot hide a free page from it.               *)
THEOREM FailuresAreJustified ==
  ASSUME KallocSizes
  PROVE  PerCpu!Spec => []PerCpu!FailsOnlyWhenExhaustedOrRaced
<1>1. PerCpu!IInv => PerCpu!FailsOnlyWhenExhaustedOrRaced
  BY DEF PerCpu!IInv
<1> QED
  BY KallocInvariance, <1>1, PTL
=============================================================================
