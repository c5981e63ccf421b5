----------------------------- MODULE BcacheHash -----------------------------
(***************************************************************************)
(* lab9-lock/kernel/bio.c: the buffer cache as a hash table with a lock    *)
(* for each bucket.  bget() keeps its own bucket's lock while it looks for *)
(* a buffer to recycle and takes the lock of the bucket it believes that   *)
(* buffer to be in.                                                        *)
(*                                                                         *)
(* It may believe wrong: then nothing protects the buffer, nor the list it *)
(* is on.  So every access to a list or to a buffer that is being recycled *)
(* is an action, a round of a loop along a list is one, and the lists are  *)
(* the pointers that make them.  No buffer is at 0, which ends a list.     *)
(*                                                                         *)
(* dev and blockno are one number, their sum, which is what hash() makes   *)
(* of them: 0 in a buffer as binit() leaves it, 1 + blockno on dev 1, the  *)
(* only device, and 1 where dev has been assigned and blockno has not.     *)
(* (Block 0 of the disk, the boot block, is never asked for.)              *)
(***************************************************************************)
EXTENDS Naturals, FiniteSets

CONSTANTS Procs,
          NBUF,       \* size of the cache
          Blocks,     \* what processes ask for
          HASHSIZE,
          UINT_MAX,   \* the largest refcnt
          None        \* the owner of a free lock

Bufs == 1..NBUF
Buckets == 0..(HASHSIZE - 1)

ASSUME SizeAssumption == NBUF \in Nat \ {0} /\ HASHSIZE \in Nat \ {0} /\ UINT_MAX \in Nat
ASSUME BlocksAssumption == Blocks \subseteq Nat \ {0, 1}
ASSUME ProcsAssumption == /\ IsFiniteSet(Procs) /\ Cardinality(Procs) < UINT_MAX
                          /\ None \notin Procs

hash(n) == n % HASHSIZE

VARIABLES blk,        \* each buffer's dev and blockno
          valid,      \* has its data been read from the disk?
          data,       \* the block its data are those of
          refcnt,
          pins,       \* how many of its references are the log's
          slock,      \* the owner of its sleep lock
          first,      \* buckets[].next
          next,       \* and that of each buffer
          hashlock,   \* the owner of each bucket's lock
          pc,
          want,       \* the block a process has asked for
          b,          \* the buffer it looks at, or has
          other,      \* the local bucket in bget(), idx in brelse() and the pins
          at,         \* b in find() and erase()
          key,        \* dev and blockno, as far as bget(), erase() or insert() has read them
          stale       \* history: a buffer was recycled under a wrong lock

buffers == <<blk, valid, data, refcnt, pins, slock>>
lists == <<first, next>>
locals == <<pc, want, b, other, at, key>>
vars == <<buffers, lists, hashlock, locals, stale>>

PCs == {"idle", "bget", "find", "next", "bucket", "lock", "test", "erase", "dev", "retag",
        "invalidate", "own", "insert", "link", "acquiresleep", "read", "using", "bpin", "bunpin",
        "brelse", "unref", "panic"}

Init == /\ blk = [x \in Bufs |-> 0]
        /\ valid = [x \in Bufs |-> FALSE]
        /\ data = [x \in Bufs |-> 0]
        /\ refcnt = [x \in Bufs |-> 0]
        /\ pins = [x \in Bufs |-> 0]
        /\ slock = [x \in Bufs |-> None]
        /\ first = [h \in Buckets |-> 0]
        /\ next = [x \in Bufs |-> 0]
        /\ hashlock = [h \in Buckets |-> None]
        /\ pc = [p \in Procs |-> "idle"]
        /\ want = [p \in Procs |-> 0]
        /\ b = [p \in Procs |-> 1]
        /\ other = [p \in Procs |-> 0]
        /\ at = [p \in Procs |-> 0]
        /\ key = [p \in Procs |-> 0]
        /\ stale = FALSE

Goto(p, l) == pc' = [pc EXCEPT ![p] = l]
Look(p, x) == b' = [b EXCEPT ![p] = x]
WalkAt(p, x) == at' = [at EXCEPT ![p] = x]
Remember(p, n) == key' = [key EXCEPT ![p] = n]

Idx(p) == hash(want[p])
Mine(p) == blk[b[p]]          \* b->dev, b->blockno
dev(n) == IF n = 0 THEN 0 ELSE 1

Count(x, d) == refcnt' = [refcnt EXCEPT ![x] = (@ + d) % (UINT_MAX + 1)]
Inc == 1
Dec == UINT_MAX               \* -1, modulo UINT_MAX + 1

-----------------------------------------------------------------------------
(* bget() and bread().                                                     *)

CallBread(p, n) == /\ pc[p] = "idle"
                   /\ want' = [want EXCEPT ![p] = n]
                   /\ Goto(p, "bget")
                   /\ UNCHANGED <<buffers, lists, hashlock, b, other, at, key, stale>>

(* acquire(), and find() begins. *)
LockBucket(p) == /\ pc[p] = "bget"
                 /\ hashlock[Idx(p)] = None
                 /\ hashlock' = [hashlock EXCEPT ![Idx(p)] = p]
                 /\ WalkAt(p, first[Idx(p)])
                 /\ Goto(p, "find")
                 /\ UNCHANGED <<buffers, lists, want, b, other, key, stale>>

FindNext(p) == /\ pc[p] = "find"
               /\ at[p] # 0
               /\ blk[at[p]] # want[p]
               /\ WalkAt(p, next[at[p]])
               /\ UNCHANGED <<buffers, lists, hashlock, pc, want, b, other, key, stale>>

(* The block is cached. *)
Hit(p) == /\ pc[p] = "find"
          /\ at[p] # 0
          /\ blk[at[p]] = want[p]
          /\ Count(at[p], Inc)
          /\ Look(p, at[p])
          /\ WalkAt(p, 0)
          /\ hashlock' = [hashlock EXCEPT ![Idx(p)] = None]
          /\ Goto(p, "acquiresleep")
          /\ UNCHANGED <<blk, valid, data, pins, slock, lists, want, other, key, stale>>

(* Mutation: the bucket is unlocked before a buffer is looked for. *)
M_Miss(p) == /\ pc[p] = "find"
             /\ at[p] = 0
             /\ hashlock' = [hashlock EXCEPT ![Idx(p)] = None]
             /\ Look(p, 1)
             /\ Goto(p, "next")
             /\ UNCHANGED <<buffers, lists, want, other, at, key, stale>>

(* It is not: the loop over bcache.buf[] begins, the bucket locked. *)
Miss(p) == /\ pc[p] = "find"
           /\ at[p] = 0
           /\ Look(p, 1)
           /\ Goto(p, "next")
           /\ UNCHANGED <<buffers, lists, hashlock, want, other, at, key, stale>>

(* bucket = hash(b->dev, b->blockno): two loads, and no lock of that       *)
(* buffer need be held.                                                    *)
ReadDev(p) == /\ pc[p] = "next"
              /\ Remember(p, dev(Mine(p)))
              /\ Goto(p, "bucket")
              /\ UNCHANGED <<buffers, lists, hashlock, want, b, other, at, stale>>

ReadBucket(p) ==
  LET bucket == hash(key[p] + (Mine(p) - dev(Mine(p))))
  IN  /\ pc[p] = "bucket"
      /\ other' = [other EXCEPT ![p] = bucket]
      /\ Remember(p, 0)
      /\ Goto(p, IF bucket = Idx(p) THEN "test" ELSE "lock")
      /\ UNCHANGED <<buffers, lists, hashlock, want, b, at, stale>>

LockOther(p) == /\ pc[p] = "lock"
                /\ hashlock[other[p]] = None
                /\ hashlock' = [hashlock EXCEPT ![other[p]] = p]
                /\ Goto(p, "test")
                /\ UNCHANGED <<buffers, lists, want, b, other, at, key, stale>>

(* The buffer is in use; past the last one, panic("bget: no buffers"). *)
InUse(p) ==
  /\ pc[p] = "test"
  /\ refcnt[b[p]] # 0
  /\ hashlock' = IF other[p] = Idx(p) THEN hashlock
                 ELSE [hashlock EXCEPT ![other[p]] = None]
  /\ IF b[p] < NBUF THEN Look(p, b[p] + 1) /\ Goto(p, "next")
                    ELSE Goto(p, "panic") /\ UNCHANGED b
  /\ UNCHANGED <<buffers, lists, want, other, at, key, stale>>

Recycling == {"erase", "dev", "retag", "invalidate", "own", "insert", "link"}

(* It is not, and erase(b->dev, b->blockno) is called.  The lock is wrong  *)
(* if it is another bucket's than the buffer's, or the buffer is already   *)
(* being recycled.                                                         *)
Unused(p) == /\ pc[p] = "test"
             /\ refcnt[b[p]] = 0
             /\ Remember(p, Mine(p))
             /\ Goto(p, "erase")
             /\ stale' = (\/ stale \/ hash(Mine(p)) # other[p]
                          \/ \E q \in Procs \ {p} : pc[q] \in Recycling /\ b[q] = b[p])
             /\ UNCHANGED <<buffers, lists, hashlock, want, b, other, at>>

(* Where at is 0 the walk is at the head of the bucket. *)
Ahead(p) == IF at[p] = 0 THEN first[hash(key[p])] ELSE next[at[p]]

EraseNext(p) == /\ pc[p] = "erase"
                /\ Ahead(p) # 0
                /\ blk[Ahead(p)] # key[p]
                /\ WalkAt(p, Ahead(p))
                /\ UNCHANGED <<buffers, lists, hashlock, pc, want, b, other, key, stale>>

(* b->next = b->next->next *)
Erase(p) ==
  /\ pc[p] = "erase"
  /\ Ahead(p) # 0
  /\ blk[Ahead(p)] = key[p]
  /\ IF at[p] = 0
       THEN first' = [first EXCEPT ![hash(key[p])] = next[Ahead(p)]] /\ UNCHANGED next
       ELSE next' = [next EXCEPT ![at[p]] = next[Ahead(p)]] /\ UNCHANGED first
  /\ WalkAt(p, 0)
  /\ Goto(p, "dev")
  /\ UNCHANGED <<buffers, hashlock, want, b, other, key, stale>>

(* The buffer is on no list, or not on that one. *)
EraseNothing(p) == /\ pc[p] = "erase"
                   /\ Ahead(p) = 0
                   /\ WalkAt(p, 0)
                   /\ Goto(p, "dev")
                   /\ UNCHANGED <<buffers, lists, hashlock, want, b, other, key, stale>>

SetDev(p) == /\ pc[p] = "dev"
             /\ blk' = [blk EXCEPT ![b[p]] = IF @ = 0 THEN 1 ELSE @]
             /\ Goto(p, "retag")
             /\ UNCHANGED <<valid, data, refcnt, pins, slock, lists, hashlock,
                            want, b, other, at, key, stale>>

Retag(p) == /\ pc[p] = "retag"
            /\ blk' = [blk EXCEPT ![b[p]] = want[p]]
            /\ Goto(p, "invalidate")
            /\ UNCHANGED <<valid, data, refcnt, pins, slock, lists, hashlock,
                           want, b, other, at, key, stale>>

(* Mutation: the buffer's old data are taken for the new block's. *)
M_Invalidate(p) == /\ pc[p] = "invalidate"
                   /\ Goto(p, "own")
                   /\ UNCHANGED <<buffers, lists, hashlock, want, b, other, at, key, stale>>

Invalidate(p) == /\ pc[p] = "invalidate"
                 /\ valid' = [valid EXCEPT ![b[p]] = FALSE]
                 /\ Goto(p, "own")
                 /\ UNCHANGED <<blk, data, refcnt, pins, slock, lists, hashlock,
                                want, b, other, at, key, stale>>

(* b->refcnt = 1, and insert() computes its bucket. *)
Own(p) == /\ pc[p] = "own"
          /\ refcnt' = [refcnt EXCEPT ![b[p]] = 1]
          /\ Remember(p, Mine(p))
          /\ Goto(p, "insert")
          /\ UNCHANGED <<blk, valid, data, pins, slock, lists, hashlock,
                         want, b, other, at, stale>>

Insert(p) == /\ pc[p] = "insert"
             /\ next' = [next EXCEPT ![b[p]] = first[hash(key[p])]]
             /\ Goto(p, "link")
             /\ UNCHANGED <<buffers, first, hashlock, want, b, other, at, key, stale>>

(* The second half of insert(), and both locks are released. *)
Link(p) == /\ pc[p] = "link"
           /\ first' = [first EXCEPT ![hash(key[p])] = b[p]]
           /\ hashlock' = [hashlock EXCEPT ![Idx(p)] = None, ![other[p]] = None]
           /\ Remember(p, 0)
           /\ Goto(p, "acquiresleep")
           /\ UNCHANGED <<buffers, next, want, b, other, at, stale>>

AcquireSleep(p) == /\ pc[p] = "acquiresleep"
                   /\ slock[b[p]] = None
                   /\ slock' = [slock EXCEPT ![b[p]] = p]
                   /\ Goto(p, IF valid[b[p]] THEN "using" ELSE "read")
                   /\ UNCHANGED <<blk, valid, data, refcnt, pins, lists, hashlock,
                                  want, b, other, at, key, stale>>

(* virtio_disk_rw(b, 0); b->valid = 1. *)
ReadDisk(p) == /\ pc[p] = "read"
               /\ data' = [data EXCEPT ![b[p]] = Mine(p)]
               /\ valid' = [valid EXCEPT ![b[p]] = TRUE]
               /\ Goto(p, "using")
               /\ UNCHANGED <<blk, refcnt, pins, slock, lists, hashlock,
                              want, b, other, at, key, stale>>

-----------------------------------------------------------------------------
(* The caller has the buffer, and changes its count under the lock of the  *)
(* bucket it computes first.                                               *)

ReadIdx(p, l) == /\ other' = [other EXCEPT ![p] = hash(Mine(p))]
                 /\ Goto(p, l)

(* log_write() pins a block that is not pinned yet. *)
CallBpin(p) == /\ pc[p] = "using"
               /\ pins[b[p]] = 0
               /\ ReadIdx(p, "bpin")
               /\ UNCHANGED <<buffers, lists, hashlock, want, b, at, key, stale>>

Bpin(p) == /\ pc[p] = "bpin"
           /\ hashlock[other[p]] = None
           /\ Count(b[p], Inc)
           /\ pins' = [pins EXCEPT ![b[p]] = 1]
           /\ Goto(p, "using")
           /\ UNCHANGED <<blk, valid, data, slock, lists, hashlock,
                          want, b, other, at, key, stale>>

(* install_trans() unpins it, under another bread(). *)
CallBunpin(p) == /\ pc[p] = "using"
                 /\ pins[b[p]] = 1
                 /\ ReadIdx(p, "bunpin")
                 /\ UNCHANGED <<buffers, lists, hashlock, want, b, at, key, stale>>

Bunpin(p) == /\ pc[p] = "bunpin"
             /\ hashlock[other[p]] = None
             /\ Count(b[p], Dec)
             /\ pins' = [pins EXCEPT ![b[p]] = 0]
             /\ Goto(p, "using")
             /\ UNCHANGED <<blk, valid, data, slock, lists, hashlock,
                            want, b, other, at, key, stale>>

ReleaseSleep(p) == /\ pc[p] = "using"
                   /\ slock' = [slock EXCEPT ![b[p]] = None]
                   /\ Goto(p, "brelse")
                   /\ UNCHANGED <<blk, valid, data, refcnt, pins, lists, hashlock,
                                  want, b, other, at, key, stale>>

BrelseIdx(p) == /\ pc[p] = "brelse"
                /\ ReadIdx(p, "unref")
                /\ UNCHANGED <<buffers, lists, hashlock, want, b, at, key, stale>>

(* Mutation: brelse() drops every reference. *)
M_Brelse(p) == /\ pc[p] = "unref"
               /\ hashlock[other[p]] = None
               /\ refcnt' = [refcnt EXCEPT ![b[p]] = 0]
               /\ Goto(p, "idle")
               /\ Look(p, 1)
               /\ want' = [want EXCEPT ![p] = 0]
               /\ other' = [other EXCEPT ![p] = 0]
               /\ UNCHANGED <<blk, valid, data, pins, slock, lists, hashlock, at, key, stale>>

Brelse(p) == /\ pc[p] = "unref"
             /\ hashlock[other[p]] = None
             /\ Count(b[p], Dec)
             /\ Goto(p, "idle")
             /\ Look(p, 1)
             /\ want' = [want EXCEPT ![p] = 0]
             /\ other' = [other EXCEPT ![p] = 0]
             /\ UNCHANGED <<blk, valid, data, pins, slock, lists, hashlock, at, key, stale>>

Bget(p) == \/ LockBucket(p) \/ FindNext(p) \/ Hit(p) \/ Miss(p)
           \/ ReadDev(p) \/ ReadBucket(p) \/ LockOther(p) \/ InUse(p) \/ Unused(p)
           \/ EraseNext(p) \/ Erase(p) \/ EraseNothing(p)
           \/ SetDev(p) \/ Retag(p) \/ Invalidate(p) \/ Own(p) \/ Insert(p) \/ Link(p)
           \/ AcquireSleep(p)

Holder(p) == \/ CallBpin(p) \/ Bpin(p) \/ CallBunpin(p) \/ Bunpin(p)
             \/ ReleaseSleep(p) \/ BrelseIdx(p) \/ Brelse(p)

Next == \E p \in Procs : \/ \E n \in Blocks : CallBread(p, n)
                         \/ Bget(p) \/ ReadDisk(p) \/ Holder(p)

Spec == Init /\ [][Next]_vars

-----------------------------------------------------------------------------
TypeOK == /\ blk \in [Bufs -> Blocks \cup {0, 1}]
          /\ valid \in [Bufs -> BOOLEAN]
          /\ data \in [Bufs -> Blocks \cup {0, 1}]
          /\ refcnt \in [Bufs -> 0..UINT_MAX]
          /\ pins \in [Bufs -> 0..1]
          /\ slock \in [Bufs -> Procs \cup {None}]
          /\ first \in [Buckets -> Bufs \cup {0}]
          /\ next \in [Bufs -> Bufs \cup {0}]
          /\ hashlock \in [Buckets -> Procs \cup {None}]
          /\ pc \in [Procs -> PCs]
          /\ want \in [Procs -> Blocks \cup {0}]
          /\ b \in [Procs -> Bufs]
          /\ other \in [Procs -> Buckets]
          /\ at \in [Procs -> Bufs \cup {0}]
          /\ key \in [Procs -> Blocks \cup {0, 1}]
          /\ stale \in BOOLEAN

(* bread(): "Return a locked buf with the contents of the indicated block" *)
(* (line 133).                                                             *)
ReturnsItsBlock ==
  \A p \in Procs : pc[p] = "using" =>
    /\ slock[b[p]] = p
    /\ blk[b[p]] = want[p]
    /\ data[b[p]] = want[p]

(* It does as long as no buffer has been recycled under a wrong lock,      *)
(* whatever the buckets of the blocks are.                                 *)
GetsItsBlock == ~stale => ReturnsItsBlock

(* The cache is "a synchronization point for disk blocks used by multiple  *)
(* processes" (line 6): no block has two buffers, as long as no buffer has *)
(* been recycled under a wrong lock.                                       *)
OneBufferPerBlock ==
  ~stale => \A x, y \in Bufs : blk[x] = blk[y] /\ blk[x] \in Blocks => x = y

(* A buffer's count is that of the processes that have it and the log's,   *)
(* under the same condition.                                               *)
Users(x) == {p \in Procs : /\ b[p] = x
                           /\ pc[p] \in {"insert", "link", "acquiresleep", "read", "using",
                                         "bpin", "bunpin", "brelse", "unref"}}

RefcntCounts == ~stale => \A x \in Bufs : refcnt[x] = Cardinality(Users(x)) + pins[x]

-----------------------------------------------------------------------------
(* Why the three hold, for proofs.  Who searches has the bucket of its     *)
(* block locked, and who recycles a buffer the bucket of that, too.        *)

Searching == {"find", "next", "bucket", "lock", "test", "erase", "dev",
              "retag", "invalidate", "own", "insert", "link"}
Using == {"acquiresleep", "read", "using", "bpin", "bunpin", "brelse", "unref"}

SearchInv ==
  \A p \in Procs :
    /\ pc[p] # "idle" => want[p] \in Blocks
    /\ pc[p] \in Searching => hashlock[Idx(p)] = p
    /\ pc[p] \in Recycling \cup {"test"} => hashlock[other[p]] = p
    /\ pc[p] \in {"next", "bucket", "lock", "test", "erase", "dev", "retag"} =>
         \A x \in Bufs : blk[x] # want[p]

RecycleInv ==
  \A p \in Procs :
    /\ pc[p] = "erase" => key[p] = Mine(p)
    /\ pc[p] \in {"erase", "dev"} => Mine(p) # 1 /\ hash(Mine(p)) = other[p]
    /\ pc[p] = "retag" /\ Mine(p) # 1 => hash(Mine(p)) = other[p]
    /\ pc[p] \in {"erase", "dev", "retag", "invalidate", "own"} => refcnt[b[p]] = 0
    /\ pc[p] \in {"invalidate", "own", "insert", "link"} => Mine(p) = want[p]
    /\ pc[p] \in {"insert", "link"} => key[p] = want[p]
    /\ pc[p] = "link" => next[b[p]] = first[Idx(p)]
    /\ pc[p] \in Recycling => \A q \in Procs : pc[q] \in Recycling /\ b[q] = b[p] => q = p

(* Between dev and blockno. *)
HalfInv == \A x \in Bufs : blk[x] = 1 => \E p \in Procs : b[p] = x /\ pc[p] = "retag"

UseInv ==
  \A p \in Procs :
    /\ pc[p] \in Using => Mine(p) = want[p]
    /\ pc[p] \in {"read", "using", "bpin", "bunpin"} => slock[b[p]] = p
    /\ pc[p] \in {"using", "bpin", "bunpin"} => valid[b[p]]
    /\ pc[p] = "bpin" => pins[b[p]] = 0
    /\ pc[p] = "bunpin" => pins[b[p]] = 1

DataInv ==
  \A x \in Bufs : valid[x] => \/ data[x] = blk[x]
                              \/ \E p \in Procs : b[p] = x /\ pc[p] \in {"retag", "invalidate"}

(* The list of a bucket has the buffers whose blocks hash to it, but those *)
(* that erase() has taken off and insert() has not put on yet.             *)
Off(x) == \E p \in Procs : b[p] = x /\ pc[p] \in Recycling \ {"erase"}
List(h) == {x \in Bufs : blk[x] # 0 /\ hash(blk[x]) = h /\ ~Off(x)}

(* The pointers n lead from x to the buffers S and nowhere else, where     *)
(* after[y] are the buffers behind y.                                      *)
Leads(x, S, after) == IF x = 0 THEN S = {} ELSE S = {x} \cup after[x]

Chain(x, S, n, after) ==
  /\ Leads(x, S, after)
  /\ \A y \in S : /\ Leads(n[y], after[y], after)
                  /\ after[y] \subseteq S \ {y}
                  /\ \A z \in after[y] : after[z] \subseteq after[y]
                  /\ \A z \in S : z = y \/ z \in after[y] \/ y \in after[z]

(* find() has not passed the block, nor erase() the buffer. *)
Walk(p, after) ==
  /\ pc[p] \in {"next", "bucket", "lock", "test"} => at[p] = 0
  /\ pc[p] = "find" =>
       IF at[p] = 0 THEN \A x \in List(Idx(p)) : blk[x] # want[p]
       ELSE /\ at[p] \in List(Idx(p))
            /\ \A x \in List(Idx(p)) : blk[x] = want[p] => x \in {at[p]} \cup after[at[p]]
  /\ pc[p] = "erase" /\ at[p] # 0 =>
       /\ at[p] \in List(other[p])
       /\ Mine(p) # 0 => b[p] \in after[at[p]]

WalkInv(after) == \A p \in Procs : Walk(p, after)

Ordered == \E after \in [Bufs -> SUBSET Bufs] :
             /\ \A h \in Buckets : Chain(first[h], List(h), next, after)
             /\ WalkInv(after)

Sound == /\ SearchInv /\ RecycleInv /\ HalfInv /\ UseInv /\ DataInv
         /\ OneBufferPerBlock /\ RefcntCounts /\ Ordered

IInv == TypeOK /\ (~stale => Sound)
=============================================================================
