----------------------------- MODULE VirtioDisk -----------------------------
(***************************************************************************)
(* lab11-mmap/kernel/virtio_disk.c: the driver, its interrupt handler and  *)
(* the device, which share the descriptors, the avail and the used ring.   *)
(*                                                                         *)
(* A buffer stands for the process that holds its sleep lock.  Sections    *)
(* under vdisk_lock are cut where the device could see the difference.     *)
(* The device takes the chains in order, finishes them in any order and    *)
(* raises its interrupt after it has moved used->idx.  The addr of a       *)
(* descriptor is what it points to; an entry of a ring that has been read  *)
(* is forgotten.                                                           *)
(***************************************************************************)
EXTENDS Integers, FiniteSets

CONSTANTS Bufs, Blocks, Values,
          NUM,         \* number of descriptors, and size of the rings
          UINT16_MAX,  \* the largest index
          None

D == 0..(NUM - 1)

ASSUME NumAssumption == /\ NUM \in Nat /\ NUM >= 3
                        /\ UINT16_MAX \in Nat /\ UINT16_MAX > 0
                        /\ (UINT16_MAX + 1) % NUM = 0
ASSUME NoneAssumption == /\ None \notin Bufs \cup Values \cup D
                         /\ None \notin [type : {"in", "out"}, sector : Blocks]
                         /\ "intr" \notin Bufs \cup {None}

VARIABLES free, desc, info,        \* disk.free, .desc, .info
          avail, used,             \* the rings and their idx
          used_idx,
          lock,                    \* vdisk_lock: a buffer, "intr" or None
          bdisk,                   \* b->disk
          data,                    \* b->data, None when nobody will use it
          pc, idx,                 \* of virtio_disk_rw()
          want,                    \* its arguments
          intr,                    \* is virtio_disk_intr() in its loop?
          disk,                    \* the contents of the disk
          taken,                   \* device: how far it has read avail
          chains,                  \* device: the heads it works on
          finished,                \* device: those it has yet to put in used
          notify,                  \* device: used has moved, no interrupt yet
          isr                      \* device: the interrupt is raised

driver == <<free, desc, info, used_idx, bdisk>>
device == <<disk, taken, chains, finished, used, notify, isr>>
call == <<pc, idx, want>>
vars == <<driver, device, avail, lock, data, call, intr>>

PCs == {"idle", "alloc", "sleepdesc", "ring", "publish", "wait", "sleepb", "free"}

NoDesc == [addr |-> None, next |-> None]      \* next: None for no F_NEXT

Init == /\ free = [d \in D |-> TRUE]
        /\ desc = [d \in D |-> NoDesc]
        /\ info = [d \in D |-> [b |-> None, status |-> 0]]
        /\ avail = [idx |-> 0, ring |-> [k \in D |-> None]]
        /\ used = [idx |-> 0, ring |-> [k \in D |-> None]]
        /\ used_idx = 0 /\ taken = 0
        /\ lock = None
        /\ bdisk = [b \in Bufs |-> FALSE]
        /\ data = [b \in Bufs |-> None]
        /\ pc = [b \in Bufs |-> "idle"]
        /\ idx = [b \in Bufs |-> <<>>]
        /\ want = [b \in Bufs |-> None]
        /\ intr = FALSE
        /\ disk \in [Blocks -> Values]
        /\ chains = {} /\ finished = {}
        /\ notify = FALSE /\ isr = FALSE

Goto(b, l) == pc' = [pc EXCEPT ![b] = l]
Uint16(x) == x % (UINT16_MAX + 1)

FreeDescs == {d \in D : free[d]}

-----------------------------------------------------------------------------
(* virtio_disk_rw() *)

(* bread() or bwrite() of block s; the buffer's lock keeps others off it.  *)
(* What a buffer had in it before a bread() does not matter.               *)
Contents(t) == IF t = "out" THEN Values ELSE {None}

Call(b, t, s, v) == /\ pc[b] = "idle"
                    /\ \A c \in Bufs : want[c] # None => want[c].sector # s
                    /\ want' = [want EXCEPT ![b] = [type |-> t, sector |-> s]]
                    /\ data' = [data EXCEPT ![b] = v]
                    /\ Goto(b, "alloc")
                    /\ UNCHANGED <<driver, device, avail, lock, idx, intr>>

(* alloc3_desc() takes the three lowest descriptors; the chain is formed.  *)
Alloc(b) ==
  /\ pc[b] = "alloc"
  /\ lock = None
  /\ \E i, j, k \in FreeDescs :
       /\ i < j /\ j < k
       /\ \A d \in FreeDescs : d \in {i, j, k} \/ d > k
       /\ free' = [free EXCEPT ![i] = FALSE, ![j] = FALSE, ![k] = FALSE]
       /\ idx' = [idx EXCEPT ![b] = <<i, j, k>>]
       /\ desc' = [desc EXCEPT ![i] = [addr |-> want[b], next |-> j],
                               ![j] = [addr |-> b, next |-> k],
                               ![k] = [addr |-> i, next |-> None]]
       /\ info' = [info EXCEPT ![i] = [b |-> b, status |-> 255]]
  /\ bdisk' = [bdisk EXCEPT ![b] = TRUE]
  /\ lock' = b
  /\ Goto(b, "ring")
  /\ UNCHANGED <<device, avail, used_idx, data, want, intr>>

(* Mutation: the descriptors it has taken are not given back. *)
M_AllocFails(b) ==
  /\ pc[b] = "alloc"
  /\ lock = None
  /\ Cardinality(FreeDescs) < 3
  /\ free' = [d \in D |-> FALSE]
  /\ Goto(b, "sleepdesc")
  /\ UNCHANGED <<desc, info, used_idx, bdisk, device, avail, lock, data, idx, want, intr>>

(* Too few: each free_desc() of the ones taken wakes the others that wait  *)
(* for descriptors, and the caller goes to sleep.                          *)
AllocFails(b) ==
  /\ pc[b] = "alloc"
  /\ lock = None
  /\ Cardinality(FreeDescs) < 3
  /\ desc' = [d \in D |-> IF free[d] THEN NoDesc ELSE desc[d]]
  /\ pc' = [c \in Bufs |-> IF c = b THEN "sleepdesc"
                           ELSE IF pc[c] = "sleepdesc" /\ FreeDescs # {} THEN "alloc"
                           ELSE pc[c]]
  /\ UNCHANGED <<free, info, used_idx, bdisk, device, avail, lock, data, idx, want, intr>>

PutRing(b) == /\ pc[b] = "ring"
              /\ avail' = [avail EXCEPT !.ring[avail.idx % NUM] = idx[b][1]]
              /\ Goto(b, "publish")
              /\ UNCHANGED <<driver, device, lock, data, idx, want, intr>>

Publish(b) == /\ pc[b] = "publish"
              /\ avail' = [avail EXCEPT !.idx = Uint16(@ + 1)]
              /\ Goto(b, "wait")
              /\ UNCHANGED <<driver, device, lock, data, idx, want, intr>>

(* sleep(b, &disk.vdisk_lock) *)
Wait(b) == /\ pc[b] = "wait"
           /\ lock = b \/ lock = None
           /\ bdisk[b]
           /\ lock' = None
           /\ Goto(b, "sleepb")
           /\ UNCHANGED <<driver, device, avail, data, idx, want, intr>>

(* free_chain() follows the chain in the descriptors. *)
Chain(h) == LET i == desc[h].next IN {h, i} \cup (IF i = None THEN {} ELSE {desc[i].next})

(* Mutation: sleep() is not in a loop. *)
M_Finish(b) ==
  /\ pc[b] = "wait"
  /\ lock = b \/ lock = None
  /\ info' = [info EXCEPT ![idx[b][1]].b = None]
  /\ free' = [d \in D |-> free[d] \/ d \in Chain(idx[b][1])]
  /\ desc' = [d \in D |-> IF d \in Chain(idx[b][1]) THEN NoDesc ELSE desc[d]]
  /\ lock' = None
  /\ idx' = [idx EXCEPT ![b] = <<>>]
  /\ want' = [want EXCEPT ![b] = None]
  /\ pc' = [c \in Bufs |-> IF c = b THEN "idle"
                           ELSE IF pc[c] = "sleepdesc" THEN "alloc" ELSE pc[c]]
  /\ data' = [data EXCEPT ![b] = None]
  /\ UNCHANGED <<used_idx, bdisk, device, avail, intr>>

Finish(b) ==
  /\ pc[b] = "wait"
  /\ lock = b \/ lock = None
  /\ ~bdisk[b]
  /\ info' = [info EXCEPT ![idx[b][1]].b = None]
  /\ free' = [d \in D |-> free[d] \/ d \in Chain(idx[b][1])]
  /\ desc' = [d \in D |-> IF d \in Chain(idx[b][1]) THEN NoDesc ELSE desc[d]]
  /\ lock' = None
  /\ idx' = [idx EXCEPT ![b] = <<>>]
  /\ want' = [want EXCEPT ![b] = None]
  /\ pc' = [c \in Bufs |-> IF c = b THEN "idle"
                           ELSE IF pc[c] = "sleepdesc" THEN "alloc" ELSE pc[c]]
  /\ data' = [data EXCEPT ![b] = None]
  /\ UNCHANGED <<used_idx, bdisk, device, avail, intr>>

-----------------------------------------------------------------------------
(* virtio_disk_intr() *)

(* The lock, and the acknowledgement. *)
IntrStart == /\ isr /\ ~intr
             /\ lock = None
             /\ lock' = "intr"
             /\ intr' = TRUE
             /\ isr' = FALSE
             /\ UNCHANGED <<driver, disk, taken, chains, finished, used, notify,
                            avail, data, call>>

IntrOne == LET id == used.ring[used_idx % NUM]
               b == info[id].b IN
           /\ intr
           /\ used_idx # used.idx
           /\ info[id].status = 0
           /\ bdisk' = [bdisk EXCEPT ![b] = FALSE]
           /\ pc' = [c \in Bufs |-> IF c = b /\ pc[c] = "sleepb" THEN "wait" ELSE pc[c]]
           /\ used_idx' = Uint16(used_idx + 1)
           /\ used' = [used EXCEPT !.ring[used_idx % NUM] = None]
           /\ UNCHANGED <<free, desc, info, disk, taken, chains, finished, notify, isr, avail, lock, data, idx, want, intr>>

(* Mutation: if for while. *)
M_IntrEnd == /\ intr
             /\ lock' = None
             /\ intr' = FALSE
             /\ UNCHANGED <<driver, device, avail, data, call>>

IntrEnd == /\ intr
           /\ used_idx = used.idx
           /\ lock' = None
           /\ intr' = FALSE
           /\ UNCHANGED <<driver, device, avail, data, call>>

-----------------------------------------------------------------------------
(* The device. *)

Take == /\ taken # avail.idx
        /\ chains' = chains \cup {avail.ring[taken % NUM]}
        /\ taken' = Uint16(taken + 1)
        /\ avail' = [avail EXCEPT !.ring[taken % NUM] = None]
        /\ UNCHANGED <<driver, disk, finished, used, notify, isr, lock, data, call, intr>>

(* The transfer, and the status. *)
Transfer(h) ==
  LET i == desc[h].next
      op == desc[h].addr
      b == desc[i].addr IN
  /\ h \in chains
  /\ IF op.type = "out"
       THEN disk' = [disk EXCEPT ![op.sector] = data[b]] /\ UNCHANGED data
       ELSE data' = [data EXCEPT ![b] = disk[op.sector]] /\ UNCHANGED disk
  /\ info' = [info EXCEPT ![desc[desc[i].next].addr].status = 0]
  /\ chains' = chains \ {h}
  /\ finished' = finished \cup {h}
  /\ UNCHANGED <<free, desc, used_idx, bdisk, taken, used, notify, isr,
                 avail, lock, call, intr>>

PutUsed(h) == /\ h \in finished
              /\ used' = [idx |-> Uint16(used.idx + 1),
                          ring |-> [used.ring EXCEPT ![used.idx % NUM] = h]]
              /\ finished' = finished \ {h}
              /\ notify' = TRUE
              /\ UNCHANGED <<driver, disk, taken, chains, isr, avail, lock, data, call, intr>>

Interrupt == /\ notify
             /\ isr' = TRUE
             /\ notify' = FALSE
             /\ UNCHANGED <<driver, disk, taken, chains, finished, used,
                            avail, lock, data, call, intr>>

-----------------------------------------------------------------------------
RwStep(b) == \/ Alloc(b) \/ AllocFails(b) \/ PutRing(b) \/ Publish(b)
             \/ Wait(b) \/ Finish(b)

IntrStep == IntrStart \/ IntrOne \/ IntrEnd

DeviceStep == Take \/ Interrupt \/ \E h \in D : Transfer(h) \/ PutUsed(h)

Next == \/ \E b \in Bufs : \/ \E t \in {"in", "out"}, s \in Blocks : \E v \in Contents(t) : Call(b, t, s, v)
                           \/ RwStep(b)
        \/ IntrStep
        \/ DeviceStep

Spec == Init /\ [][Next]_vars

-----------------------------------------------------------------------------
TypeOK == /\ free \in [D -> BOOLEAN]
          /\ \A d \in D : desc[d].next \in D \cup {None}
          /\ info \in [D -> [b : Bufs \cup {None}, status : {0, 255}]]
          /\ avail \in [idx : 0..UINT16_MAX, ring : [D -> D \cup {None}]]
          /\ used \in [idx : 0..UINT16_MAX, ring : [D -> D \cup {None}]]
          /\ {used_idx, taken} \subseteq 0..UINT16_MAX
          /\ lock \in Bufs \cup {"intr", None}
          /\ bdisk \in [Bufs -> BOOLEAN]
          /\ data \in [Bufs -> Values \cup {None}]
          /\ pc \in [Bufs -> PCs]
          /\ disk \in [Blocks -> Values]
          /\ chains \subseteq D /\ finished \subseteq D
          /\ {intr, notify, isr} \subseteq BOOLEAN

(* The descriptors in use are those of the requests under way, three for   *)
(* each: none leaks, and free_chain() gives back none that is free.        *)
Mine(b) == IF idx[b] = <<>> THEN {} ELSE Chain(idx[b][1])

DescriptorsAreOwned ==
  /\ {d \in D : ~free[d]} = UNION {Mine(b) : b \in Bufs}
  /\ \A b, c \in Bufs : b # c => Mine(b) \cap Mine(c) = {}
  /\ \A b \in Bufs : idx[b] # <<>> => Mine(b) = {idx[b][1], idx[b][2], idx[b][3]}

(* The entries of a ring between two indices. *)
Pending(from, to) == 0..(Uint16(to + UINT16_MAX + 1 - from) - 1)

(* What the device may still read or report belongs to a live request: its *)
(* status is good when it is reported, and the interrupt handler finds the *)
(* buffer that sleeps.                                                     *)
Live(h) == \E b \in Bufs : info[h].b = b /\ bdisk[b]

ChainsAreLive ==
  /\ \A k \in Pending(taken, avail.idx) : Live(avail.ring[(taken + k) % NUM])
  /\ \A h \in chains \cup finished : Live(h)
  /\ \A k \in Pending(used_idx, used.idx) :
       LET id == used.ring[(used_idx + k) % NUM] IN Live(id) /\ info[id].status = 0

(* Nobody sleeps for what has come.  A process asleep on its buffer has a  *)
(* request that the device or the handler has yet to finish, and what is   *)
(* in the used ring has an interrupt or a handler to come: a completion    *)
(* after the acknowledgement is processed "in this interrupt", or by the   *)
(* next (lines 289-293).  A process asleep in alloc3_desc() lacks          *)
(* descriptors, unless another is awake to take them and wake it later.    *)
Underway == {avail.ring[(taken + k) % NUM] : k \in Pending(taken, avail.idx)}
              \cup chains \cup finished
              \cup {used.ring[(used_idx + k) % NUM] : k \in Pending(used_idx, used.idx)}

SleepersAreWoken ==
  /\ \A b \in Bufs : pc[b] = "sleepb" => bdisk[b] /\ idx[b][1] \in Underway
  /\ used_idx # used.idx => intr \/ notify \/ isr
  /\ (\E b \in Bufs : pc[b] = "sleepdesc")
       => Cardinality(FreeDescs) < 3 \/ \E c \in Bufs : pc[c] = "alloc"

(* virtio_disk_rw() is one transfer, at some time during the call, of the  *)
(* block and the buffer it was called with.                                *)
Request(b) ==
  IF want[b] = None THEN [type |-> "none"]
  ELSE [type |-> want[b].type, sector |-> want[b].sector,
        done |-> idx[b] # <<>> /\ info[idx[b][1]].status = 0]

Abstract == INSTANCE AtomicDisk WITH req <- [b \in Bufs |-> Request(b)]

ImplementsAtomicDisk == Abstract!Spec
=============================================================================
