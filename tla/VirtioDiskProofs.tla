-------------------------- MODULE VirtioDiskProofs --------------------------
(***************************************************************************)
(* Proofs about VirtioDisk, for any number of buffers and blocks, any size *)
(* of the rings and any width of their indices that the size divides: the  *)
(* descriptors in use belong to one request each, what the device and the  *)
(* handler find is alive, nobody sleeps for what has come, and each call   *)
(* is one transfer.                                                        *)
(***************************************************************************)
EXTENDS VirtioDisk, FiniteSetTheorems, TLAPS

Requests == [type : {"in", "out"}, sector : Blocks]

(* Where a call has its descriptors, and where it has given them to the    *)
(* device.                                                                 *)
Filled == {"ring", "publish", "wait", "sleepb"}
Given == {"wait", "sleepb"}

(* The places of a ring between two indices, and their number. *)
Count(from, to) == Uint16(to + UINT16_MAX + 1 - from)
Places(from, to) == {(from + k) % NUM : k \in Pending(from, to)}
AvailPlaces == Places(taken, avail.idx)
UsedPlaces == Places(used_idx, used.idx)

(* The first of three descriptors is none of the last two. *)
Heads == 0..(NUM - 3)

(* The heads of the requests that the device has or the handler has yet to *)
(* see.                                                                    *)
Sent(b) == pc[b] \in Given /\ bdisk[b]
SentHeads == {h \in D : \E b \in Bufs : Sent(b) /\ idx[b][1] = h}

TypeInv == /\ TypeOK
           /\ idx \in [Bufs -> (D \X D \X D) \cup {<<>>}]
           /\ want \in [Bufs -> Requests \cup {None}]
           /\ desc = [d \in D |-> [addr |-> desc[d].addr, next |-> desc[d].next]]

(* How far a call is, from its variables. *)
CallInv == \A b \in Bufs :
  /\ idx[b] = <<>> <=> pc[b] \notin Filled
  /\ want[b] = None <=> pc[b] = "idle"
  /\ pc[b] \in {"ring", "publish"} => lock = b /\ bdisk[b]
  /\ pc[b] \notin Filled => ~bdisk[b]
  /\ pc[b] = "sleepb" => bdisk[b]
  /\ want[b] # None /\ want[b].type = "out" => data[b] \in Values

LockInv == intr <=> lock = "intr"

(* The chain of a request, and what points to the buffer. *)
Linked(b) ==
  /\ idx[b][1] < idx[b][2] /\ idx[b][2] < idx[b][3]
  /\ desc[idx[b][1]] = [addr |-> want[b], next |-> idx[b][2]]
  /\ desc[idx[b][2]] = [addr |-> b, next |-> idx[b][3]]
  /\ desc[idx[b][3]] = [addr |-> idx[b][1], next |-> None]
  /\ info[idx[b][1]].b = b

ChainInv == \A b \in Bufs : idx[b] # <<>> => Linked(b)

(* No descriptor is free and in use, in use twice, or lost. *)
Three(b) == IF idx[b] = <<>> THEN {} ELSE {idx[b][1], idx[b][2], idx[b][3]}

OwnInv == /\ \A d \in D : ~free[d] <=> \E b \in Bufs : d \in Three(b)
          /\ \A b, c \in Bufs : b # c => Three(b) \cap Three(c) = {}

(* A request is in one place, its status says on which side of the         *)
(* transfer, and it is somewhere as long as b->disk says so.               *)
AvailInv == /\ \A x \in AvailPlaces : /\ avail.ring[x] \in SentHeads
                                      /\ info[avail.ring[x]].status = 255
                                      /\ avail.ring[x] \notin chains
            /\ \A x, y \in AvailPlaces : avail.ring[x] = avail.ring[y] => x = y
            /\ \A h \in chains : h \in SentHeads /\ info[h].status = 255

UsedInv == /\ \A x \in UsedPlaces : /\ used.ring[x] \in SentHeads
                                    /\ info[used.ring[x]].status = 0
                                    /\ used.ring[x] \notin finished
           /\ \A x, y \in UsedPlaces : used.ring[x] = used.ring[y] => x = y
           /\ \A h \in finished : h \in SentHeads /\ info[h].status = 0

Placed == {h \in D : \/ h \in chains \cup finished
                     \/ \E x \in AvailPlaces : avail.ring[x] = h
                     \/ \E x \in UsedPlaces : used.ring[x] = h}

PlacedInv == \A b \in Bufs : Sent(b) => idx[b][1] \in Placed

StatusInv == \A b \in Bufs :
  /\ pc[b] \in {"ring", "publish"} => info[idx[b][1]].status = 255
  /\ pc[b] \in Given /\ ~bdisk[b] => info[idx[b][1]].status = 0
  /\ pc[b] = "publish" => avail.ring[avail.idx % NUM] = idx[b][1]

RoomInv == Count(taken, avail.idx) <= NUM - 2 /\ Count(used_idx, used.idx) <= NUM - 2

(* Who waits for descriptors lacks them, and who has something to do knows. *)
WakeInv == /\ used_idx # used.idx => intr \/ notify \/ isr
           /\ (\E b \in Bufs : pc[b] = "sleepdesc") => Cardinality(FreeDescs) < 3

IInv == /\ TypeInv /\ CallInv /\ LockInv /\ ChainInv /\ OwnInv
        /\ AvailInv /\ UsedInv /\ PlacedInv /\ StatusInv /\ RoomInv /\ WakeInv

-----------------------------------------------------------------------------
(* Arithmetic modulo m: the remainder of a division is unique. *)
LEMMA ModIs ==
  ASSUME NEW m \in Nat \ {0}, NEW a \in Nat, NEW k \in Nat, NEW r \in 0..(m - 1),
         a = m * k + r
  PROVE  a % m = r
OBVIOUS

LEMMA Division ==
  ASSUME NEW m \in Nat \ {0}, NEW a \in Nat
  PROVE  \E k \in Nat : a = m * k + (a % m) /\ a % m \in 0..(m - 1)
<1>1. a \div m \in Nat /\ a = m * (a \div m) + (a % m) /\ a % m \in 0..(m - 1)
  OBVIOUS
<1> QED
  BY <1>1

LEMMA ModSmall ==
  ASSUME NEW m \in Nat \ {0}, NEW a \in 0..(2 * m - 1)
  PROVE  a % m = IF a < m THEN a ELSE a - m
<1>1. CASE a < m
  <2>1. a \in Nat /\ a \in 0..(m - 1) /\ a = m * 0 + a /\ 0 \in Nat
    BY <1>1
  <2> QED
    BY <1>1, <2>1, ModIs
<1>2. CASE ~(a < m)
  <2>1. a \in Nat /\ a - m \in 0..(m - 1) /\ a = m * 1 + (a - m) /\ 1 \in Nat
    BY <1>2
  <2> QED
    BY <1>2, <2>1, ModIs
<1> QED
  BY <1>1, <1>2

LEMMA ModPlus ==
  ASSUME NEW m \in Nat \ {0}, NEW a \in Nat, NEW b \in Nat, b % m = 0
  PROVE  (a + b) % m = a % m
<1>1. PICK k \in Nat, r \in 0..(m - 1) : a = m * k + r /\ a % m = r
  BY Division
<1>2. PICK d \in Nat : b = m * d
  <2>1. PICK d \in Nat : b = m * d + (b % m)
    BY Division
  <2>2. m * d \in Nat
    OBVIOUS
  <2> QED
    BY <2>1, <2>2
<1>3. m * (k + d) = m * k + m * d /\ m * k \in Nat /\ m * d \in Nat /\ k + d \in Nat
  OBVIOUS
<1>4. a + b = m * (k + d) + r
  BY <1>1, <1>2, <1>3
<1>5. (a + b) % m = r
  <2>1. a + b \in Nat
    OBVIOUS
  <2> QED
    BY <1>3, <1>4, <2>1, ModIs
<1> QED
  BY <1>1, <1>5

(* NUM numbers in a row have different places. *)
LEMMA PlacesDiffer ==
  ASSUME NEW m \in Nat \ {0}, NEW a \in Nat, NEW b \in Nat, a < b, b - a < m
  PROVE  a % m # b % m
<1>1. PICK k \in Nat : a = m * k + (a % m) /\ a % m \in 0..(m - 1)
  BY Division
<1>2. PICK l \in Nat : b = m * l + (b % m) /\ b % m \in 0..(m - 1)
  BY Division
<1> SUFFICES ASSUME a % m = b % m PROVE FALSE
  OBVIOUS
<1>3. b - a = m * (l - k)
  <2>1. m * (l - k) = m * l - m * k /\ m * l \in Nat /\ m * k \in Nat
    OBVIOUS
  <2> QED
    BY <1>1, <1>2, <2>1
<1>4. l - k >= 1
  <2>1. CASE l - k <= 0
    <3>1. m * (l - k) <= 0
      BY <2>1
    <3> QED
      BY <1>3, <3>1
  <2> QED
    BY <2>1
<1>5. m * (l - k) >= m
  BY <1>4
<1> QED
  BY <1>3, <1>5

(* The indices wrap at a multiple of NUM. *)
LEMMA Sizes == /\ NUM \in Nat /\ NUM >= 3 /\ NUM \in Nat \ {0}
               /\ UINT16_MAX \in Nat /\ UINT16_MAX + 1 \in Nat \ {0}
               /\ NUM <= UINT16_MAX + 1
<1>1. /\ NUM \in Nat /\ NUM >= 3 /\ NUM \in Nat \ {0}
      /\ UINT16_MAX \in Nat /\ UINT16_MAX + 1 \in Nat \ {0}
      /\ (UINT16_MAX + 1) % NUM = 0
  BY NumAssumption
<1>2. ASSUME NEW m \in Nat \ {0}, m % NUM = 0 PROVE NUM <= m
  <2>1. CASE m < NUM
    <3>1. m \in 0..(NUM - 1) /\ m = NUM * 0 + m
      BY <1>1, <2>1
    <3>2. m % NUM = m
      BY <1>1, <3>1, ModIs
    <3> QED
      BY <1>2, <3>2
  <2> QED
    BY <1>1, <2>1
<1> QED
  BY <1>1, <1>2

LEMMA Divides == (UINT16_MAX + 1) % NUM = 0
BY NumAssumption

LEMMA Wrap ==
  ASSUME NEW x \in 0..(2 * UINT16_MAX + 1)
  PROVE  /\ Uint16(x) = IF x <= UINT16_MAX THEN x ELSE x - (UINT16_MAX + 1)
         /\ Uint16(x) \in 0..UINT16_MAX
<1> DEFINE m == UINT16_MAX + 1
<1>1. m \in Nat \ {0} /\ x \in 0..(2 * m - 1) /\ (x < m <=> x <= UINT16_MAX)
  BY Sizes
<1> HIDE DEF m
<1>2. x % m = IF x < m THEN x ELSE x - m
  BY <1>1, ModSmall
<1>3. Uint16(x) = IF x <= UINT16_MAX THEN x ELSE x - (UINT16_MAX + 1)
  BY <1>1, <1>2 DEF Uint16, m
<1> QED
  BY <1>3, Sizes

Index == 0..UINT16_MAX

LEMMA NextIndex ==
  ASSUME NEW x \in Index
  PROVE  /\ Uint16(x + 1) = IF x = UINT16_MAX THEN 0 ELSE x + 1
         /\ Uint16(x + 1) \in Index
<1>1. x + 1 \in 0..(2 * UINT16_MAX + 1)
  BY Sizes DEF Index
<1> QED
  BY <1>1, Sizes, Wrap DEF Index

LEMMA CountIs ==
  ASSUME NEW f \in Index, NEW t \in Index
  PROVE  /\ Count(f, t) = IF f <= t THEN t - f ELSE t + UINT16_MAX + 1 - f
         /\ Count(f, t) \in Index
         /\ Pending(f, t) = 0..(Count(f, t) - 1)
<1>1. t + UINT16_MAX + 1 - f \in 0..(2 * UINT16_MAX + 1)
  BY Sizes DEF Index
<1> QED
  BY <1>1, Sizes, Wrap DEF Index, Count, Pending

LEMMA PlaceType ==
  ASSUME NEW x \in Nat
  PROVE  x % NUM \in D
<1>1. \A m \in Nat \ {0} : x % m \in Nat /\ x % m < m
  OBVIOUS
<1> QED
  BY <1>1, Sizes DEF D

(* An entry is put behind those that are there. *)
LEMMA PutPlace ==
  ASSUME NEW f \in Index, NEW t \in Index, Count(f, t) < NUM - 1
  PROVE  /\ Count(f, Uint16(t + 1)) = Count(f, t) + 1
         /\ t % NUM \notin Places(f, t)
         /\ Places(f, Uint16(t + 1)) = Places(f, t) \cup {t % NUM}
<1>1. PICK n \in Index : n = Count(f, t) /\ n < NUM - 1
  BY CountIs
<1>2. PICK u \in Index : u = Uint16(t + 1) /\ u = IF t = UINT16_MAX THEN 0 ELSE t + 1
  BY NextIndex
<1>3. Count(f, u) = n + 1
  <2>1. n = IF f <= t THEN t - f ELSE t + UINT16_MAX + 1 - f
    BY <1>1, CountIs
  <2>2. Count(f, u) = IF f <= u THEN u - f ELSE u + UINT16_MAX + 1 - f
    BY CountIs
  <2> QED
    BY <1>1, <1>2, <2>1, <2>2, Sizes DEF Index
<1>4. t % NUM = (f + n) % NUM
  <2>1. CASE f <= t
    BY <1>1, <2>1, CountIs, Sizes DEF Index
  <2>2. CASE ~(f <= t)
    <3>1. f + n = t + (UINT16_MAX + 1) /\ t \in Nat
      BY <1>1, <2>2, CountIs, Sizes DEF Index
    <3> QED
      BY <3>1, Sizes, Divides, ModPlus
  <2> QED
    BY <2>1, <2>2
<1>5. ASSUME NEW k \in 0..(n - 1) PROVE (f + k) % NUM # (f + n) % NUM
  <2>1. f + k \in Nat /\ f + n \in Nat /\ f + k < f + n /\ (f + n) - (f + k) < NUM
    BY <1>1, Sizes DEF Index
  <2> QED
    BY <2>1, Sizes, PlacesDiffer
<1>6. Pending(f, t) = 0..(n - 1) /\ Pending(f, u) = 0..n
  BY <1>1, <1>2, <1>3, CountIs DEF Index
<1>7. 0..n = (0..(n - 1)) \cup {n}
  BY <1>1 DEF Index
<1>8. Places(f, u) = Places(f, t) \cup {(f + n) % NUM}
  BY <1>6, <1>7 DEF Places
<1> QED
  BY <1>1, <1>2, <1>3, <1>4, <1>5, <1>6, <1>8 DEF Places

(* The first entry is got. *)
LEMMA GetPlace ==
  ASSUME NEW f \in Index, NEW t \in Index, Count(f, t) <= NUM, f # t
  PROVE  /\ Count(Uint16(f + 1), t) = Count(f, t) - 1
         /\ f % NUM \in Places(f, t)
         /\ Places(Uint16(f + 1), t) = Places(f, t) \ {f % NUM}
<1>1. PICK n \in Index : n = Count(f, t) /\ n <= NUM
  BY CountIs
<1>2. PICK g \in Index : g = Uint16(f + 1) /\ g = IF f = UINT16_MAX THEN 0 ELSE f + 1
  BY NextIndex
<1>3. n >= 1 /\ Count(g, t) = n - 1
  <2>1. n = IF f <= t THEN t - f ELSE t + UINT16_MAX + 1 - f
    BY <1>1, CountIs
  <2>2. Count(g, t) = IF g <= t THEN t - g ELSE t + UINT16_MAX + 1 - g
    BY CountIs
  <2> QED
    BY <1>1, <1>2, <2>1, <2>2, Sizes DEF Index
<1>4. ASSUME NEW k \in Nat PROVE (g + k) % NUM = (f + (k + 1)) % NUM
  <2>1. CASE f = UINT16_MAX
    <3>1. g + k \in Nat /\ f + (k + 1) = (g + k) + (UINT16_MAX + 1)
      BY <1>2, <2>1, Sizes DEF Index
    <3> QED
      BY <3>1, Sizes, Divides, ModPlus
  <2>2. CASE f # UINT16_MAX
    BY <1>2, <2>2 DEF Index
  <2> QED
    BY <2>1, <2>2
<1>5. ASSUME NEW k \in 1..(n - 1) PROVE (f + k) % NUM # f % NUM
  <2>1. f \in Nat /\ f + k \in Nat /\ f < f + k /\ (f + k) - f < NUM
    BY <1>1, Sizes DEF Index
  <2> QED
    BY <2>1, Sizes, PlacesDiffer
<1>6. Pending(f, t) = 0..(n - 1) /\ Pending(g, t) = 0..(n - 2)
  BY <1>1, <1>2, <1>3, CountIs, Sizes DEF Index
<1>7. 0 \in Pending(f, t) /\ (f + 0) % NUM = f % NUM
  BY <1>1, <1>3, <1>6 DEF Index
<1>8. ASSUME NEW x \in Places(g, t) PROVE x \in Places(f, t) /\ x # f % NUM
  <2>1. PICK k \in 0..(n - 2) : x = (g + k) % NUM
    BY <1>6, <1>8 DEF Places
  <2>2. k \in Nat /\ k + 1 \in 1..(n - 1) /\ k + 1 \in 0..(n - 1)
    BY <1>1 DEF Index
  <2>3. x = (f + (k + 1)) % NUM
    BY <1>4, <2>1, <2>2
  <2> QED
    BY <1>5, <1>6, <2>2, <2>3 DEF Places
<1>9. ASSUME NEW x \in Places(f, t), x # f % NUM PROVE x \in Places(g, t)
  <2>1. PICK j \in 0..(n - 1) : x = (f + j) % NUM
    BY <1>6, <1>9 DEF Places
  <2>2. j # 0
    BY <1>7, <1>9, <2>1
  <2>3. PICK k \in 0..(n - 2) : j = k + 1
    <3>1. j - 1 \in 0..(n - 2) /\ j = (j - 1) + 1
      BY <1>1, <2>1, <2>2 DEF Index
    <3> QED
      BY <3>1
  <2>4. k \in Nat
    BY <1>1, <2>3 DEF Index
  <2> QED
    BY <1>4, <1>6, <2>1, <2>3, <2>4 DEF Places
<1>10. f % NUM \in Places(f, t)
  BY <1>7 DEF Places
<1>11. Places(g, t) = Places(f, t) \ {f % NUM}
  BY <1>8, <1>9
<1> QED
  BY <1>1, <1>2, <1>3, <1>10, <1>11

(* Entries that differ and are one another's first descriptors are few.    *)
LEMMA FewPlaces ==
  ASSUME NEW f \in Index, NEW t \in Index, Count(f, t) <= NUM,
         NEW ring, NEW h \in Heads,
         \A x \in Places(f, t) : ring[x] \in Heads \ {h},
         \A x, y \in Places(f, t) : ring[x] = ring[y] => x = y
  PROVE  Count(f, t) <= NUM - 3
<1>1. PICK n \in Index : n = Count(f, t) /\ n <= NUM
  BY CountIs
<1>2. Pending(f, t) = 0..(n - 1)
  BY <1>1, CountIs DEF Index
<1> DEFINE entry == [k \in 0..(n - 1) |-> ring[(f + k) % NUM]]
<1>3. ASSUME NEW k \in 0..(n - 1) PROVE (f + k) % NUM \in Places(f, t)
  BY <1>2 DEF Places
<1>4. entry \in [0..(n - 1) -> Heads \ {h}]
  BY <1>3
<1>5. ASSUME NEW j \in 0..(n - 1), NEW k \in 0..(n - 1), j < k PROVE entry[j] # entry[k]
  <2>1. f + j \in Nat /\ f + k \in Nat /\ f + j < f + k /\ (f + k) - (f + j) < NUM
    BY <1>1, <1>5, Sizes DEF Index
  <2>2. (f + j) % NUM # (f + k) % NUM
    BY <2>1, Sizes, PlacesDiffer
  <2> QED
    BY <1>3, <2>2
<1>6. entry \in Injection(0..(n - 1), Heads \ {h})
  <2>1. ASSUME NEW j \in 0..(n - 1), NEW k \in 0..(n - 1), entry[j] = entry[k] PROVE j = k
    <3>1. j < k \/ k < j \/ j = k
      BY <1>1 DEF Index
    <3> QED
      BY <1>5, <2>1, <3>1
  <2> HIDE DEF entry
  <2> QED
    BY <1>4, <2>1 DEF Injection, IsInjective
<1>7. IsFiniteSet(Heads) /\ Cardinality(Heads) = NUM - 2
  <2>1. 0 \in Int /\ NUM - 3 \in Int /\ NUM - 3 >= 0
    BY Sizes
  <2> QED
    BY <2>1, Sizes, FS_Interval DEF Heads
<1>8. IsFiniteSet(Heads \ {h}) /\ Cardinality(Heads \ {h}) = NUM - 3
  BY <1>7, FS_RemoveElement, Sizes
<1>9. IsFiniteSet(0..(n - 1)) /\ Cardinality(0..(n - 1)) = n
  <2>1. n \in Nat /\ 0 \in Int /\ n - 1 \in Int
    BY <1>1 DEF Index
  <2>2. CASE n = 0
    <3>1. 0..(n - 1) = {}
      BY <2>2
    <3> QED
      BY <2>2, <3>1, FS_EmptySet
  <2>3. CASE n # 0
    BY <2>1, <2>3, FS_Interval
  <2> QED
    BY <2>2, <2>3
<1>10. n <= NUM - 3
  BY <1>6, <1>8, <1>9, FS_Injection
<1> QED
  BY <1>1, <1>10

-----------------------------------------------------------------------------
(* The descriptors of a request, and that they are its own. *)
LEMMA ChainIs ==
  ASSUME TypeInv, ChainInv, NEW b \in Bufs, idx[b] # <<>>
  PROVE  /\ idx[b] \in D \X D \X D
         /\ idx[b][1] \in D /\ idx[b][2] \in D /\ idx[b][3] \in D
         /\ idx[b][1] \in Heads
         /\ idx[b][1] # idx[b][2] /\ idx[b][1] # idx[b][3] /\ idx[b][2] # idx[b][3]
         /\ desc[idx[b][1]].next = idx[b][2] /\ desc[idx[b][1]].addr = want[b]
         /\ desc[idx[b][2]].next = idx[b][3] /\ desc[idx[b][2]].addr = b
         /\ desc[idx[b][3]].addr = idx[b][1]
         /\ info[idx[b][1]].b = b
         /\ Three(b) = {idx[b][1], idx[b][2], idx[b][3]}
         /\ Chain(idx[b][1]) = Three(b)
<1>1. idx[b] \in D \X D \X D
  BY DEF TypeInv
<1>2. idx[b][1] \in D /\ idx[b][2] \in D /\ idx[b][3] \in D
  BY <1>1
<1>3. /\ idx[b][1] < idx[b][2] /\ idx[b][2] < idx[b][3]
      /\ desc[idx[b][1]] = [addr |-> want[b], next |-> idx[b][2]]
      /\ desc[idx[b][2]] = [addr |-> b, next |-> idx[b][3]]
      /\ desc[idx[b][3]] = [addr |-> idx[b][1], next |-> None]
      /\ info[idx[b][1]].b = b
  BY DEF ChainInv, Linked
<1>4. /\ idx[b][1] \in Heads
      /\ idx[b][1] # idx[b][2] /\ idx[b][1] # idx[b][3] /\ idx[b][2] # idx[b][3]
  BY <1>2, <1>3, Sizes DEF D, Heads
<1>5. Three(b) = {idx[b][1], idx[b][2], idx[b][3]}
  BY DEF Three
<1>6. idx[b][2] # None
  BY <1>2, NoneAssumption
<1>7. Chain(idx[b][1]) = {idx[b][1], idx[b][2], idx[b][3]}
  BY <1>3, <1>6 DEF Chain
<1> QED
  BY <1>1, <1>2, <1>3, <1>4, <1>5, <1>7

LEMMA OwnersDiffer ==
  ASSUME OwnInv, NEW b \in Bufs, NEW c \in Bufs, b # c, idx[b] # <<>>, idx[c] # <<>>
  PROVE  idx[b][1] # idx[c][1]
<1>1. Three(b) \cap Three(c) = {}
  BY DEF OwnInv
<1> QED
  BY <1>1 DEF Three

LEMMA HeadIsUsed ==
  ASSUME TypeInv, ChainInv, OwnInv, NEW b \in Bufs, idx[b] # <<>>
  PROVE  ~free[idx[b][1]] /\ ~free[idx[b][2]] /\ ~free[idx[b][3]]
BY ChainIs DEF OwnInv

LEMMA SentHas ==
  ASSUME CallInv, NEW b \in Bufs, Sent(b)
  PROVE  idx[b] # <<>> /\ pc[b] \in Filled /\ want[b] # None
BY DEF CallInv, Sent, Given, Filled

(* The request a sent head belongs to. *)
LEMMA SentOwner ==
  ASSUME TypeInv, CallInv, ChainInv, NEW h, h \in SentHeads
  PROVE  \E b \in Bufs : /\ Sent(b) /\ idx[b] # <<>> /\ idx[b][1] = h /\ h \in Heads /\ h \in D
                         /\ info[h].b = b /\ want[b] \in Requests
<1>1. PICK b \in Bufs : Sent(b) /\ idx[b][1] = h
  BY DEF SentHeads
<1>2. idx[b] # <<>> /\ want[b] # None
  BY <1>1, SentHas
<1>3. want[b] \in Requests
  BY <1>2 DEF TypeInv
<1> QED
  BY <1>1, <1>2, <1>3, ChainIs

(* What alloc3_desc() and the filling of the chain change. *)
AllocAt(b, i, j, k) ==
  /\ free[i] /\ free[j] /\ free[k] /\ i < j /\ j < k
  /\ i # j /\ i # k /\ j # k
  /\ free' \in [D -> BOOLEAN] /\ desc' = [d \in D |-> desc'[d]]
  /\ \A d \in D : free'[d] = (free[d] /\ d \notin {i, j, k})
  /\ idx' = [idx EXCEPT ![b] = <<i, j, k>>]
  /\ desc'[i] = [addr |-> want[b], next |-> j]
  /\ desc'[j] = [addr |-> b, next |-> k]
  /\ desc'[k] = [addr |-> i, next |-> None]
  /\ \A d \in D \ {i, j, k} : desc'[d] = desc[d]
  /\ info' = [info EXCEPT ![i] = [b |-> b, status |-> 255]]

LEMMA AllocIs ==
  ASSUME TypeInv, NEW b \in Bufs, Alloc(b)
  PROVE  \E i, j, k \in D : AllocAt(b, i, j, k)
<1>1. PICK i \in FreeDescs, j \in FreeDescs, k \in FreeDescs :
       /\ i < j /\ j < k
       /\ free' = [free EXCEPT ![i] = FALSE, ![j] = FALSE, ![k] = FALSE]
       /\ idx' = [idx EXCEPT ![b] = <<i, j, k>>]
       /\ desc' = [desc EXCEPT ![i] = [addr |-> want[b], next |-> j],
                               ![j] = [addr |-> b, next |-> k],
                               ![k] = [addr |-> i, next |-> None]]
       /\ info' = [info EXCEPT ![i] = [b |-> b, status |-> 255]]
  BY DEF Alloc
<1>2. i \in D /\ j \in D /\ k \in D /\ free[i] /\ free[j] /\ free[k]
  BY DEF FreeDescs
<1>3. i # j /\ i # k /\ j # k
  BY <1>1, <1>2, Sizes DEF D
<1>4. \A d \in D : free'[d] = (free[d] /\ d \notin {i, j, k})
  <2>1. free \in [D -> BOOLEAN]
    BY DEF TypeInv, TypeOK
  <2> QED
    BY <1>1, <1>2, <1>3, <2>1
<1>5. /\ desc'[i] = [addr |-> want[b], next |-> j]
      /\ desc'[j] = [addr |-> b, next |-> k]
      /\ desc'[k] = [addr |-> i, next |-> None]
      /\ \A d \in D \ {i, j, k} : desc'[d] = desc[d]
  <2>1. desc = [d \in D |-> [addr |-> desc[d].addr, next |-> desc[d].next]]
    BY DEF TypeInv
  <2>2. DOMAIN desc = D
    BY <2>1
  <2> QED
    BY <1>1, <1>2, <1>3, <2>2
<1>6. free' \in [D -> BOOLEAN] /\ desc' = [d \in D |-> desc'[d]]
  <2>1. free \in [D -> BOOLEAN]
    BY DEF TypeInv, TypeOK
  <2>2. desc = [d \in D |-> [addr |-> desc[d].addr, next |-> desc[d].next]]
    BY DEF TypeInv
  <2>3. DOMAIN desc = D /\ desc = [d \in DOMAIN desc |-> desc[d]]
    BY <2>2
  <2> QED
    BY <1>1, <1>2, <2>1, <2>3
<1>7. AllocAt(b, i, j, k)
  BY <1>1, <1>2, <1>3, <1>4, <1>5, <1>6 DEF AllocAt
<1> QED
  BY <1>2, <1>7

(* What the end of a call changes. *)
LEMMA FinishIs ==
  ASSUME TypeInv, CallInv, ChainInv, NEW b \in Bufs, Finish(b)
  PROVE  /\ idx[b] # <<>> /\ idx[b][1] \in D
         /\ info' = [info EXCEPT ![idx[b][1]].b = None]
         /\ info' \in [D -> [b : Bufs \cup {None}, status : {0, 255}]]
         /\ \A d \in D : info'[d].status = info[d].status
         /\ \A d \in D : d # idx[b][1] => info'[d] = info[d]
         /\ free' = [d \in D |-> free[d] \/ d \in Three(b)]
         /\ desc' = [d \in D |-> IF d \in Three(b) THEN NoDesc ELSE desc[d]]
<1>1. idx[b] # <<>>
  BY DEF Finish, CallInv, Filled
<1>2. idx[b][1] \in D /\ Chain(idx[b][1]) = Three(b)
  BY <1>1, ChainIs
<1>3. info' = [info EXCEPT ![idx[b][1]].b = None]
  BY DEF Finish
<1>4. PICK h \in D : h = idx[b][1]
  BY <1>2
<1>5. info \in [D -> [b : Bufs \cup {None}, status : {0, 255}]]
  BY DEF TypeInv, TypeOK
<1>6. /\ info' \in [D -> [b : Bufs \cup {None}, status : {0, 255}]]
      /\ \A d \in D : info'[d].status = info[d].status
      /\ \A d \in D : d # h => info'[d] = info[d]
  BY <1>3, <1>4, <1>5
<1>7. /\ free' = [d \in D |-> free[d] \/ d \in Three(b)]
      /\ desc' = [d \in D |-> IF d \in Three(b) THEN NoDesc ELSE desc[d]]
  BY <1>2 DEF Finish
<1> QED
  BY <1>1, <1>2, <1>3, <1>4, <1>6, <1>7

(* What the device's transfer changes, in terms of the request. *)
Transfers(b, h) ==
  /\ Sent(b) /\ idx[b] # <<>> /\ idx[b][1] = h /\ want[b] \in Requests
  /\ h \in chains /\ info[h].status = 255
  /\ IF want[b].type = "out"
       THEN disk' = [disk EXCEPT ![want[b].sector] = data[b]] /\ data' = data
       ELSE data' = [data EXCEPT ![b] = disk[want[b].sector]] /\ disk' = disk
  /\ info' \in [D -> [b : Bufs \cup {None}, status : {0, 255}]]
  /\ \A d \in D : info'[d].b = info[d].b
  /\ \A d \in D : d # h => info'[d] = info[d]
  /\ info'[h].status = 0

LEMMA TransferIs ==
  ASSUME TypeInv, CallInv, ChainInv, AvailInv, NEW h \in D, Transfer(h)
  PROVE  \E b \in Bufs : Transfers(b, h)
<1>1. h \in chains
  BY DEF Transfer
<1>2. h \in SentHeads /\ info[h].status = 255
  BY <1>1 DEF AvailInv
<1>3. PICK b \in Bufs : Sent(b) /\ idx[b] # <<>> /\ idx[b][1] = h /\ want[b] \in Requests
  BY <1>2, SentOwner
<1>4. /\ desc[h].addr = want[b] /\ desc[desc[h].next].addr = b
      /\ desc[desc[desc[h].next].next].addr = h
  BY <1>3, ChainIs
<1>5. info' = [info EXCEPT ![h].status = 0]
  BY <1>4 DEF Transfer
<1>6. IF want[b].type = "out"
        THEN disk' = [disk EXCEPT ![want[b].sector] = data[b]] /\ data' = data
        ELSE data' = [data EXCEPT ![b] = disk[want[b].sector]] /\ disk' = disk
  BY <1>4 DEF Transfer
<1>7. info \in [D -> [b : Bufs \cup {None}, status : {0, 255}]]
  BY DEF TypeInv, TypeOK
<1>8. /\ info' \in [D -> [b : Bufs \cup {None}, status : {0, 255}]]
      /\ \A d \in D : info'[d].b = info[d].b
      /\ \A d \in D : d # h => info'[d] = info[d]
      /\ info'[h].status = 0
  BY <1>5, <1>7
<1>9. Transfers(b, h)
  BY <1>1, <1>2, <1>3, <1>6, <1>8 DEF Transfers
<1> QED
  BY <1>9

-----------------------------------------------------------------------------
(* The types, one group for each group of variables. *)
DriverOK == /\ free \in [D -> BOOLEAN]
            /\ \A d \in D : desc[d].next \in D \cup {None}
            /\ desc = [d \in D |-> [addr |-> desc[d].addr, next |-> desc[d].next]]
InfoOK == info \in [D -> [b : Bufs \cup {None}, status : {0, 255}]]
AvailOK == avail \in [idx : Index, ring : [D -> D \cup {None}]]
UsedOK == used \in [idx : Index, ring : [D -> D \cup {None}]]
IndexOK == used_idx \in Index /\ taken \in Index
CallOK == /\ pc \in [Bufs -> PCs]
          /\ idx \in [Bufs -> (D \X D \X D) \cup {<<>>}]
          /\ want \in [Bufs -> Requests \cup {None}]
          /\ bdisk \in [Bufs -> BOOLEAN]
DataOK == data \in [Bufs -> Values \cup {None}] /\ disk \in [Blocks -> Values]
SetsOK == chains \subseteq D /\ finished \subseteq D
FlagsOK == /\ lock \in Bufs \cup {"intr", None}
           /\ intr \in BOOLEAN /\ notify \in BOOLEAN /\ isr \in BOOLEAN

LEMMA TypeParts ==
  /\ TypeInv <=> /\ DriverOK /\ InfoOK /\ AvailOK /\ UsedOK /\ IndexOK /\ CallOK /\ DataOK
                 /\ SetsOK /\ FlagsOK
  /\ TypeInv' <=> /\ DriverOK' /\ InfoOK' /\ AvailOK' /\ UsedOK' /\ IndexOK' /\ CallOK' /\ DataOK'
                  /\ SetsOK' /\ FlagsOK'
BY DEF TypeInv, TypeOK, DriverOK, InfoOK, AvailOK, UsedOK, IndexOK, CallOK, DataOK, SetsOK,
       FlagsOK, Index

(* A descriptor has an address and a link. *)
IsDesc(r) == r.next \in D \cup {None} /\ r = [addr |-> r.addr, next |-> r.next]

LEMMA DescType ==
  /\ \A a : \A x \in D \cup {None} : IsDesc([addr |-> a, next |-> x])
  /\ DriverOK <=> /\ free \in [D -> BOOLEAN] /\ desc = [d \in D |-> desc[d]]
                  /\ \A d \in D : IsDesc(desc[d])
  /\ DriverOK' <=> /\ free' \in [D -> BOOLEAN] /\ desc' = [d \in D |-> desc'[d]]
                   /\ \A d \in D : IsDesc(desc'[d])
BY DEF IsDesc, DriverOK

LEMMA Unchanged ==
  /\ DriverOK /\ UNCHANGED <<free, desc>> => DriverOK'
  /\ InfoOK /\ UNCHANGED info => InfoOK'
  /\ AvailOK /\ UNCHANGED avail => AvailOK'
  /\ UsedOK /\ UNCHANGED used => UsedOK'
  /\ IndexOK /\ UNCHANGED <<used_idx, taken>> => IndexOK'
  /\ CallOK /\ UNCHANGED <<pc, idx, want, bdisk>> => CallOK'
  /\ DataOK /\ UNCHANGED <<data, disk>> => DataOK'
  /\ SetsOK /\ UNCHANGED <<chains, finished>> => SetsOK'
  /\ FlagsOK /\ UNCHANGED <<lock, intr, notify, isr>> => FlagsOK'
BY DEF DriverOK, InfoOK, AvailOK, UsedOK, IndexOK, CallOK, DataOK, SetsOK, FlagsOK

LEMMA InitType == Init => TypeInv
<1> SUFFICES ASSUME Init PROVE TypeInv
  OBVIOUS
<1>1. 0 \in Index
  BY Sizes DEF Index
<1>2. DriverOK /\ InfoOK
  BY DEF Init, DriverOK, InfoOK, NoDesc
<1>3. AvailOK /\ UsedOK /\ IndexOK
  BY <1>1 DEF Init, AvailOK, UsedOK, IndexOK
<1>4. CallOK /\ DataOK
  BY DEF Init, CallOK, DataOK, PCs
<1>5. SetsOK /\ FlagsOK
  BY DEF Init, SetsOK, FlagsOK
<1> QED
  BY <1>2, <1>3, <1>4, <1>5, TypeParts

(* One step per action: each keeps the types. *)
LEMMA NextType == IInv /\ [Next]_vars => TypeInv'
<1> SUFFICES ASSUME IInv, [Next]_vars PROVE TypeInv'
  OBVIOUS
<1>1. /\ DriverOK /\ InfoOK /\ AvailOK /\ UsedOK /\ IndexOK /\ CallOK /\ DataOK /\ SetsOK /\ FlagsOK
      /\ TypeInv /\ CallInv /\ ChainInv /\ OwnInv
  BY TypeParts DEF IInv
<1>2. \A x \in Index : x \in Nat /\ x % NUM \in D /\ Uint16(x + 1) \in Index
  BY PlaceType, NextIndex, Sizes DEF Index
<1>3. avail.idx \in Index /\ used.idx \in Index /\ used_idx \in Index /\ taken \in Index
  BY <1>1 DEF AvailOK, UsedOK, IndexOK
<1>4. ASSUME NEW b \in Bufs, NEW t \in {"in", "out"}, NEW s \in Blocks, NEW v \in Contents(t),
             Call(b, t, s, v)
      PROVE  TypeInv'
  <2>1. CallOK'
    BY <1>1, <1>4 DEF Call, CallOK, Goto, PCs, Requests, driver
  <2>2. DataOK'
    <3>1. v \in Values \cup {None}
      BY DEF Contents
    <3> QED
      BY <1>1, <1>4, <3>1 DEF Call, DataOK, device
  <2> QED
    BY <1>1, <1>4, <2>1, <2>2, Unchanged, TypeParts DEF Call, driver, device
<1>5. ASSUME NEW b \in Bufs, Alloc(b) PROVE TypeInv'
  <2>1. PICK i \in D, j \in D, k \in D : AllocAt(b, i, j, k)
    BY <1>1, <1>5, AllocIs
  <2>2. DriverOK'
    <3>1. free' \in [D -> BOOLEAN] /\ desc' = [d \in D |-> desc'[d]]
      BY <2>1 DEF AllocAt
    <3>2. ASSUME NEW d \in D PROVE IsDesc(desc'[d])
      <4>1. CASE d \notin {i, j, k}
        BY <1>1, <2>1, <4>1, DescType DEF AllocAt
      <4>2. CASE d \in {i, j, k}
        BY <2>1, <4>2, DescType DEF AllocAt
      <4> QED
        BY <4>1, <4>2
    <3> QED
      BY <3>1, <3>2, DescType
  <2>3. InfoOK'
    BY <1>1, <2>1 DEF AllocAt, InfoOK
  <2>4. CallOK'
    BY <1>1, <1>5, <2>1 DEF Alloc, AllocAt, CallOK, Goto, PCs
  <2>5. FlagsOK'
    BY <1>1, <1>5 DEF Alloc, FlagsOK, device
  <2> QED
    BY <1>1, <1>5, <2>2, <2>3, <2>4, <2>5, Unchanged, TypeParts DEF Alloc, device
<1>6. ASSUME NEW b \in Bufs, AllocFails(b) PROVE TypeInv'
  <2>1. DriverOK'
    <3>1. desc' = [d \in D |-> IF free[d] THEN NoDesc ELSE desc[d]] /\ free' = free
      BY <1>6 DEF AllocFails
    <3>2. \A d \in D : IsDesc(desc'[d])
      BY <1>1, <3>1, DescType DEF NoDesc
    <3>3. desc' = [d \in D |-> desc'[d]]
      BY <3>1
    <3> QED
      BY <1>1, <3>1, <3>2, <3>3, DescType
  <2>2. CallOK'
    BY <1>1, <1>6 DEF AllocFails, CallOK, PCs
  <2> QED
    BY <1>1, <1>6, <2>1, <2>2, Unchanged, TypeParts DEF AllocFails, device
<1>7. ASSUME NEW b \in Bufs, PutRing(b) \/ Publish(b) PROVE TypeInv'
  <2>1. AvailOK'
    <3>1. CASE PutRing(b)
      <4>1. idx[b] # <<>>
        BY <1>1, <3>1 DEF PutRing, CallInv, Filled
      <4>2. idx[b][1] \in D
        BY <1>1, <4>1, ChainIs
      <4> QED
        BY <1>1, <3>1, <4>2 DEF PutRing, AvailOK
    <3>2. CASE Publish(b)
      BY <1>1, <1>2, <1>3, <3>2 DEF Publish, AvailOK
    <3> QED
      BY <1>7, <3>1, <3>2
  <2>2. CallOK'
    BY <1>1, <1>7 DEF PutRing, Publish, CallOK, Goto, PCs, driver
  <2> QED
    BY <1>1, <1>7, <2>1, <2>2, Unchanged, TypeParts DEF PutRing, Publish, driver, device
<1>8. ASSUME NEW b \in Bufs, Wait(b) PROVE TypeInv'
  <2>1. CallOK'
    BY <1>1, <1>8 DEF Wait, CallOK, Goto, PCs, driver
  <2>2. FlagsOK'
    BY <1>1, <1>8 DEF Wait, FlagsOK, device
  <2> QED
    BY <1>1, <1>8, <2>1, <2>2, Unchanged, TypeParts DEF Wait, driver, device
<1>9. ASSUME NEW b \in Bufs, Finish(b) PROVE TypeInv'
  <2>1. DriverOK'
    <3>1. /\ desc' = [d \in D |-> IF d \in Chain(idx[b][1]) THEN NoDesc ELSE desc[d]]
          /\ free' = [d \in D |-> free[d] \/ d \in Chain(idx[b][1])]
      BY <1>9 DEF Finish
    <3>2. \A d \in D : IsDesc(desc'[d])
      BY <1>1, <3>1, DescType DEF NoDesc
    <3>3. desc' = [d \in D |-> desc'[d]]
      BY <3>1
    <3>4. free' \in [D -> BOOLEAN]
      BY <1>1, <3>1 DEF DriverOK
    <3> QED
      BY <3>2, <3>3, <3>4, DescType
  <2>2. InfoOK'
    BY <1>1, <1>9, FinishIs DEF InfoOK
  <2>3. CallOK'
    BY <1>1, <1>9 DEF Finish, CallOK, PCs
  <2>4. DataOK'
    BY <1>1, <1>9 DEF Finish, DataOK, device
  <2>5. FlagsOK'
    BY <1>1, <1>9 DEF Finish, FlagsOK, device
  <2> QED
    BY <1>1, <1>9, <2>1, <2>2, <2>3, <2>4, <2>5, Unchanged, TypeParts DEF Finish, device
<1>10. ASSUME IntrStart \/ IntrEnd \/ Interrupt PROVE TypeInv'
  <2>1. FlagsOK'
    BY <1>1, <1>10 DEF IntrStart, IntrEnd, Interrupt, FlagsOK, device
  <2> QED
    BY <1>1, <1>10, <2>1, Unchanged, TypeParts
       DEF IntrStart, IntrEnd, Interrupt, driver, device, call
<1>11. ASSUME IntrOne PROVE TypeInv'
  <2>1. CallOK'
    BY <1>1, <1>11 DEF IntrOne, CallOK, PCs
  <2>2. UsedOK'
    BY <1>1, <1>11 DEF IntrOne, UsedOK
  <2>3. IndexOK'
    BY <1>1, <1>2, <1>3, <1>11 DEF IntrOne, IndexOK
  <2> QED
    BY <1>1, <1>11, <2>1, <2>2, <2>3, Unchanged, TypeParts DEF IntrOne
<1>12. ASSUME Take PROVE TypeInv'
  <2>1. taken % NUM \in D /\ taken # avail.idx
    BY <1>2, <1>3, <1>12 DEF Take
  <2>2. avail.ring[taken % NUM] \in D
    <3>1. taken % NUM \in AvailPlaces
      <4>1. Count(taken, avail.idx) <= NUM
        <5>1. Count(taken, avail.idx) \in Index /\ Count(taken, avail.idx) <= NUM - 2
          BY <1>3, CountIs DEF IInv, RoomInv
        <5> QED
          BY <5>1, Sizes DEF Index
      <4> QED
        BY <1>3, <2>1, <4>1, GetPlace DEF AvailPlaces
    <3>2. avail.ring[taken % NUM] \in SentHeads
      BY <3>1 DEF IInv, AvailInv
    <3> QED
      BY <1>1, <3>2, SentOwner
  <2>3. AvailOK'
    BY <1>1, <1>12 DEF Take, AvailOK
  <2>4. IndexOK'
    BY <1>1, <1>2, <1>3, <1>12 DEF Take, IndexOK, driver
  <2>5. SetsOK'
    BY <1>1, <1>12, <2>2 DEF Take, SetsOK
  <2> QED
    BY <1>1, <1>12, <2>3, <2>4, <2>5, Unchanged, TypeParts DEF Take, driver, call
<1>13. ASSUME NEW h \in D, Transfer(h) PROVE TypeInv'
  <2>1. PICK b \in Bufs : Transfers(b, h)
    BY <1>1, <1>13, TransferIs DEF IInv
  <2>2. want[b].type = "out" => data[b] \in Values
    <3>1. want[b] # None
      BY <2>1, NoneAssumption DEF Requests, Transfers
    <3> QED
      BY <1>1, <3>1 DEF CallInv
  <2>3. want[b].sector \in Blocks
    BY <2>1 DEF Requests, Transfers
  <2>4. DataOK'
    <3>1. CASE want[b].type = "out"
      BY <1>1, <2>1, <2>2, <3>1 DEF DataOK, Transfers
    <3>2. CASE want[b].type # "out"
      BY <1>1, <2>1, <2>3, <3>2 DEF DataOK, Transfers
    <3> QED
      BY <3>1, <3>2
  <2>7. InfoOK'
    BY <2>1 DEF Transfers, InfoOK
  <2>8. SetsOK'
    BY <1>1, <1>13 DEF Transfer, SetsOK
  <2> QED
    BY <1>1, <1>13, <2>4, <2>7, <2>8, Unchanged, TypeParts DEF Transfer, call
<1>14. ASSUME NEW h \in D, PutUsed(h) PROVE TypeInv'
  <2>1. UsedOK'
    BY <1>1, <1>2, <1>3, <1>14 DEF PutUsed, UsedOK
  <2>2. SetsOK' /\ FlagsOK'
    BY <1>1, <1>14 DEF PutUsed, SetsOK, FlagsOK
  <2> QED
    BY <1>1, <1>14, <2>1, <2>2, Unchanged, TypeParts DEF PutUsed, driver, call
<1>15. CASE UNCHANGED vars
  BY <1>1, <1>15, Unchanged, TypeParts DEF vars, driver, device, call
<1> QED
  BY <1>4, <1>5, <1>6, <1>7, <1>8, <1>9, <1>10, <1>11, <1>12, <1>13, <1>14, <1>15
     DEF Next, RwStep, IntrStep, DeviceStep

-----------------------------------------------------------------------------
(* The calls and the lock. *)
LEMMA NextLock == IInv /\ [Next]_vars => LockInv'
<1> SUFFICES ASSUME IInv, [Next]_vars PROVE LockInv'
  OBVIOUS
<1>1. LockInv /\ CallInv /\ lock \in Bufs \cup {"intr", None}
  BY DEF IInv, TypeInv, TypeOK
<1>2. "intr" \notin Bufs /\ None \notin Bufs /\ None # "intr"
  BY NoneAssumption
<1>3. ASSUME NEW b \in Bufs, Alloc(b) \/ Wait(b) \/ Finish(b) PROVE LockInv'
  BY <1>1, <1>2, <1>3 DEF Alloc, Wait, Finish, LockInv
<1>4. ASSUME IntrStart \/ IntrEnd PROVE LockInv'
  BY <1>1, <1>2, <1>4 DEF IntrStart, IntrEnd, LockInv
<1>5. ASSUME UNCHANGED <<lock, intr>> PROVE LockInv'
  BY <1>1, <1>5 DEF LockInv
<1> QED
  BY <1>3, <1>4, <1>5
     DEF Next, RwStep, IntrStep, DeviceStep, Call, AllocFails, PutRing, Publish, IntrOne,
         Take, Transfer, PutUsed, Interrupt, vars, device, driver, call

(* What a step of the handler means for the buffer it finishes. *)
LEMMA FirstUsed ==
  ASSUME TypeInv, RoomInv, used_idx # used.idx
  PROVE  /\ used_idx % NUM \in UsedPlaces /\ used_idx % NUM \in D
         /\ Places(Uint16(used_idx + 1), used.idx) = UsedPlaces \ {used_idx % NUM}
         /\ Count(Uint16(used_idx + 1), used.idx) <= NUM - 2
<1>1. used_idx \in Index /\ used.idx \in Index
  BY DEF TypeInv, TypeOK, Index
<1>2. PICK n \in Index : n = Count(used_idx, used.idx) /\ n <= NUM - 2
  BY <1>1, CountIs DEF RoomInv
<1>3. n <= NUM /\ n - 1 <= NUM - 2
  BY <1>2, Sizes DEF Index
<1>4. used_idx \in Nat
  BY <1>1 DEF Index
<1> QED
  BY <1>1, <1>2, <1>3, <1>4, GetPlace, PlaceType DEF UsedPlaces

LEMMA IntrOneIs ==
  ASSUME TypeInv, CallInv, ChainInv, RoomInv, UsedInv, IntrOne
  PROVE  \E b \in Bufs :
           /\ Sent(b) /\ idx[b] # <<>> /\ idx[b][1] = used.ring[used_idx % NUM]
           /\ info[idx[b][1]].status = 0
           /\ bdisk' = [bdisk EXCEPT ![b] = FALSE]
           /\ pc' = [c \in Bufs |-> IF c = b /\ pc[c] = "sleepb" THEN "wait" ELSE pc[c]]
<1>1. used.ring[used_idx % NUM] \in SentHeads
  BY FirstUsed DEF UsedInv, IntrOne
<1>2. PICK b \in Bufs : /\ Sent(b) /\ idx[b] # <<>> /\ idx[b][1] = used.ring[used_idx % NUM]
                        /\ info[used.ring[used_idx % NUM]].b = b
  BY <1>1, SentOwner
<1> QED
  BY <1>2 DEF IntrOne

LEMMA NextCall == IInv /\ [Next]_vars => CallInv'
<1> SUFFICES ASSUME IInv, [Next]_vars PROVE CallInv'
  OBVIOUS
<1>1. /\ TypeInv /\ CallInv /\ ChainInv /\ LockInv /\ RoomInv /\ UsedInv /\ AvailInv
      /\ CallOK /\ DataOK /\ FlagsOK /\ None \notin Bufs /\ None \notin Requests /\ "intr" \notin Bufs
  BY TypeParts, NoneAssumption DEF IInv, Requests
<1>2. ASSUME NEW b \in Bufs, NEW t \in {"in", "out"}, NEW s \in Blocks, NEW v \in Contents(t),
             Call(b, t, s, v)
      PROVE  CallInv'
  <2>1. want'[b] \in Requests /\ want'[b].type = t
    BY <1>1, <1>2 DEF Call, Requests, CallOK
  <2>2. data'[b] = v /\ (t = "out" => v \in Values)
    BY <1>1, <1>2 DEF Call, DataOK, Contents
  <2> QED
    BY <1>1, <1>2, <2>1, <2>2 DEF CallInv, Call, CallOK, DataOK, Goto, Filled, driver
<1>3. ASSUME NEW b \in Bufs, Alloc(b) PROVE CallInv'
  <2>1. PICK i \in D, j \in D, k \in D : AllocAt(b, i, j, k)
    BY <1>1, <1>3, AllocIs
  <2>2. idx'[b] # <<>> /\ \A c \in Bufs \ {b} : idx'[c] = idx[c]
    BY <1>1, <2>1 DEF AllocAt, CallOK
  <2>3. pc'[b] = "ring" /\ lock' = b /\ bdisk'[b] = TRUE
    BY <1>1, <1>3 DEF Alloc, Goto, CallOK
  <2>4. \A c \in Bufs \ {b} : pc'[c] = pc[c] /\ bdisk'[c] = bdisk[c]
    BY <1>1, <1>3 DEF Alloc, Goto, CallOK
  <2>5. \A c \in Bufs : pc[c] \notin {"ring", "publish"}
    BY <1>1, <1>3 DEF Alloc, CallInv
  <2>6. pc[b] = "alloc" /\ want' = want /\ data' = data
    BY <1>3 DEF Alloc
  <2> QED
    BY <1>1, <2>2, <2>3, <2>4, <2>5, <2>6 DEF CallInv, Filled
<1>4. ASSUME NEW b \in Bufs, AllocFails(b) \/ PutRing(b) \/ Publish(b) \/ Wait(b) PROVE CallInv'
  <2>1. CASE AllocFails(b)
    BY <1>1, <2>1 DEF CallInv, AllocFails, CallOK, Filled
  <2>2. CASE PutRing(b)
    BY <1>1, <2>2 DEF CallInv, PutRing, CallOK, Filled, Goto, driver
  <2>3. CASE Publish(b)
    BY <1>1, <2>3 DEF CallInv, Publish, CallOK, Filled, Goto, driver
  <2>4. CASE Wait(b)
    <3>1. \A c \in Bufs : pc[c] \in {"ring", "publish"} => lock = c /\ c # b
      BY <1>1, <2>4 DEF CallInv, Wait
    <3>2. \A c \in Bufs : pc[c] \notin {"ring", "publish"}
      BY <1>1, <2>4, <3>1 DEF Wait
    <3> QED
      BY <1>1, <2>4, <3>2 DEF CallInv, Wait, CallOK, Filled, Goto, driver
  <2> QED
    BY <1>4, <2>1, <2>2, <2>3, <2>4
<1>5. ASSUME NEW b \in Bufs, Finish(b) PROVE CallInv'
  <2>1. \A c \in Bufs : pc[c] \in {"ring", "publish"} => lock = c /\ c # b
    BY <1>1, <1>5 DEF CallInv, Finish
  <2>2. \A c \in Bufs : pc[c] \notin {"ring", "publish"}
    BY <1>1, <1>5, <2>1 DEF Finish
  <2> QED
    BY <1>1, <1>5, <2>2 DEF CallInv, Finish, CallOK, DataOK, Filled
<1>6. ASSUME IntrOne PROVE CallInv'
  <2>1. PICK b \in Bufs :
           /\ Sent(b)
           /\ bdisk' = [bdisk EXCEPT ![b] = FALSE]
           /\ pc' = [c \in Bufs |-> IF c = b /\ pc[c] = "sleepb" THEN "wait" ELSE pc[c]]
    BY <1>1, <1>6, IntrOneIs
  <2>2. pc[b] \in Given
    BY <2>1 DEF Sent
  <2>3. UNCHANGED <<idx, want, lock, data>>
    BY <1>6 DEF IntrOne
  <2> QED
    BY <1>1, <2>1, <2>2, <2>3 DEF CallInv, CallOK, Given, Filled
<1>7. ASSUME IntrStart \/ IntrEnd PROVE CallInv'
  <2>1. \A c \in Bufs : pc[c] \notin {"ring", "publish"}
    BY <1>1, <1>7, NoneAssumption DEF CallInv, LockInv, IntrStart, IntrEnd
  <2> QED
    BY <1>1, <1>7, <2>1 DEF CallInv, IntrStart, IntrEnd, call, driver
<1>8. ASSUME NEW h \in D, Transfer(h) PROVE CallInv'
  <2>1. PICK b \in Bufs : Transfers(b, h)
    BY <1>1, <1>8, TransferIs
  <2>2. UNCHANGED <<pc, idx, want, lock, bdisk>>
    BY <1>8 DEF Transfer, call
  <2>3. \A c \in Bufs : want[c] # None /\ want[c].type = "out" => data'[c] = data[c]
    BY <1>1, <2>1 DEF Transfers, DataOK
  <2> QED
    BY <1>1, <2>2, <2>3 DEF CallInv
<1>9. ASSUME UNCHANGED <<pc, idx, want, lock, bdisk, data>> PROVE CallInv'
  BY <1>1, <1>9 DEF CallInv
<1> QED
  BY <1>2, <1>3, <1>4, <1>5, <1>6, <1>7, <1>8, <1>9
     DEF Next, RwStep, IntrStep, DeviceStep, Take, PutUsed, Interrupt, vars, device, driver, call

-----------------------------------------------------------------------------
(* The descriptors. *)
LEMMA KeepChain ==
  ASSUME TypeInv, ChainInv, OwnInv, NEW b \in Bufs, idx[b] # <<>>,
         idx'[b] = idx[b], want'[b] = want[b],
         \A d \in Three(b) : desc'[d] = desc[d],
         info'[idx[b][1]].b = info[idx[b][1]].b
  PROVE  Linked(b)'
<1>1. /\ desc'[idx[b][1]] = desc[idx[b][1]] /\ desc'[idx[b][2]] = desc[idx[b][2]]
      /\ desc'[idx[b][3]] = desc[idx[b][3]]
  BY ChainIs
<1>2. Linked(b)
  BY DEF ChainInv
<1> QED
  BY <1>1, <1>2 DEF Linked

LEMMA NextChain == IInv /\ [Next]_vars => ChainInv'
<1> SUFFICES ASSUME IInv, [Next]_vars PROVE ChainInv'
  OBVIOUS
<1>1. TypeInv /\ CallInv /\ ChainInv /\ OwnInv /\ AvailInv /\ CallOK
  BY TypeParts DEF IInv
<1>2. ASSUME NEW b \in Bufs, NEW t \in {"in", "out"}, NEW s \in Blocks, NEW v \in Contents(t),
             Call(b, t, s, v)
      PROVE  ChainInv'
  <2>1. idx[b] = <<>>
    BY <1>1, <1>2 DEF Call, CallInv, Filled
  <2>2. ASSUME NEW c \in Bufs, idx'[c] # <<>> PROVE Linked(c)'
    <3>1. idx[c] # <<>> /\ want'[c] = want[c] /\ UNCHANGED <<idx, desc, info>>
      BY <1>1, <1>2, <2>1, <2>2 DEF Call, CallOK, driver
    <3> QED
      BY <1>1, <3>1, KeepChain
  <2> QED
    BY <2>2 DEF ChainInv
<1>3. ASSUME NEW b \in Bufs, Alloc(b) PROVE ChainInv'
  <2>1. PICK i \in D, j \in D, k \in D : AllocAt(b, i, j, k)
    BY <1>1, <1>3, AllocIs
  <2>2. want' = want
    BY <1>3 DEF Alloc
  <2>3. info'[i].b = b
    BY <2>1, TypeParts, <1>1 DEF AllocAt, InfoOK
  <2>4. Linked(b)'
    <3>1. idx'[b] = <<i, j, k>>
      BY <1>1, <2>1 DEF AllocAt, CallOK
    <3>2. idx'[b][1] = i /\ idx'[b][2] = j /\ idx'[b][3] = k
      BY <3>1
    <3> QED
      BY <2>1, <2>2, <2>3, <3>2 DEF AllocAt, Linked
  <2>5. ASSUME NEW c \in Bufs \ {b}, idx'[c] # <<>> PROVE Linked(c)'
    <3>1. idx'[c] = idx[c] /\ want'[c] = want[c]
      BY <1>1, <2>1, <2>2 DEF AllocAt, CallOK
    <3>2. \A d \in Three(c) : ~free[d] /\ d \in D
      BY <1>1, <2>5, <3>1, ChainIs DEF OwnInv
    <3>3. \A d \in Three(c) : desc'[d] = desc[d] /\ info'[d] = info[d]
      BY <1>1, <2>1, <3>2, TypeParts DEF AllocAt, InfoOK
    <3>4. idx[c][1] \in Three(c)
      BY <1>1, <2>5, <3>1, ChainIs
    <3> QED
      BY <1>1, <2>5, <3>1, <3>3, <3>4, KeepChain
  <2> QED
    BY <2>4, <2>5 DEF ChainInv
<1>4. ASSUME NEW b \in Bufs, AllocFails(b) PROVE ChainInv'
  <2>1. ASSUME NEW c \in Bufs, idx'[c] # <<>> PROVE Linked(c)'
    <3>1. UNCHANGED <<idx, want, info>>
      BY <1>4 DEF AllocFails
    <3>2. \A d \in Three(c) : ~free[d] /\ d \in D
      BY <1>1, <2>1, <3>1, ChainIs DEF OwnInv
    <3>3. \A d \in Three(c) : desc'[d] = desc[d]
      BY <1>4, <3>2 DEF AllocFails
    <3> QED
      BY <1>1, <2>1, <3>1, <3>3, KeepChain
  <2> QED
    BY <2>1 DEF ChainInv
<1>5. ASSUME NEW b \in Bufs, Finish(b) PROVE ChainInv'
  <2>0. /\ idx[b] # <<>>
        /\ \A d \in D : d \notin Three(b) => desc'[d] = desc[d]
        /\ \A d \in D : d # idx[b][1] => info'[d] = info[d]
    <3>1. /\ idx[b] # <<>>
          /\ \A d \in D : d # idx[b][1] => info'[d] = info[d]
          /\ desc' = [d \in D |-> IF d \in Three(b) THEN NoDesc ELSE desc[d]]
      BY <1>1, <1>5, FinishIs
    <3> QED
      BY <3>1
  <2>1. ASSUME NEW c \in Bufs, idx'[c] # <<>> PROVE Linked(c)'
    <3>1. c # b /\ idx'[c] = idx[c] /\ want'[c] = want[c]
      BY <1>1, <1>5, <2>1 DEF Finish, CallOK
    <3>2. Three(b) \cap Three(c) = {} /\ \A d \in Three(c) : d \in D
      BY <1>1, <2>1, <3>1, ChainIs DEF OwnInv
    <3>3. \A d \in Three(c) : desc'[d] = desc[d]
      BY <2>0, <3>2
    <3>4. idx[c][1] # idx[b][1]
      BY <1>1, <2>0, <2>1, <3>1, OwnersDiffer
    <3>5. idx[c][1] \in D
      BY <1>1, <2>1, <3>1, ChainIs
    <3>6. info'[idx[c][1]] = info[idx[c][1]]
      BY <2>0, <3>4, <3>5
    <3> QED
      BY <1>1, <2>1, <3>1, <3>3, <3>6, KeepChain
  <2> QED
    BY <2>1 DEF ChainInv
<1>6. ASSUME NEW h \in D, Transfer(h) PROVE ChainInv'
  <2>1. PICK b \in Bufs : Transfers(b, h)
    BY <1>1, <1>6, TransferIs
  <2>2. UNCHANGED <<idx, want, desc>>
    BY <1>6 DEF Transfer, call
  <2>3. ASSUME NEW c \in Bufs, idx'[c] # <<>> PROVE Linked(c)'
    <3>1. info'[idx[c][1]].b = info[idx[c][1]].b
      BY <1>1, <2>1, <2>2, <2>3, ChainIs DEF Transfers
    <3> QED
      BY <1>1, <2>2, <2>3, <3>1, KeepChain
  <2> QED
    BY <2>3 DEF ChainInv
<1>7. ASSUME UNCHANGED <<idx, want, desc, info>> PROVE ChainInv'
  BY <1>1, <1>7 DEF ChainInv, Linked
<1> QED
  BY <1>2, <1>3, <1>4, <1>5, <1>6, <1>7
     DEF Next, RwStep, IntrStep, DeviceStep, PutRing, Publish, Wait, IntrStart, IntrOne, IntrEnd,
         Take, PutUsed, Interrupt, vars, device, driver, call

LEMMA NextOwn == IInv /\ [Next]_vars => OwnInv'
<1> SUFFICES ASSUME IInv, [Next]_vars PROVE OwnInv'
  OBVIOUS
<1>1. TypeInv /\ CallInv /\ ChainInv /\ OwnInv /\ CallOK
  BY TypeParts DEF IInv
<1>2. ASSUME NEW b \in Bufs, Alloc(b) PROVE OwnInv'
  <2>1. PICK i \in D, j \in D, k \in D : AllocAt(b, i, j, k)
    BY <1>1, <1>2, AllocIs
  <2>2. idx'[b] = <<i, j, k>> /\ \A c \in Bufs \ {b} : idx'[c] = idx[c]
    BY <1>1, <2>1 DEF AllocAt, CallOK
  <2>3. Three(b)' = {i, j, k}
    BY <2>2 DEF Three
  <2>4. \A c \in Bufs \ {b} : Three(c)' = Three(c)
    BY <2>2 DEF Three
  <2>5. Three(b) = {}
    BY <1>1, <1>2 DEF Alloc, CallInv, Filled, Three
  <2>6. \A d \in D : free'[d] = (free[d] /\ d \notin {i, j, k})
    BY <2>1 DEF AllocAt
  <2>7. free[i] /\ free[j] /\ free[k]
    BY <2>1 DEF AllocAt
  <2>8. \A c \in Bufs : i \notin Three(c) /\ j \notin Three(c) /\ k \notin Three(c)
    BY <1>1, <2>7 DEF OwnInv
  <2>9. ASSUME NEW d \in D PROVE ~free'[d] <=> \E c \in Bufs : d \in Three(c)'
    <3>1. ~free[d] <=> \E c \in Bufs : d \in Three(c)
      BY <1>1 DEF OwnInv
    <3>2. (\E c \in Bufs : d \in Three(c)') <=> (\E c \in Bufs : d \in Three(c)) \/ d \in {i, j, k}
      BY <2>3, <2>4, <2>5
    <3>3. ~free'[d] <=> ~free[d] \/ d \in {i, j, k}
      BY <2>6
    <3> QED
      BY <3>1, <3>2, <3>3
  <2>10. ASSUME NEW c \in Bufs, NEW e \in Bufs, c # e PROVE Three(c)' \cap Three(e)' = {}
    <3>1. Three(c) \cap Three(e) = {}
      BY <1>1, <2>10 DEF OwnInv
    <3>2. CASE c # b /\ e # b
      BY <2>4, <3>1, <3>2
    <3>3. CASE c = b \/ e = b
      BY <2>3, <2>4, <2>8, <2>10, <3>3
    <3> QED
      BY <3>2, <3>3
  <2> QED
    BY <2>9, <2>10 DEF OwnInv
<1>3. ASSUME NEW b \in Bufs, Finish(b) PROVE OwnInv'
  <2>1. idx'[b] = <<>> /\ \A c \in Bufs \ {b} : idx'[c] = idx[c]
    BY <1>1, <1>3 DEF Finish, CallOK
  <2>2. Three(b)' = {} /\ \A c \in Bufs \ {b} : Three(c)' = Three(c)
    BY <2>1 DEF Three
  <2>3. \A d \in D : free'[d] = (free[d] \/ d \in Three(b))
    BY <1>1, <1>3, FinishIs
  <2>4. ASSUME NEW d \in D PROVE ~free'[d] <=> \E c \in Bufs : d \in Three(c)'
    <3>1. ~free[d] <=> \E c \in Bufs : d \in Three(c)
      BY <1>1 DEF OwnInv
    <3>2. \A c \in Bufs \ {b} : Three(b) \cap Three(c) = {}
      BY <1>1 DEF OwnInv
    <3>3. ~free'[d] <=> ~free[d] /\ d \notin Three(b)
      BY <2>3
    <3> QED
      BY <2>2, <3>1, <3>2, <3>3
  <2>5. ASSUME NEW c \in Bufs, NEW e \in Bufs, c # e PROVE Three(c)' \cap Three(e)' = {}
    <3>1. Three(c) \cap Three(e) = {}
      BY <1>1, <2>5 DEF OwnInv
    <3> QED
      BY <2>2, <3>1
  <2> QED
    BY <2>4, <2>5 DEF OwnInv
<1>4. ASSUME UNCHANGED <<idx, free>> PROVE OwnInv'
  BY <1>1, <1>4 DEF OwnInv, Three
<1> QED
  BY <1>2, <1>3, <1>4
     DEF Next, RwStep, IntrStep, DeviceStep, Call, AllocFails, PutRing, Publish, Wait, IntrStart,
         IntrOne, IntrEnd, Take, Transfer, PutUsed, Interrupt, vars, device, driver, call

-----------------------------------------------------------------------------
(* The steps that give nothing to the device, take nothing from it and do  *)
(* not finish a request.                                                   *)
Quiet(b) == \/ \E t \in {"in", "out"}, s \in Blocks : \E v \in Contents(t) : Call(b, t, s, v)
            \/ Alloc(b) \/ AllocFails(b) \/ PutRing(b) \/ Publish(b) \/ Wait(b) \/ Finish(b)

LEMMA QuietSent ==
  ASSUME IInv, NEW b \in Bufs, Quiet(b)
  PROVE  /\ \A c \in Bufs : Sent(c) => Sent(c)' /\ idx'[c] = idx[c]
         /\ \A c \in Bufs : Sent(c)' => Sent(c) \/ (c = b /\ Publish(b))
         /\ \A c \in Bufs : idx[c] # <<>> /\ c # b
              => idx'[c] = idx[c] /\ info'[idx[c][1]].status = info[idx[c][1]].status
         /\ ~Alloc(b) => \A d \in D : info'[d].status = info[d].status
<1>1. TypeInv /\ CallInv /\ ChainInv /\ OwnInv /\ CallOK /\ InfoOK
  BY TypeParts DEF IInv
<1>2. ASSUME NEW t \in {"in", "out"}, NEW s \in Blocks, NEW v \in Contents(t), Call(b, t, s, v)
      PROVE  /\ pc[b] \notin Given /\ pc'[b] \notin Given
             /\ \A c \in Bufs \ {b} : pc'[c] = pc[c]
             /\ UNCHANGED <<bdisk, idx, info>>
  BY <1>1, <1>2 DEF Call, Goto, CallOK, Given, driver
<1> DEFINE Kept == /\ \A c \in Bufs : Sent(c) => Sent(c)' /\ idx'[c] = idx[c]
                   /\ \A c \in Bufs : Sent(c)' => Sent(c) \/ (c = b /\ Publish(b))
           Same == \A d \in D : info'[d].status = info[d].status
           Others == \A c \in Bufs : idx[c] # <<>> /\ c # b
                       => idx'[c] = idx[c] /\ info'[idx[c][1]].status = info[idx[c][1]].status
<1>3. \A c \in Bufs : idx[c] # <<>> => idx[c][1] \in D
  BY <1>1, ChainIs
<1>4. ASSUME NEW t \in {"in", "out"}, NEW s \in Blocks, NEW v \in Contents(t), Call(b, t, s, v)
      PROVE  Kept /\ Same /\ Others
  <2>1. Same /\ Others
    BY <1>2, <1>4
  <2> QED
    BY <1>2, <1>4, <2>1 DEF Sent
<1>5. ASSUME Alloc(b) PROVE Kept /\ Others
  <2>1. PICK i \in D, j \in D, k \in D : AllocAt(b, i, j, k)
    BY <1>1, <1>5, AllocIs
  <2>2. pc[b] \notin Given /\ pc'[b] \notin Given
    BY <1>1, <1>5 DEF Alloc, Goto, CallOK, Given
  <2>3. \A c \in Bufs \ {b} : pc'[c] = pc[c] /\ bdisk'[c] = bdisk[c] /\ idx'[c] = idx[c]
    BY <1>1, <1>5, <2>1 DEF Alloc, Goto, CallOK, AllocAt
  <2>4. Kept
    BY <2>2, <2>3 DEF Sent
  <2>5. ASSUME NEW c \in Bufs, idx[c] # <<>>, c # b
        PROVE  idx'[c] = idx[c] /\ info'[idx[c][1]].status = info[idx[c][1]].status
    <3>1. idx[c][1] \in D /\ ~free[idx[c][1]]
      BY <1>1, <1>3, <2>5, HeadIsUsed
    <3>2. idx[c][1] # i
      BY <2>1, <3>1 DEF AllocAt
    <3>3. info' = [info EXCEPT ![i] = [b |-> b, status |-> 255]]
      BY <2>1 DEF AllocAt
    <3> QED
      BY <1>1, <2>3, <2>5, <3>1, <3>2, <3>3 DEF InfoOK
  <2> QED
    BY <2>4, <2>5
<1>6. ASSUME AllocFails(b) \/ PutRing(b) PROVE Kept /\ Same /\ Others
  <2>1. UNCHANGED <<bdisk, idx, info>>
    BY <1>6 DEF AllocFails, PutRing, driver
  <2>2. \A c \in Bufs : pc'[c] = pc[c] \/ (pc[c] \notin Given /\ pc'[c] \notin Given)
    BY <1>1, <1>6 DEF AllocFails, PutRing, Goto, CallOK, Given
  <2>3. Kept
    BY <2>1, <2>2 DEF Sent
  <2> QED
    BY <2>1, <2>3
<1>7. ASSUME Publish(b) \/ Wait(b) PROVE Kept /\ Same /\ Others
  <2>1. UNCHANGED <<bdisk, idx, info>>
    BY <1>7 DEF Publish, Wait, driver
  <2>2. /\ \A c \in Bufs \ {b} : pc'[c] = pc[c]
        /\ pc'[b] \in Given /\ (Wait(b) => pc[b] \in Given)
    BY <1>1, <1>7 DEF Publish, Wait, Goto, CallOK, Given
  <2>3. Kept
    BY <1>7, <2>1, <2>2 DEF Sent
  <2> QED
    BY <2>1, <2>3
<1>8. ASSUME Finish(b) PROVE Kept /\ Same /\ Others
  <2>1. Same
    BY <1>1, <1>8, FinishIs
  <2>2. ~bdisk[b] /\ ~bdisk'[b]
    BY <1>8 DEF Finish
  <2>3. /\ \A c \in Bufs : pc'[c] = pc[c] \/ (pc[c] \notin Given /\ pc'[c] \notin Given) \/ c = b
        /\ \A c \in Bufs \ {b} : idx'[c] = idx[c]
        /\ bdisk' = bdisk
    BY <1>1, <1>8 DEF Finish, CallOK, Given
  <2>4. Kept
    BY <2>2, <2>3 DEF Sent
  <2> QED
    BY <1>3, <2>1, <2>3, <2>4
<1> HIDE DEF Kept, Same, Others
<1>9. Kept /\ Others /\ (~Alloc(b) => Same)
  BY <1>4, <1>5, <1>6, <1>7, <1>8 DEF Quiet
<1> QED
  BY <1>9 DEF Kept, Same, Others

LEMMA QuietIsSent ==
  ASSUME IInv, NEW b \in Bufs, Quiet(b), NEW h, h \in SentHeads
  PROVE  h \in SentHeads' /\ info'[h].status = info[h].status
<1>1. TypeInv /\ CallInv /\ ChainInv
  BY DEF IInv
<1>2. PICK c \in Bufs : Sent(c) /\ idx[c] # <<>> /\ idx[c][1] = h /\ h \in D
  BY <1>1, SentOwner
<1>3. Sent(c)' /\ idx'[c] = idx[c]
  BY <1>2, QuietSent
<1>4. h \in SentHeads'
  BY <1>2, <1>3 DEF SentHeads
<1>5. c = b => ~Alloc(b)
  BY <1>2 DEF Alloc, Sent, Given
<1>6. info'[h].status = info[h].status
  BY <1>2, <1>5, QuietSent
<1> QED
  BY <1>4, <1>6

LEMMA IntrOneIsSent ==
  ASSUME IInv, IntrOne, NEW h, h \in SentHeads, h # used.ring[used_idx % NUM]
  PROVE  h \in SentHeads'
<1>1. PICK b \in Bufs :
           /\ Sent(b) /\ idx[b] # <<>> /\ idx[b][1] = used.ring[used_idx % NUM]
           /\ bdisk' = [bdisk EXCEPT ![b] = FALSE]
           /\ pc' = [c \in Bufs |-> IF c = b /\ pc[c] = "sleepb" THEN "wait" ELSE pc[c]]
  BY IntrOneIs DEF IInv
<1>2. PICK c \in Bufs : Sent(c) /\ idx[c][1] = h
  BY DEF SentHeads
<1>3. c # b
  BY <1>1, <1>2
<1>4. bdisk'[c] = bdisk[c] /\ pc'[c] = pc[c] /\ idx' = idx
  BY <1>1, <1>3 DEF IInv, TypeInv, TypeOK, IntrOne
<1> QED
  BY <1>2, <1>4 DEF SentHeads, Sent

LEMMA SameSent ==
  ASSUME UNCHANGED <<pc, bdisk, idx>>, NEW h
  PROVE  (h \in SentHeads') <=> (h \in SentHeads)
BY DEF SentHeads, Sent

(* A request that is not with the device yet has no entry in the rings. *)
LEMMA NotYetSent ==
  ASSUME IInv, NEW b \in Bufs, pc[b] \in {"ring", "publish"}
  PROVE  /\ idx[b] # <<>> /\ idx[b][1] \in Heads /\ idx[b][1] \in D /\ bdisk[b]
         /\ idx[b][1] \notin SentHeads
<1>1. TypeInv /\ CallInv /\ ChainInv /\ OwnInv
  BY DEF IInv
<1>2. idx[b] # <<>> /\ bdisk[b]
  BY <1>1 DEF CallInv, Filled
<1>3. idx[b][1] \in Heads /\ idx[b][1] \in D
  BY <1>1, <1>2, ChainIs
<1>4. ASSUME idx[b][1] \in SentHeads PROVE FALSE
  <2>1. PICK c \in Bufs : Sent(c) /\ idx[c] # <<>> /\ idx[c][1] = idx[b][1]
    BY <1>1, <1>4, SentOwner
  <2>2. c # b
    BY <2>1 DEF Sent, Given
  <2> QED
    BY <1>1, <1>2, <2>1, <2>2, OwnersDiffer
<1> QED
  BY <1>2, <1>3, <1>4

(* The places of the avail ring: the next to be written, and the first. *)
LEMMA AvailIndex ==
  ASSUME TypeInv, RoomInv
  PROVE  /\ avail.idx \in Index /\ taken \in Index /\ avail.idx % NUM \in D /\ taken % NUM \in D
         /\ Count(taken, avail.idx) \in Index /\ Count(taken, avail.idx) <= NUM
         /\ avail.idx % NUM \notin AvailPlaces
         /\ Places(taken, Uint16(avail.idx + 1)) = AvailPlaces \cup {avail.idx % NUM}
         /\ Count(taken, Uint16(avail.idx + 1)) = Count(taken, avail.idx) + 1
<1>1. avail.idx \in Index /\ taken \in Index
  BY DEF TypeInv, TypeOK, Index
<1>2. avail.idx \in Nat /\ taken \in Nat
  BY <1>1 DEF Index
<1>3. PICK n \in Index : n = Count(taken, avail.idx) /\ n <= NUM - 2
  BY <1>1, CountIs DEF RoomInv
<1>4. n <= NUM /\ n < NUM - 1
  BY <1>3, Sizes DEF Index
<1> QED
  BY <1>1, <1>2, <1>3, <1>4, PlaceType, PutPlace DEF AvailPlaces

LEMMA FirstAvail ==
  ASSUME TypeInv, RoomInv, taken # avail.idx
  PROVE  /\ taken % NUM \in AvailPlaces
         /\ Places(Uint16(taken + 1), avail.idx) = AvailPlaces \ {taken % NUM}
         /\ Count(Uint16(taken + 1), avail.idx) <= NUM - 2
<1>1. PICK n \in Index : n = Count(taken, avail.idx) /\ n <= NUM /\ n <= NUM - 2
  BY AvailIndex DEF RoomInv
<1>2. n - 1 <= NUM - 2
  BY <1>1, Sizes DEF Index
<1> QED
  BY <1>1, <1>2, AvailIndex, GetPlace DEF AvailPlaces

LEMMA KeepAvail ==
  ASSUME AvailInv, avail'.idx = avail.idx, taken' = taken, chains' = chains,
         \A x \in AvailPlaces : avail'.ring[x] = avail.ring[x],
         \A h : h \in SentHeads /\ info[h].status = 255 => h \in SentHeads' /\ info'[h].status = 255
  PROVE  AvailInv'
<1>1. AvailPlaces' = AvailPlaces
  BY DEF AvailPlaces, Places, Pending
<1>2. \A x \in AvailPlaces : /\ avail'.ring[x] \in SentHeads'
                             /\ info'[avail'.ring[x]].status = 255
                             /\ avail'.ring[x] \notin chains'
  BY DEF AvailInv
<1>3. \A x, y \in AvailPlaces : avail'.ring[x] = avail'.ring[y] => x = y
  BY DEF AvailInv
<1>4. \A h \in chains' : h \in SentHeads' /\ info'[h].status = 255
  BY DEF AvailInv
<1> QED
  BY <1>1, <1>2, <1>3, <1>4 DEF AvailInv

LEMMA NextAvail == IInv /\ [Next]_vars => AvailInv'
<1> SUFFICES ASSUME IInv, [Next]_vars PROVE AvailInv'
  OBVIOUS
<1>1. TypeInv /\ CallInv /\ ChainInv /\ OwnInv /\ RoomInv /\ AvailInv /\ UsedInv
  BY DEF IInv
<1>2. AvailOK
  BY <1>1, TypeParts
<1>3. ASSUME NEW b \in Bufs, Quiet(b), ~Publish(b) PROVE AvailInv'
  <2>1. avail'.idx = avail.idx /\ taken' = taken /\ chains' = chains
    BY <1>2, <1>3 DEF Quiet, Call, Alloc, AllocFails, PutRing, Wait, Finish, device, AvailOK
  <2>2. \A x \in AvailPlaces : avail'.ring[x] = avail.ring[x]
    <3>1. CASE PutRing(b)
      <4>1. avail' = [avail EXCEPT !.ring[avail.idx % NUM] = idx[b][1]]
        BY <3>1 DEF PutRing
      <4> QED
        BY <1>1, <1>2, <4>1, AvailIndex DEF AvailOK
    <3>2. CASE ~PutRing(b)
      BY <1>3, <3>2 DEF Quiet, Call, Alloc, AllocFails, Wait, Finish
    <3> QED
      BY <3>1, <3>2
  <2> QED
    BY <1>1, <1>3, <2>1, <2>2, QuietIsSent, KeepAvail
<1>4. ASSUME NEW b \in Bufs, Publish(b) PROVE AvailInv'
  <2> DEFINE z == avail.idx % NUM
  <2>1. /\ avail' = [avail EXCEPT !.idx = Uint16(avail.idx + 1)]
        /\ UNCHANGED <<taken, chains, info, bdisk, idx>>
    BY <1>4 DEF Publish, driver, device
  <2>2. AvailPlaces' = AvailPlaces \cup {z} /\ z \notin AvailPlaces /\ avail'.ring = avail.ring
    BY <1>1, <1>2, <2>1, AvailIndex DEF AvailPlaces, AvailOK
  <2>3. pc[b] = "publish"
    BY <1>4 DEF Publish
  <2>4. /\ idx[b] # <<>> /\ idx[b][1] \in D /\ bdisk[b]
        /\ idx[b][1] \notin SentHeads
    BY <2>3, NotYetSent
  <2>5. avail.ring[z] = idx[b][1] /\ info[idx[b][1]].status = 255
    BY <2>3 DEF IInv, StatusInv
  <2>6. Quiet(b)
    BY <1>4 DEF Quiet
  <2>7. \A h : h \in SentHeads => h \in SentHeads'
    BY <2>6, QuietIsSent
  <2>8. idx[b][1] \in SentHeads'
    <3>1. pc'[b] = "wait"
      BY <1>1, <1>4 DEF Publish, Goto, TypeInv, TypeOK
    <3> QED
      BY <2>1, <2>4, <3>1 DEF SentHeads, Sent, Given
  <2> HIDE DEF z
  <2>9. ASSUME NEW x \in AvailPlaces'
        PROVE  /\ avail'.ring[x] \in SentHeads' /\ info'[avail'.ring[x]].status = 255
               /\ avail'.ring[x] \notin chains'
    <3>1. CASE x = z
      BY <1>1, <2>1, <2>2, <2>4, <2>5, <2>8, <3>1 DEF AvailInv
    <3>2. CASE x # z
      BY <1>1, <2>1, <2>2, <2>7, <2>9, <3>2 DEF AvailInv
    <3> QED
      BY <3>1, <3>2
  <2>10. ASSUME NEW x \in AvailPlaces', NEW y \in AvailPlaces', avail'.ring[x] = avail'.ring[y]
         PROVE  x = y
    <3>1. \A w \in AvailPlaces : avail.ring[w] # avail.ring[z]
      BY <1>1, <2>4, <2>5 DEF AvailInv
    <3>2. x \in AvailPlaces \/ x = z
      BY <2>2, <2>10
    <3>3. y \in AvailPlaces \/ y = z
      BY <2>2, <2>10
    <3> QED
      BY <1>1, <2>2, <2>10, <3>1, <3>2, <3>3 DEF AvailInv
  <2>11. \A h \in chains' : h \in SentHeads' /\ info'[h].status = 255
    BY <1>1, <2>1, <2>7 DEF AvailInv
  <2> QED
    BY <2>9, <2>10, <2>11 DEF AvailInv
<1>5. ASSUME IntrOne PROVE AvailInv'
  <2>1. info[used.ring[used_idx % NUM]].status = 0 /\ UNCHANGED <<avail, taken, chains, info>>
    BY <1>5 DEF IntrOne
  <2>2. \A h : h \in SentHeads /\ info[h].status = 255 => h \in SentHeads' /\ info'[h].status = 255
    BY <1>5, <2>1, IntrOneIsSent
  <2> QED
    BY <1>1, <2>1, <2>2, KeepAvail
<1>6. ASSUME Take PROVE AvailInv'
  <2> DEFINE z == taken % NUM
  <2>1. /\ taken # avail.idx
        /\ chains' = chains \cup {avail.ring[z]}
        /\ taken' = Uint16(taken + 1)
        /\ avail' = [avail EXCEPT !.ring[z] = None]
        /\ UNCHANGED <<info, pc, bdisk, idx>>
    BY <1>6 DEF Take, driver, call
  <2>2. z \in AvailPlaces /\ Places(Uint16(taken + 1), avail.idx) = AvailPlaces \ {z}
    BY <1>1, <2>1, FirstAvail
  <2>3. z \in D
    BY <1>1, AvailIndex
  <2> HIDE DEF z
  <2>4. avail'.idx = avail.idx /\ \A x : x # z => avail'.ring[x] = avail.ring[x]
    BY <1>2, <2>1, <2>3 DEF AvailOK
  <2>5. AvailPlaces' = AvailPlaces \ {z}
    BY <2>1, <2>2, <2>4 DEF AvailPlaces
  <2>6. \A h : (h \in SentHeads') <=> (h \in SentHeads)
    BY <2>1, SameSent
  <2>7. \A x \in AvailPlaces' : /\ avail'.ring[x] \in SentHeads' /\ info'[avail'.ring[x]].status = 255
                                /\ avail'.ring[x] \notin chains'
    BY <1>1, <2>1, <2>2, <2>4, <2>5, <2>6 DEF AvailInv
  <2>8. \A x, y \in AvailPlaces' : avail'.ring[x] = avail'.ring[y] => x = y
    BY <1>1, <2>4, <2>5 DEF AvailInv
  <2>9. \A h \in chains' : h \in SentHeads' /\ info'[h].status = 255
    BY <1>1, <2>1, <2>2, <2>6 DEF AvailInv
  <2> QED
    BY <2>7, <2>8, <2>9 DEF AvailInv
<1>7. ASSUME NEW h \in D, Transfer(h) PROVE AvailInv'
  <2>1. PICK b \in Bufs : Transfers(b, h)
    BY <1>1, <1>7, TransferIs
  <2>2. chains' = chains \ {h} /\ UNCHANGED <<taken, avail, pc, bdisk, idx>>
    BY <1>7 DEF Transfer, call
  <2>3. AvailPlaces' = AvailPlaces
    BY <2>2 DEF AvailPlaces, Places, Pending
  <2>4. \A g : (g \in SentHeads') <=> (g \in SentHeads)
    BY <2>2, SameSent
  <2>5. \A g : g \in SentHeads /\ g # h => info'[g] = info[g]
    BY <1>1, <2>1, SentOwner DEF Transfers
  <2>6. h \in chains
    BY <2>1 DEF Transfers
  <2>7. \A x \in AvailPlaces' : /\ avail'.ring[x] \in SentHeads' /\ info'[avail'.ring[x]].status = 255
                                /\ avail'.ring[x] \notin chains'
    BY <1>1, <2>2, <2>3, <2>4, <2>5, <2>6 DEF AvailInv
  <2>8. \A x, y \in AvailPlaces' : avail'.ring[x] = avail'.ring[y] => x = y
    BY <1>1, <2>2, <2>3 DEF AvailInv
  <2>9. \A g \in chains' : g \in SentHeads' /\ info'[g].status = 255
    BY <1>1, <2>2, <2>4, <2>5 DEF AvailInv
  <2> QED
    BY <2>7, <2>8, <2>9 DEF AvailInv
<1>8. ASSUME UNCHANGED <<avail, taken, chains, info, pc, bdisk, idx>> PROVE AvailInv'
  BY <1>1, <1>8, SameSent, KeepAvail
<1> QED
  BY <1>3, <1>4, <1>5, <1>6, <1>7, <1>8
     DEF Next, RwStep, IntrStep, DeviceStep, Quiet, IntrStart, IntrEnd, PutUsed, Interrupt, vars,
         device, driver, call

(* The places of the used ring. *)
LEMMA UsedIndex ==
  ASSUME TypeInv, RoomInv
  PROVE  /\ used.idx \in Index /\ used_idx \in Index /\ used.idx % NUM \in D
         /\ Count(used_idx, used.idx) \in Index /\ Count(used_idx, used.idx) <= NUM
         /\ used.idx % NUM \notin UsedPlaces
         /\ Places(used_idx, Uint16(used.idx + 1)) = UsedPlaces \cup {used.idx % NUM}
         /\ Count(used_idx, Uint16(used.idx + 1)) = Count(used_idx, used.idx) + 1
<1>1. used.idx \in Index /\ used_idx \in Index
  BY DEF TypeInv, TypeOK, Index
<1>2. used.idx \in Nat
  BY <1>1 DEF Index
<1>3. PICK n \in Index : n = Count(used_idx, used.idx) /\ n <= NUM - 2
  BY <1>1, CountIs DEF RoomInv
<1>4. n <= NUM /\ n < NUM - 1
  BY <1>3, Sizes DEF Index
<1> QED
  BY <1>1, <1>2, <1>3, <1>4, PlaceType, PutPlace DEF UsedPlaces

LEMMA KeepUsed ==
  ASSUME UsedInv, used' = used, used_idx' = used_idx, finished' = finished,
         \A h : h \in SentHeads /\ info[h].status = 0 => h \in SentHeads' /\ info'[h].status = 0
  PROVE  UsedInv'
<1>1. UsedPlaces' = UsedPlaces
  BY DEF UsedPlaces, Places, Pending
<1> QED
  BY <1>1 DEF UsedInv

LEMMA NextUsed == IInv /\ [Next]_vars => UsedInv'
<1> SUFFICES ASSUME IInv, [Next]_vars PROVE UsedInv'
  OBVIOUS
<1>1. TypeInv /\ CallInv /\ ChainInv /\ OwnInv /\ RoomInv /\ AvailInv /\ UsedInv
  BY DEF IInv
<1>2. UsedOK
  BY <1>1, TypeParts
<1>3. ASSUME NEW b \in Bufs, Quiet(b) PROVE UsedInv'
  <2>1. used' = used /\ used_idx' = used_idx /\ finished' = finished
    BY <1>3 DEF Quiet, Call, Alloc, AllocFails, PutRing, Publish, Wait, Finish, device, driver
  <2> QED
    BY <1>1, <1>3, <2>1, QuietIsSent, KeepUsed
<1>4. ASSUME IntrOne PROVE UsedInv'
  <2> DEFINE z == used_idx % NUM
  <2>1. /\ used_idx # used.idx
        /\ used_idx' = Uint16(used_idx + 1)
        /\ used' = [used EXCEPT !.ring[z] = None]
        /\ UNCHANGED <<info, finished>>
    BY <1>4 DEF IntrOne
  <2>2. z \in UsedPlaces /\ z \in D /\ Places(Uint16(used_idx + 1), used.idx) = UsedPlaces \ {z}
    BY <1>1, <2>1, FirstUsed
  <2>3. \A h : h \in SentHeads /\ h # used.ring[z] => h \in SentHeads'
    BY <1>4, IntrOneIsSent
  <2> HIDE DEF z
  <2>4. used'.idx = used.idx /\ \A x : x # z => used'.ring[x] = used.ring[x]
    BY <1>2, <2>1, <2>2 DEF UsedOK
  <2>5. UsedPlaces' = UsedPlaces \ {z}
    BY <2>1, <2>2, <2>4 DEF UsedPlaces
  <2>6. ASSUME NEW x \in UsedPlaces'
        PROVE  /\ used'.ring[x] \in SentHeads' /\ info'[used'.ring[x]].status = 0
               /\ used'.ring[x] \notin finished'
    <3>1. x \in UsedPlaces /\ x # z /\ used'.ring[x] = used.ring[x]
      BY <2>4, <2>5, <2>6
    <3>2. used.ring[x] # used.ring[z]
      BY <1>1, <2>2, <3>1 DEF UsedInv
    <3> QED
      BY <1>1, <2>1, <2>3, <3>1, <3>2 DEF UsedInv
  <2>7. \A x, y \in UsedPlaces' : used'.ring[x] = used'.ring[y] => x = y
    BY <1>1, <2>4, <2>5 DEF UsedInv
  <2>8. \A h \in finished' : h \in SentHeads' /\ info'[h].status = 0
    BY <1>1, <2>1, <2>2, <2>3 DEF UsedInv
  <2> QED
    BY <2>6, <2>7, <2>8 DEF UsedInv
<1>5. ASSUME NEW h \in D, Transfer(h) PROVE UsedInv'
  <2>1. PICK b \in Bufs : Transfers(b, h)
    BY <1>1, <1>5, TransferIs
  <2>2. finished' = finished \cup {h} /\ UNCHANGED <<used, used_idx, pc, bdisk, idx>>
    BY <1>5 DEF Transfer, call
  <2>3. UsedPlaces' = UsedPlaces
    BY <2>2 DEF UsedPlaces, Places, Pending
  <2>4. \A g : (g \in SentHeads') <=> (g \in SentHeads)
    BY <2>2, SameSent
  <2>5. \A g : g \in SentHeads /\ g # h => info'[g] = info[g]
    BY <1>1, <2>1, SentOwner DEF Transfers
  <2>6. h \in SentHeads /\ info[h].status = 255 /\ info'[h].status = 0
    BY <1>1, <2>1 DEF Transfers, AvailInv
  <2>7. \A g \in finished' : g \in SentHeads' /\ info'[g].status = 0
    BY <1>1, <2>2, <2>4, <2>5, <2>6 DEF UsedInv
  <2>8. \A x \in UsedPlaces' : /\ used'.ring[x] \in SentHeads' /\ info'[used'.ring[x]].status = 0
                               /\ used'.ring[x] \notin finished'
    BY <1>1, <2>2, <2>3, <2>4, <2>5, <2>6 DEF UsedInv
  <2>9. \A x, y \in UsedPlaces' : used'.ring[x] = used'.ring[y] => x = y
    BY <1>1, <2>2, <2>3 DEF UsedInv
  <2> QED
    BY <2>7, <2>8, <2>9 DEF UsedInv
<1>6. ASSUME NEW h \in D, PutUsed(h) PROVE UsedInv'
  <2> DEFINE z == used.idx % NUM
  <2>1. /\ h \in finished
        /\ used' = [idx |-> Uint16(used.idx + 1), ring |-> [used.ring EXCEPT ![z] = h]]
        /\ finished' = finished \ {h}
        /\ UNCHANGED <<used_idx, info, pc, bdisk, idx>>
    BY <1>6 DEF PutUsed, driver, call
  <2>2. z \in D /\ z \notin UsedPlaces
        /\ Places(used_idx, Uint16(used.idx + 1)) = UsedPlaces \cup {z}
    BY <1>1, UsedIndex
  <2> HIDE DEF z
  <2>3. /\ used'.idx = Uint16(used.idx + 1) /\ used'.ring[z] = h
        /\ \A x : x # z => used'.ring[x] = used.ring[x]
    BY <1>2, <2>1, <2>2 DEF UsedOK
  <2>4. UsedPlaces' = UsedPlaces \cup {z}
    BY <2>1, <2>2, <2>3 DEF UsedPlaces
  <2>5. \A g : (g \in SentHeads') <=> (g \in SentHeads)
    BY <2>1, SameSent
  <2>6. \A x \in UsedPlaces : used'.ring[x] = used.ring[x] /\ used.ring[x] # h
    BY <1>1, <2>1, <2>2, <2>3 DEF UsedInv
  <2>7. ASSUME NEW x \in UsedPlaces'
        PROVE  /\ used'.ring[x] \in SentHeads' /\ info'[used'.ring[x]].status = 0
               /\ used'.ring[x] \notin finished'
    <3>1. CASE x = z
      BY <1>1, <2>1, <2>3, <2>5, <3>1 DEF UsedInv
    <3>2. CASE x # z
      BY <1>1, <2>1, <2>4, <2>5, <2>6, <2>7, <3>2 DEF UsedInv
    <3> QED
      BY <3>1, <3>2
  <2>8. ASSUME NEW x \in UsedPlaces', NEW y \in UsedPlaces', used'.ring[x] = used'.ring[y]
        PROVE  x = y
    <3>1. x \in UsedPlaces \/ x = z
      BY <2>4, <2>8
    <3>2. y \in UsedPlaces \/ y = z
      BY <2>4, <2>8
    <3> QED
      BY <1>1, <2>3, <2>6, <2>8, <3>1, <3>2 DEF UsedInv
  <2>9. \A g \in finished' : g \in SentHeads' /\ info'[g].status = 0
    BY <1>1, <2>1, <2>5 DEF UsedInv
  <2> QED
    BY <2>7, <2>8, <2>9 DEF UsedInv
<1>7. ASSUME UNCHANGED <<used, used_idx, finished, info, pc, bdisk, idx>> PROVE UsedInv'
  BY <1>1, <1>7, SameSent, KeepUsed
<1> QED
  BY <1>3, <1>4, <1>5, <1>6, <1>7
     DEF Next, RwStep, IntrStep, DeviceStep, Quiet, IntrStart, IntrEnd, Take, Interrupt, vars,
         device, driver, call

(* Nothing the device has is forgotten. *)
LEMMA MovesOn ==
  ASSUME IInv, [Next]_vars, NEW h \in Placed, IntrOne => h # used.ring[used_idx % NUM]
  PROVE  h \in Placed'
<1>1. TypeInv /\ RoomInv /\ AvailOK /\ UsedOK /\ h \in D
  BY TypeParts DEF IInv, Placed
<1>2. ASSUME NEW b \in Bufs, PutRing(b) \/ Publish(b) PROVE h \in Placed'
  <2>1. UNCHANGED <<chains, finished, used, used_idx, taken>>
    BY <1>2 DEF PutRing, Publish, driver, device
  <2>2. UsedPlaces' = UsedPlaces
    BY <2>1 DEF UsedPlaces, Places, Pending
  <2>3. AvailPlaces \subseteq AvailPlaces'
    <3>1. CASE PutRing(b)
      <4>1. avail'.idx = avail.idx
        BY <1>1, <3>1 DEF PutRing, AvailOK
      <4> QED
        BY <2>1, <4>1 DEF AvailPlaces, Places, Pending
    <3>2. CASE Publish(b)
      <4>1. avail'.idx = Uint16(avail.idx + 1)
        BY <1>1, <3>2 DEF Publish, AvailOK
      <4> QED
        BY <1>1, <2>1, <4>1, AvailIndex DEF AvailPlaces
    <3> QED
      BY <1>2, <3>1, <3>2
  <2>4. \A x \in AvailPlaces : avail'.ring[x] = avail.ring[x]
    <3>1. CASE PutRing(b)
      <4>1. avail' = [avail EXCEPT !.ring[avail.idx % NUM] = idx[b][1]]
        BY <3>1 DEF PutRing
      <4> QED
        BY <1>1, <4>1, AvailIndex DEF AvailOK
    <3>2. CASE Publish(b)
      BY <1>1, <3>2 DEF Publish, AvailOK
    <3> QED
      BY <1>2, <3>1, <3>2
  <2> QED
    BY <1>1, <2>1, <2>2, <2>3, <2>4 DEF Placed
<1>3. ASSUME IntrOne PROVE h \in Placed'
  <2> DEFINE z == used_idx % NUM
  <2>1. /\ used_idx # used.idx
        /\ used_idx' = Uint16(used_idx + 1)
        /\ used' = [used EXCEPT !.ring[z] = None]
        /\ UNCHANGED <<chains, finished, avail, taken>>
    BY <1>3 DEF IntrOne
  <2>2. z \in D /\ Places(Uint16(used_idx + 1), used.idx) = UsedPlaces \ {z}
    BY <1>1, <2>1, FirstUsed
  <2>3. h # used.ring[z]
    BY <1>3
  <2> HIDE DEF z
  <2>4. used'.idx = used.idx /\ \A x : x # z => used'.ring[x] = used.ring[x]
    BY <1>1, <2>1, <2>2 DEF UsedOK
  <2>5. UsedPlaces' = UsedPlaces \ {z}
    BY <2>1, <2>2, <2>4 DEF UsedPlaces
  <2>6. AvailPlaces' = AvailPlaces
    BY <2>1 DEF AvailPlaces, Places, Pending
  <2> QED
    BY <1>1, <2>1, <2>3, <2>4, <2>5, <2>6 DEF Placed
<1>4. ASSUME Take PROVE h \in Placed'
  <2> DEFINE z == taken % NUM
  <2>1. /\ taken # avail.idx
        /\ chains' = chains \cup {avail.ring[z]}
        /\ taken' = Uint16(taken + 1)
        /\ avail' = [avail EXCEPT !.ring[z] = None]
        /\ UNCHANGED <<finished, used, used_idx>>
    BY <1>4 DEF Take, driver
  <2>2. Places(Uint16(taken + 1), avail.idx) = AvailPlaces \ {z} /\ z \in D
    BY <1>1, <2>1, FirstAvail, AvailIndex
  <2> HIDE DEF z
  <2>3. avail'.idx = avail.idx /\ \A x : x # z => avail'.ring[x] = avail.ring[x]
    BY <1>1, <2>1, <2>2 DEF AvailOK
  <2>4. AvailPlaces' = AvailPlaces \ {z}
    BY <2>1, <2>2, <2>3 DEF AvailPlaces
  <2>5. UsedPlaces' = UsedPlaces
    BY <2>1 DEF UsedPlaces, Places, Pending
  <2> QED
    BY <1>1, <2>1, <2>3, <2>4, <2>5 DEF Placed
<1>5. ASSUME NEW g \in D, Transfer(g) PROVE h \in Placed'
  <2>1. /\ chains' = chains \ {g} /\ finished' = finished \cup {g}
        /\ UNCHANGED <<avail, taken, used, used_idx>>
    BY <1>5 DEF Transfer
  <2>2. AvailPlaces' = AvailPlaces /\ UsedPlaces' = UsedPlaces
    BY <2>1 DEF AvailPlaces, UsedPlaces, Places, Pending
  <2> QED
    BY <1>1, <2>1, <2>2 DEF Placed
<1>6. ASSUME NEW g \in D, PutUsed(g) PROVE h \in Placed'
  <2> DEFINE z == used.idx % NUM
  <2>1. /\ used' = [idx |-> Uint16(used.idx + 1), ring |-> [used.ring EXCEPT ![z] = g]]
        /\ finished' = finished \ {g}
        /\ UNCHANGED <<chains, avail, taken, used_idx>>
    BY <1>6 DEF PutUsed, driver
  <2>2. z \in D /\ z \notin UsedPlaces
        /\ Places(used_idx, Uint16(used.idx + 1)) = UsedPlaces \cup {z}
    BY <1>1, UsedIndex
  <2> HIDE DEF z
  <2>3. /\ used'.idx = Uint16(used.idx + 1) /\ used'.ring[z] = g
        /\ \A x : x # z => used'.ring[x] = used.ring[x]
    BY <1>1, <2>1, <2>2 DEF UsedOK
  <2>4. UsedPlaces' = UsedPlaces \cup {z}
    BY <2>1, <2>2, <2>3 DEF UsedPlaces
  <2>5. AvailPlaces' = AvailPlaces
    BY <2>1 DEF AvailPlaces, Places, Pending
  <2> QED
    BY <1>1, <2>1, <2>2, <2>3, <2>4, <2>5 DEF Placed
<1>7. ASSUME UNCHANGED <<chains, finished, avail, taken, used, used_idx>> PROVE h \in Placed'
  BY <1>7 DEF Placed, AvailPlaces, UsedPlaces, Places, Pending
<1> QED
  BY <1>2, <1>3, <1>4, <1>5, <1>6, <1>7
     DEF Next, RwStep, IntrStep, DeviceStep, Call, Alloc, AllocFails, Wait, Finish, IntrStart,
         IntrEnd, Interrupt, vars, device, driver, call

LEMMA NextPlaced == IInv /\ [Next]_vars => PlacedInv'
<1> SUFFICES ASSUME IInv, [Next]_vars PROVE PlacedInv'
  OBVIOUS
<1>1. TypeInv /\ CallInv /\ ChainInv /\ OwnInv /\ RoomInv /\ UsedInv /\ PlacedInv /\ AvailOK
  BY TypeParts DEF IInv
<1>2. ASSUME NEW b \in Bufs, Quiet(b), NEW c \in Bufs, Sent(c)' PROVE idx'[c][1] \in Placed'
  <2>1. CASE Sent(c)
    <3>1. idx'[c] = idx[c] /\ idx[c][1] \in Placed
      BY <1>1, <1>2, <2>1, QuietSent DEF PlacedInv
    <3>2. ~IntrOne
      <4>1. used_idx' = used_idx
        BY <1>2 DEF Quiet, Call, Alloc, AllocFails, PutRing, Publish, Wait, Finish, driver
      <4>2. Uint16(used_idx + 1) # used_idx
        <5>1. used_idx \in Index
          BY <1>1, UsedIndex
        <5> QED
          BY <5>1, NextIndex, Sizes, NumAssumption DEF Index
      <4> QED
        BY <4>1, <4>2 DEF IntrOne
    <3> QED
      BY <3>1, <3>2, MovesOn
  <2>2. CASE ~Sent(c)
    <3>1. c = b /\ Publish(b)
      BY <1>2, <2>2, QuietSent
    <3>2. pc[b] = "publish" /\ idx' = idx /\ avail' = [avail EXCEPT !.idx = Uint16(avail.idx + 1)]
          /\ taken' = taken
      BY <3>1 DEF Publish, device
    <3>3. avail.ring[avail.idx % NUM] = idx[b][1] /\ idx[b][1] \in D
      BY <3>2, NotYetSent DEF IInv, StatusInv
    <3>4. avail'.ring = avail.ring /\ avail'.idx = Uint16(avail.idx + 1)
      BY <1>1, <3>2 DEF AvailOK
    <3>5. avail.idx % NUM \in AvailPlaces'
      BY <1>1, <3>2, <3>4, AvailIndex DEF AvailPlaces
    <3> QED
      BY <3>1, <3>2, <3>3, <3>4, <3>5 DEF Placed
  <2> QED
    BY <2>1, <2>2
<1>3. ASSUME IntrOne, NEW c \in Bufs, Sent(c)' PROVE idx'[c][1] \in Placed'
  <2>1. PICK b \in Bufs :
           /\ Sent(b) /\ idx[b] # <<>> /\ idx[b][1] = used.ring[used_idx % NUM]
           /\ bdisk' = [bdisk EXCEPT ![b] = FALSE]
           /\ pc' = [e \in Bufs |-> IF e = b /\ pc[e] = "sleepb" THEN "wait" ELSE pc[e]]
    BY <1>1, <1>3, IntrOneIs
  <2>2. c # b
    BY <1>1, <1>3, <2>1 DEF Sent, TypeInv, TypeOK
  <2>3. Sent(c) /\ idx' = idx
    BY <1>1, <1>3, <2>1, <2>2 DEF Sent, TypeInv, TypeOK, IntrOne
  <2>4. idx[c] # <<>> /\ idx[c][1] \in Placed
    BY <1>1, <2>3, SentHas DEF PlacedInv
  <2>5. idx[c][1] # idx[b][1]
    BY <1>1, <2>1, <2>2, <2>4, OwnersDiffer
  <2> QED
    BY <2>1, <2>3, <2>4, <2>5, MovesOn
<1>4. ASSUME ~IntrOne, UNCHANGED <<pc, bdisk, idx>>, NEW c \in Bufs, Sent(c)'
      PROVE  idx'[c][1] \in Placed'
  <2>1. Sent(c) /\ idx' = idx
    BY <1>4 DEF Sent
  <2> QED
    BY <1>1, <1>4, <2>1, MovesOn DEF PlacedInv
<1>5. \/ IntrOne \/ UNCHANGED <<pc, bdisk, idx>> \/ \E b \in Bufs : Quiet(b)
  BY DEF Next, RwStep, IntrStep, DeviceStep, Quiet, IntrStart, IntrEnd, Take, Transfer, PutUsed,
         Interrupt, vars, device, driver, call
<1> QED
  BY <1>2, <1>3, <1>4, <1>5 DEF PlacedInv

-----------------------------------------------------------------------------
(* The status, and the entry that is about to be published. *)
LEMMA NextStatus == IInv /\ [Next]_vars => StatusInv'
<1> SUFFICES ASSUME IInv, [Next]_vars PROVE StatusInv'
  OBVIOUS
<1>1. /\ TypeInv /\ CallInv /\ ChainInv /\ OwnInv /\ RoomInv /\ UsedInv /\ AvailInv /\ StatusInv
      /\ AvailOK /\ CallOK /\ InfoOK
  BY TypeParts DEF IInv
<1> DEFINE Good(c) ==
      /\ pc'[c] \in {"ring", "publish"} => info'[idx'[c][1]].status = 255
      /\ pc'[c] \in Given /\ ~bdisk'[c] => info'[idx'[c][1]].status = 0
      /\ pc'[c] = "publish" => avail'.ring[avail'.idx % NUM] = idx'[c][1]
<1>2. ASSUME NEW b \in Bufs, Quiet(b), NEW c \in Bufs \ {b} PROVE Good(c)
  <2>1. CASE pc'[c] \in Filled
    <3>1. pc'[c] = pc[c] /\ bdisk'[c] = bdisk[c]
      <4>1. CASE Alloc(b)
        BY <1>1, <4>1 DEF Alloc, Goto, CallOK
      <4>2. CASE AllocFails(b) \/ Finish(b)
        BY <1>1, <2>1, <4>2 DEF AllocFails, Finish, CallOK, Filled
      <4>3. CASE PutRing(b) \/ Publish(b) \/ Wait(b)
        BY <1>1, <4>3 DEF PutRing, Publish, Wait, Goto, CallOK, driver
      <4>4. ASSUME NEW t \in {"in", "out"}, NEW s \in Blocks, NEW v \in Contents(t), Call(b, t, s, v)
            PROVE  pc'[c] = pc[c] /\ bdisk'[c] = bdisk[c]
        BY <1>1, <4>4 DEF Call, Goto, CallOK, driver
      <4> QED
        BY <1>2, <4>1, <4>2, <4>3, <4>4 DEF Quiet
    <3>2. idx[c] # <<>>
      BY <1>1, <2>1, <3>1 DEF CallInv
    <3>3. idx'[c] = idx[c] /\ info'[idx[c][1]].status = info[idx[c][1]].status
      BY <1>2, <3>2, QuietSent
    <3>4. pc[c] = "publish" => avail' = avail
      <4>1. pc[c] = "publish" => lock = c /\ ~PutRing(b) /\ ~Publish(b)
        BY <1>1, <1>2 DEF CallInv, PutRing, Publish
      <4> QED
        BY <1>2, <4>1 DEF Quiet, Call, Alloc, AllocFails, Wait, Finish
    <3> QED
      BY <1>1, <3>1, <3>3, <3>4 DEF StatusInv
  <2>2. CASE pc'[c] \notin Filled
    BY <2>2 DEF Filled, Given
  <2> QED
    BY <2>1, <2>2
<1>3. ASSUME NEW b \in Bufs, Quiet(b) PROVE Good(b)
  <2>1. CASE pc'[b] \notin Filled
    BY <2>1 DEF Filled, Given
  <2>2. CASE Alloc(b)
    <3>1. PICK i \in D, j \in D, k \in D : AllocAt(b, i, j, k)
      BY <1>1, <2>2, AllocIs
    <3>2. idx'[b] = <<i, j, k>> /\ info'[i].status = 255
      BY <1>1, <3>1 DEF AllocAt, CallOK, InfoOK
    <3>3. pc'[b] = "ring"
      BY <1>1, <2>2 DEF Alloc, Goto, CallOK
    <3> QED
      BY <3>2, <3>3 DEF Given
  <2>3. CASE PutRing(b)
    <3>1. /\ pc[b] = "ring" /\ pc'[b] = "publish" /\ UNCHANGED <<idx, info>>
          /\ avail' = [avail EXCEPT !.ring[avail.idx % NUM] = idx[b][1]]
      BY <1>1, <2>3 DEF PutRing, Goto, CallOK, driver
    <3>2. avail.idx % NUM \in D
      BY <1>1, AvailIndex
    <3>3. avail'.idx = avail.idx /\ avail'.ring[avail.idx % NUM] = idx[b][1]
      BY <1>1, <3>1, <3>2 DEF AvailOK
    <3> QED
      BY <1>1, <3>1, <3>3 DEF StatusInv, Given
  <2>4. CASE Publish(b)
    <3>1. pc[b] = "publish" /\ pc'[b] = "wait" /\ bdisk' = bdisk
      BY <1>1, <2>4 DEF Publish, Goto, CallOK, driver
    <3>2. bdisk[b]
      BY <1>1, <3>1 DEF CallInv
    <3> QED
      BY <3>1, <3>2
  <2>5. CASE Wait(b)
    BY <1>1, <2>5 DEF Wait, Goto, CallOK, driver
  <2>6. \/ pc'[b] \notin Filled \/ Alloc(b) \/ PutRing(b) \/ Publish(b) \/ Wait(b)
    BY <1>1, <1>3 DEF Quiet, Call, AllocFails, Finish, Goto, CallOK, Filled
  <2> QED
    BY <2>1, <2>2, <2>3, <2>4, <2>5, <2>6
<1>4. ASSUME IntrOne, NEW c \in Bufs PROVE Good(c)
  <2>1. PICK b \in Bufs :
           /\ Sent(b) /\ info[idx[b][1]].status = 0
           /\ bdisk' = [bdisk EXCEPT ![b] = FALSE]
           /\ pc' = [e \in Bufs |-> IF e = b /\ pc[e] = "sleepb" THEN "wait" ELSE pc[e]]
    BY <1>1, <1>4, IntrOneIs
  <2>2. UNCHANGED <<idx, info, avail>>
    BY <1>4 DEF IntrOne
  <2>3. CASE c = b
    BY <1>1, <2>1, <2>2, <2>3 DEF Sent, Given
  <2>4. CASE c # b
    <3>1. pc'[c] = pc[c] /\ bdisk'[c] = bdisk[c]
      BY <1>1, <2>1, <2>4 DEF CallOK
    <3> QED
      BY <1>1, <2>2, <3>1 DEF StatusInv
  <2> QED
    BY <2>3, <2>4
<1>5. ASSUME Take, NEW c \in Bufs PROVE Good(c)
  <2> DEFINE z == taken % NUM
             y == avail.idx % NUM
  <2>1. /\ taken # avail.idx
        /\ avail' = [avail EXCEPT !.ring[z] = None]
        /\ UNCHANGED <<pc, bdisk, idx, info>>
    BY <1>5 DEF Take, driver, call
  <2>2. z \in AvailPlaces /\ y \notin AvailPlaces /\ z \in D
    BY <1>1, <2>1, FirstAvail, AvailIndex
  <2>3. avail'.idx = avail.idx
    BY <1>1, <2>1 DEF AvailOK
  <2>4. avail'.idx % NUM = y
    BY <2>3
  <2> HIDE DEF y, z
  <2>5. avail'.ring[y] = avail.ring[y]
    BY <1>1, <2>1, <2>2 DEF AvailOK
  <2>6. pc[c] = "publish" => avail.ring[y] = idx[c][1]
    BY <1>1 DEF StatusInv, y
  <2> QED
    BY <1>1, <2>1, <2>4, <2>5, <2>6 DEF StatusInv
<1>6. ASSUME NEW h \in D, Transfer(h), NEW c \in Bufs PROVE Good(c)
  <2>1. PICK b \in Bufs : Transfers(b, h)
    BY <1>1, <1>6, TransferIs
  <2>2. UNCHANGED <<pc, bdisk, idx, avail>>
    BY <1>6 DEF Transfer, call
  <2>3. pc[c] \in {"ring", "publish"} => idx[c][1] # h /\ idx[c][1] \in D
    <3>1. h \in SentHeads
      BY <1>1, <2>1 DEF Transfers, AvailInv
    <3> QED
      BY <3>1, NotYetSent
  <2>4. pc[c] \in Given => idx[c][1] \in D
    BY <1>1, ChainIs DEF CallInv, Given, Filled
  <2>5. \A d \in D : d # h => info'[d] = info[d]
    BY <2>1 DEF Transfers
  <2>6. info'[h].status = 0
    BY <2>1 DEF Transfers
  <2> QED
    BY <1>1, <2>2, <2>3, <2>4, <2>5, <2>6 DEF StatusInv
<1>7. ASSUME UNCHANGED <<pc, bdisk, idx, avail, info>>, NEW c \in Bufs PROVE Good(c)
  BY <1>1, <1>7 DEF StatusInv
<1> HIDE DEF Good
<1>8. \A c \in Bufs : Good(c)
  BY <1>2, <1>3, <1>4, <1>5, <1>6, <1>7
     DEF Next, RwStep, IntrStep, DeviceStep, Quiet, IntrStart, IntrEnd, PutUsed,
         Interrupt, vars, device, driver, call
<1> QED
  BY <1>8 DEF Good, StatusInv
-----------------------------------------------------------------------------
(* The rings have room: what is in one, and what comes, have different     *)
(* first descriptors of three.                                             *)
LEMMA NextRoom == IInv /\ [Next]_vars => RoomInv'
<1> SUFFICES ASSUME IInv, [Next]_vars PROVE RoomInv'
  OBVIOUS
<1>1. /\ TypeInv /\ CallInv /\ ChainInv /\ AvailInv /\ UsedInv /\ RoomInv /\ StatusInv
      /\ AvailOK /\ UsedOK
  BY TypeParts DEF IInv
<1>2. SentHeads \subseteq Heads
  BY <1>1, SentOwner
<1> DEFINE AvailRoom == Count(taken, avail.idx) <= NUM - 2
           UsedRoom == Count(used_idx, used.idx) <= NUM - 2
<1>3. AvailRoom'
  <2>1. ASSUME NEW b \in Bufs, Publish(b) PROVE AvailRoom'
    <3>1. pc[b] = "publish" /\ avail'.idx = Uint16(avail.idx + 1) /\ taken' = taken
      BY <1>1, <2>1 DEF Publish, device, AvailOK
    <3>2. PICK h \in Heads : h = idx[b][1] /\ h \notin SentHeads
      BY <3>1, NotYetSent
    <3>3. /\ \A x \in AvailPlaces : avail.ring[x] \in Heads \ {h}
          /\ \A x, y \in AvailPlaces : avail.ring[x] = avail.ring[y] => x = y
      BY <1>1, <1>2, <3>2 DEF AvailInv
    <3>4. Count(taken, avail.idx) <= NUM - 3
      BY <1>1, <3>3, AvailIndex, FewPlaces DEF AvailPlaces
    <3>5. Count(taken, Uint16(avail.idx + 1)) = Count(taken, avail.idx) + 1
      BY <1>1, AvailIndex
    <3>6. PICK n \in Index : n = Count(taken, avail.idx)
      BY <1>1, AvailIndex
    <3>7. n + 1 <= NUM - 2
      BY <3>4, <3>6, Sizes DEF Index
    <3> QED
      BY <3>1, <3>5, <3>6, <3>7
  <2>2. CASE Take
    <3>1. taken # avail.idx /\ taken' = Uint16(taken + 1) /\ avail'.idx = avail.idx
      BY <1>1, <2>2 DEF Take, AvailOK
    <3> QED
      BY <1>1, <3>1, FirstAvail
  <2>3. ASSUME NEW b \in Bufs, PutRing(b) PROVE AvailRoom'
    <3>1. avail'.idx = avail.idx /\ taken' = taken
      BY <1>1, <2>3 DEF PutRing, device, AvailOK
    <3> QED
      BY <1>1, <3>1 DEF RoomInv
  <2>4. CASE UNCHANGED <<avail, taken>>
    BY <1>1, <2>4 DEF RoomInv
  <2> HIDE DEF AvailRoom
  <2> QED
    BY <2>1, <2>2, <2>3, <2>4
       DEF Next, RwStep, IntrStep, DeviceStep, Call, Alloc, AllocFails, Wait, Finish, IntrStart,
           IntrOne, IntrEnd, Transfer, PutUsed, Interrupt, vars, device
<1>4. UsedRoom'
  <2>1. ASSUME NEW h \in D, PutUsed(h) PROVE UsedRoom'
    <3>1. h \in finished /\ used'.idx = Uint16(used.idx + 1) /\ used_idx' = used_idx
      BY <2>1 DEF PutUsed, driver
    <3>2. h \in Heads
      BY <1>1, <1>2, <3>1 DEF UsedInv
    <3>3. /\ \A x \in UsedPlaces : used.ring[x] \in Heads \ {h}
          /\ \A x, y \in UsedPlaces : used.ring[x] = used.ring[y] => x = y
      BY <1>1, <1>2, <3>1 DEF UsedInv
    <3>4. Count(used_idx, used.idx) <= NUM - 3
      BY <1>1, <3>2, <3>3, UsedIndex, FewPlaces DEF UsedPlaces
    <3>5. Count(used_idx, Uint16(used.idx + 1)) = Count(used_idx, used.idx) + 1
      BY <1>1, UsedIndex
    <3>6. PICK n \in Index : n = Count(used_idx, used.idx)
      BY <1>1, UsedIndex
    <3>7. n + 1 <= NUM - 2
      BY <3>4, <3>6, Sizes DEF Index
    <3> QED
      BY <3>1, <3>5, <3>6, <3>7
  <2>2. CASE IntrOne
    <3>1. used_idx # used.idx /\ used_idx' = Uint16(used_idx + 1) /\ used'.idx = used.idx
      BY <1>1, <2>2 DEF IntrOne, UsedOK
    <3> QED
      BY <1>1, <3>1, FirstUsed
  <2>3. CASE UNCHANGED <<used, used_idx>>
    BY <1>1, <2>3 DEF RoomInv
  <2> HIDE DEF UsedRoom
  <2> QED
    BY <2>1, <2>2, <2>3
       DEF Next, RwStep, IntrStep, DeviceStep, Call, Alloc, AllocFails, PutRing, Publish, Wait,
           Finish, IntrStart, IntrEnd, Take, Transfer, Interrupt, vars, driver, device
<1> QED
  BY <1>3, <1>4 DEF RoomInv

(* The handler comes for what is in the used ring, and who lacks           *)
(* descriptors sleeps until some are given back.                           *)
LEMMA FewerAreFree ==
  ASSUME NEW S, NEW T, S \subseteq T, T \subseteq D, Cardinality(T) < 3
  PROVE  Cardinality(S) < 3
<1>1. IsFiniteSet(D)
  <2>1. 0 \in Int /\ NUM - 1 \in Int
    BY Sizes
  <2> QED
    BY <2>1, FS_Interval DEF D
<1>2. IsFiniteSet(T)
  BY <1>1, FS_Subset
<1>3. IsFiniteSet(S) /\ Cardinality(S) <= Cardinality(T)
  BY <1>2, FS_Subset
<1>4. Cardinality(S) \in Nat /\ Cardinality(T) \in Nat
  BY <1>2, <1>3, FS_CardinalityType
<1> QED
  BY <1>3, <1>4

LEMMA NextWake == IInv /\ [Next]_vars => WakeInv'
<1> SUFFICES ASSUME IInv, [Next]_vars PROVE WakeInv'
  OBVIOUS
<1>1. /\ TypeInv /\ CallInv /\ ChainInv /\ OwnInv /\ LockInv /\ RoomInv /\ UsedInv /\ WakeInv
      /\ CallOK /\ UsedOK /\ DriverOK
  BY TypeParts DEF IInv
<1>2. used_idx' # used'.idx => intr' \/ notify' \/ isr'
  <2>1. CASE IntrOne
    BY <2>1 DEF IntrOne
  <2>2. CASE IntrStart \/ IntrEnd
    BY <2>2 DEF IntrStart, IntrEnd, driver, device
  <2>3. CASE Interrupt
    BY <2>3 DEF Interrupt
  <2>4. ASSUME NEW h \in D, PutUsed(h) PROVE used_idx' # used'.idx => intr' \/ notify' \/ isr'
    BY <2>4 DEF PutUsed
  <2>5. CASE UNCHANGED <<used, used_idx, intr, notify, isr>>
    BY <1>1, <2>5 DEF WakeInv
  <2> QED
    BY <2>1, <2>2, <2>3, <2>4, <2>5
       DEF Next, RwStep, IntrStep, DeviceStep, Call, Alloc, AllocFails, PutRing, Publish, Wait,
           Finish, Take, Transfer, vars, driver, device
<1>3. ASSUME NEW c \in Bufs, pc'[c] = "sleepdesc" PROVE Cardinality(FreeDescs') < 3
  <2>1. ASSUME NEW b \in Bufs, Alloc(b) PROVE Cardinality(FreeDescs') < 3
    <3>1. PICK i \in D, j \in D, k \in D : AllocAt(b, i, j, k)
      BY <1>1, <2>1, AllocIs
    <3>2. FreeDescs' \subseteq FreeDescs /\ FreeDescs \subseteq D
      BY <3>1 DEF AllocAt, FreeDescs
    <3>3. pc[c] = "sleepdesc"
      BY <1>1, <1>3, <2>1 DEF Alloc, Goto, CallOK
    <3> QED
      BY <1>1, <3>2, <3>3, FewerAreFree DEF WakeInv
  <2>2. ASSUME NEW b \in Bufs, AllocFails(b) PROVE Cardinality(FreeDescs') < 3
    BY <2>2 DEF AllocFails, FreeDescs
  <2>3. ASSUME NEW b \in Bufs, Finish(b) PROVE FALSE
    BY <1>1, <1>3, <2>3 DEF Finish, CallOK
  <2>4. ASSUME NEW b \in Bufs, NEW t \in {"in", "out"}, NEW s \in Blocks, NEW v \in Contents(t),
               Call(b, t, s, v)
        PROVE  Cardinality(FreeDescs') < 3
    <3>1. pc[c] = "sleepdesc" /\ free' = free
      BY <1>1, <1>3, <2>4 DEF Call, Goto, CallOK, driver
    <3> QED
      BY <1>1, <3>1 DEF WakeInv, FreeDescs
  <2>5. ASSUME NEW b \in Bufs, PutRing(b) \/ Publish(b) \/ Wait(b) PROVE Cardinality(FreeDescs') < 3
    <3>1. pc[c] = "sleepdesc" /\ free' = free
      BY <1>1, <1>3, <2>5 DEF PutRing, Publish, Wait, Goto, CallOK, driver
    <3> QED
      BY <1>1, <3>1 DEF WakeInv, FreeDescs
  <2>6. CASE IntrOne
    <3>1. pc[c] = "sleepdesc" /\ free' = free
      BY <1>1, <1>3, <2>6 DEF IntrOne
    <3> QED
      BY <1>1, <3>1 DEF WakeInv, FreeDescs
  <2>7. CASE UNCHANGED <<pc, free>>
    BY <1>1, <1>3, <2>7 DEF WakeInv, FreeDescs
  <2> QED
    BY <2>1, <2>2, <2>3, <2>4, <2>5, <2>6, <2>7
       DEF Next, RwStep, IntrStep, DeviceStep, IntrStart, IntrEnd, Take, Transfer, PutUsed,
           Interrupt, vars, driver, device, call
<1> QED
  BY <1>2, <1>3 DEF WakeInv

-----------------------------------------------------------------------------
LEMMA InitInv == Init => IInv
<1> SUFFICES ASSUME Init PROVE IInv
  OBVIOUS
<1>1. TypeInv
  BY InitType
<1>2. AvailPlaces = {} /\ UsedPlaces = {} /\ RoomInv
  <2>1. 0 \in Index
    BY Sizes DEF Index
  <2>2. Count(0, 0) = 0 /\ Pending(0, 0) = {}
    <3>1. Count(0, 0) = 0 /\ Pending(0, 0) = 0..(Count(0, 0) - 1)
      BY <2>1, CountIs
    <3> QED
      BY <3>1
  <2>3. taken = 0 /\ used_idx = 0 /\ avail.idx = 0 /\ used.idx = 0
    BY DEF Init
  <2> QED
    BY <2>2, <2>3, Sizes DEF AvailPlaces, UsedPlaces, Places, RoomInv
<1>3. /\ chains = {} /\ finished = {} /\ ~intr /\ lock = None /\ used_idx = used.idx
      /\ \A b \in Bufs : pc[b] = "idle" /\ idx[b] = <<>> /\ want[b] = None /\ ~bdisk[b]
      /\ \A d \in D : free[d]
  BY DEF Init
<1>4. CallInv /\ LockInv
  BY <1>3, NoneAssumption DEF CallInv, LockInv, Filled
<1>5. ChainInv /\ OwnInv
  BY <1>3 DEF ChainInv, OwnInv, Three
<1>6. AvailInv /\ UsedInv /\ PlacedInv
  BY <1>2, <1>3 DEF AvailInv, UsedInv, PlacedInv, Sent, Given
<1>7. StatusInv /\ WakeInv
  BY <1>3 DEF StatusInv, WakeInv, Given
<1> QED
  BY <1>1, <1>2, <1>4, <1>5, <1>6, <1>7 DEF IInv

LEMMA NextInv == IInv /\ [Next]_vars => IInv'
<1> SUFFICES ASSUME IInv, [Next]_vars PROVE IInv'
  OBVIOUS
<1>1. TypeInv' /\ LockInv' /\ CallInv' /\ ChainInv' /\ OwnInv'
  BY NextType, NextLock, NextCall, NextChain, NextOwn
<1>2. AvailInv' /\ UsedInv' /\ PlacedInv' /\ StatusInv' /\ RoomInv' /\ WakeInv'
  BY NextAvail, NextUsed, NextPlaced, NextStatus, NextRoom, NextWake
<1> QED
  BY <1>1, <1>2 DEF IInv

(* The inductive invariant holds throughout.                               *)
THEOREM Invariance == Spec => []IInv
BY InitInv, NextInv, PTL DEF Spec

(* Every variable keeps to the values it can have.                         *)
THEOREM TypeCorrect == Spec => []TypeOK
<1>1. IInv => TypeOK
  BY DEF IInv, TypeInv
<1> QED
  BY <1>1, Invariance, PTL

(* A descriptor in use belongs to the chain of one request under way, and  *)
(* what free_chain() follows in the descriptors is what alloc3_desc() took: *)
(* no descriptor leaks or is given back twice.                             *)
THEOREM OwnedDescriptors == Spec => []DescriptorsAreOwned
<1>1. ASSUME IInv PROVE DescriptorsAreOwned
  <2>1. TypeInv /\ ChainInv /\ OwnInv
    BY <1>1 DEF IInv
  <2>2. ASSUME NEW b \in Bufs
        PROVE  /\ Mine(b) = Three(b) /\ Three(b) \subseteq D
               /\ idx[b] # <<>> => Mine(b) = {idx[b][1], idx[b][2], idx[b][3]}
    <3>1. CASE idx[b] = <<>>
      BY <3>1 DEF Mine, Three
    <3>2. CASE idx[b] # <<>>
      BY <2>1, <3>2, ChainIs DEF Mine
    <3> QED
      BY <3>1, <3>2
  <2>3. {d \in D : ~free[d]} = UNION {Mine(b) : b \in Bufs}
    <3>1. \A d \in D : ~free[d] <=> \E b \in Bufs : d \in Mine(b)
      BY <2>1, <2>2 DEF OwnInv
    <3>2. \A b \in Bufs : Mine(b) \subseteq D
      BY <2>2
    <3> QED
      BY <3>1, <3>2
  <2>4. \A b, c \in Bufs : b # c => Mine(b) \cap Mine(c) = {}
    BY <2>1, <2>2 DEF OwnInv
  <2> QED
    BY <2>2, <2>3, <2>4 DEF DescriptorsAreOwned
<1> QED
  BY <1>1, Invariance, PTL

(* What the device may still read, or has reported, belongs to a live      *)
(* request, with a good status once it is reported.                        *)
THEOREM LiveChains == Spec => []ChainsAreLive
<1>1. ASSUME IInv PROVE ChainsAreLive
  <2>1. TypeInv /\ CallInv /\ ChainInv /\ AvailInv /\ UsedInv
    BY <1>1 DEF IInv
  <2>2. ASSUME NEW h, h \in SentHeads PROVE Live(h)
    BY <2>1, <2>2, SentOwner DEF Live, Sent
  <2>3. ASSUME NEW k \in Pending(taken, avail.idx)
        PROVE  Live(avail.ring[(taken + k) % NUM])
    <3>1. (taken + k) % NUM \in AvailPlaces
      BY DEF AvailPlaces, Places
    <3> QED
      BY <2>1, <2>2, <3>1 DEF AvailInv
  <2>4. \A h \in chains \cup finished : Live(h)
    BY <2>1, <2>2 DEF AvailInv, UsedInv
  <2>5. ASSUME NEW k \in Pending(used_idx, used.idx)
        PROVE  LET id == used.ring[(used_idx + k) % NUM] IN Live(id) /\ info[id].status = 0
    <3>1. (used_idx + k) % NUM \in UsedPlaces
      BY DEF UsedPlaces, Places
    <3> QED
      BY <2>1, <2>2, <3>1 DEF UsedInv
  <2> QED
    BY <2>3, <2>4, <2>5 DEF ChainsAreLive
<1> QED
  BY <1>1, Invariance, PTL

(* Nobody sleeps for what has come: the request of a process asleep on its *)
(* buffer is with the device or the handler, what is in the used ring has  *)
(* an interrupt or a handler to come, and a process asleep in              *)
(* alloc3_desc() lacks descriptors.                                        *)
THEOREM WokenSleepers == Spec => []SleepersAreWoken
<1>1. ASSUME IInv PROVE SleepersAreWoken
  <2>1. CallInv /\ PlacedInv /\ WakeInv
    BY <1>1 DEF IInv
  <2>2. Placed \subseteq Underway
    <3>1. ASSUME NEW x \in AvailPlaces PROVE avail.ring[x] \in Underway
      BY <3>1 DEF AvailPlaces, Places, Underway
    <3>2. ASSUME NEW x \in UsedPlaces PROVE used.ring[x] \in Underway
      BY <3>2 DEF UsedPlaces, Places, Underway
    <3>3. chains \cup finished \subseteq Underway
      BY DEF Underway
    <3> QED
      BY <3>1, <3>2, <3>3 DEF Placed
  <2>3. ASSUME NEW b \in Bufs, pc[b] = "sleepb" PROVE bdisk[b] /\ idx[b][1] \in Underway
    BY <2>1, <2>2, <2>3 DEF CallInv, PlacedInv, Sent, Given
  <2> QED
    BY <2>1, <2>3 DEF SleepersAreWoken, WakeInv
<1> QED
  BY <1>1, Invariance, PTL

-----------------------------------------------------------------------------
(* How a step changes the requests of the abstract disk.                   *)
Done(b) == idx[b] # <<>> /\ info[idx[b][1]].status = 0

LEMMA RequestIs ==
  ASSUME NEW b \in Bufs
  PROVE  /\ Request(b) = IF want[b] = None THEN [type |-> "none"]
                         ELSE [type |-> want[b].type, sector |-> want[b].sector, done |-> Done(b)]
         /\ Request(b)' = IF want'[b] = None THEN [type |-> "none"]
                          ELSE [type |-> want'[b].type, sector |-> want'[b].sector,
                                done |-> Done(b)']
         /\ Done(b) \in BOOLEAN /\ Done(b)' \in BOOLEAN
BY DEF Request, Done

LEMMA SameRequest ==
  ASSUME NEW b \in Bufs, want'[b] = want[b], Done(b)' <=> Done(b)
  PROVE  Request(b)' = Request(b)
<1>1. Done(b)' = Done(b)
  BY RequestIs
<1> QED
  BY <1>1, RequestIs

LEMMA CallDoes ==
  ASSUME IInv, NEW b \in Bufs, NEW t \in {"in", "out"}, NEW s \in Blocks, NEW v \in Contents(t),
         Call(b, t, s, v)
  PROVE  Abstract!Call(b, t, s, v)
<1>1. CallInv /\ CallOK
  BY TypeParts DEF IInv
<1>2. /\ pc[b] = "idle" /\ want' = [want EXCEPT ![b] = [type |-> t, sector |-> s]]
      /\ data' = [data EXCEPT ![b] = v]
      /\ UNCHANGED <<disk, idx, info>>
  BY DEF Call, driver, device
<1>3. want[b] = None /\ idx[b] = <<>>
  BY <1>1, <1>2 DEF CallInv, Filled
<1>4. want'[b] = [type |-> t, sector |-> s] /\ \A c \in Bufs \ {b} : want'[c] = want[c]
  BY <1>1, <1>2 DEF CallOK
<1>5. want'[b] # None
  <2>1. [type |-> t, sector |-> s] \in [type : {"in", "out"}, sector : Blocks]
    OBVIOUS
  <2> QED
    BY <1>4, <2>1, NoneAssumption
<1>6. Done(b)' = FALSE
  BY <1>2, <1>3 DEF Done
<1>7. Request(b) = [type |-> "none"] /\ Request(b)' = [type |-> t, sector |-> s, done |-> FALSE]
  BY <1>3, <1>4, <1>5, <1>6, RequestIs
<1>8. ASSUME NEW c \in Bufs \ {b} PROVE Request(c)' = Request(c)
  <2>1. Done(c)' <=> Done(c)
    BY <1>2 DEF Done
  <2> QED
    BY <1>4, <2>1, SameRequest
<1> QED
  BY <1>2, <1>7, <1>8 DEF Abstract!Call, Abstract!Idle

(* A request that becomes done. *)
LEMMA SetDone ==
  ASSUME NEW b \in Bufs, NEW f, NEW g, NEW t, NEW s, NEW u, NEW v,
         f = [c \in Bufs |-> f[c]], g = [c \in Bufs |-> g[c]],
         f[b] = [type |-> t, sector |-> s, done |-> u],
         g[b] = [type |-> t, sector |-> s, done |-> v],
         \A c \in Bufs \ {b} : g[c] = f[c]
  PROVE  g = [f EXCEPT ![b].done = v]
OBVIOUS

LEMMA TransferDoes ==
  ASSUME IInv, NEW h \in D, Transfer(h)
  PROVE  \E b \in Bufs : Abstract!Do(b)
<1>1. TypeInv /\ CallInv /\ ChainInv /\ OwnInv /\ AvailInv
  BY DEF IInv
<1>2. PICK b \in Bufs : Transfers(b, h)
  BY <1>1, TransferIs
<1>3. UNCHANGED <<want, idx>>
  BY DEF Transfer, call
<1>4. want[b] \in Requests /\ want[b] # None
  BY <1>1, <1>2, SentHas DEF Transfers
<1>5. want[b].type # "none"
  BY <1>4 DEF Requests
<1>6. ~Done(b) /\ Done(b)'
  BY <1>2, <1>3 DEF Transfers, Done
<1>7. /\ Request(b) = [type |-> want[b].type, sector |-> want[b].sector, done |-> FALSE]
      /\ Request(b)' = [type |-> want[b].type, sector |-> want[b].sector, done |-> TRUE]
  BY <1>3, <1>4, <1>6, RequestIs
<1>8. ASSUME NEW c \in Bufs \ {b} PROVE Request(c)' = Request(c)
  <2>1. CASE idx[c] = <<>>
    BY <1>3, <2>1, SameRequest DEF Done
  <2>2. CASE idx[c] # <<>>
    <3>1. idx[c][1] \in D /\ idx[c][1] # h
      BY <1>1, <1>2, <2>2, ChainIs, OwnersDiffer DEF Transfers
    <3>2. info'[idx[c][1]] = info[idx[c][1]]
      BY <1>2, <3>1 DEF Transfers
    <3> QED
      BY <1>3, <3>2, SameRequest DEF Done
  <2> QED
    BY <2>1, <2>2
<1> DEFINE req == [c \in Bufs |-> Request(c)]
<1>9. req[b] # [type |-> "none"] /\ ~req[b].done
  BY <1>5, <1>7
<1>10. IF req[b].type = "out"
         THEN disk' = [disk EXCEPT ![req[b].sector] = data[b]] /\ UNCHANGED data
         ELSE data' = [data EXCEPT ![b] = disk[req[b].sector]] /\ UNCHANGED disk
  BY <1>2, <1>7 DEF Transfers
<1>11. req' = [req EXCEPT ![b].done = TRUE]
  <2>1. PICK f, g, u, v : f = req /\ g = req' /\ u = FALSE /\ v = TRUE
    OBVIOUS
  <2>2. f = [c \in Bufs |-> f[c]] /\ g = [c \in Bufs |-> g[c]] /\ \A c \in Bufs \ {b} : g[c] = f[c]
    BY <1>8, <2>1
  <2>3. f[b] = Request(b) /\ g[b] = Request(b)'
    BY <2>1
  <2>4. /\ f[b] = [type |-> want[b].type, sector |-> want[b].sector, done |-> u]
        /\ g[b] = [type |-> want[b].type, sector |-> want[b].sector, done |-> v]
    BY <1>7, <2>1, <2>3, Zenon
  <2>5. g = [f EXCEPT ![b].done = v]
    BY <2>2, <2>4, SetDone
  <2> QED
    BY <2>1, <2>5, Zenon
<1> QED
  BY <1>9, <1>10, <1>11 DEF Abstract!Do, Abstract!Idle

LEMMA FinishDoes ==
  ASSUME IInv, NEW b \in Bufs, Finish(b)
  PROVE  Abstract!Return(b)
<1>1. TypeInv /\ CallInv /\ ChainInv /\ OwnInv /\ StatusInv /\ CallOK
  BY TypeParts DEF IInv
<1>2. /\ pc[b] = "wait" /\ ~bdisk[b]
      /\ want' = [want EXCEPT ![b] = None] /\ idx' = [idx EXCEPT ![b] = <<>>]
      /\ data' = [data EXCEPT ![b] = None] /\ disk' = disk
  BY DEF Finish, device
<1>3. idx[b] # <<>> /\ want[b] # None
  BY <1>1, <1>2 DEF CallInv, Filled
<1>4. Done(b)
  BY <1>1, <1>2, <1>3 DEF StatusInv, Given, Done
<1>5. want'[b] = None /\ \A c \in Bufs \ {b} : want'[c] = want[c] /\ idx'[c] = idx[c]
  BY <1>1, <1>2 DEF CallOK
<1>6. want[b].type # "none"
  BY <1>1, <1>3 DEF CallOK, Requests
<1>7. /\ Request(b) = [type |-> want[b].type, sector |-> want[b].sector, done |-> TRUE]
      /\ Request(b)' = [type |-> "none"]
  BY <1>3, <1>4, <1>5, RequestIs
<1>8. ASSUME NEW c \in Bufs \ {b} PROVE Request(c)' = Request(c)
  <2>1. CASE idx[c] = <<>>
    BY <1>5, <2>1, SameRequest DEF Done
  <2>2. CASE idx[c] # <<>>
    <3>1. idx[c][1] \in D /\ info'[idx[c][1]].status = info[idx[c][1]].status
      BY <1>1, <2>2, ChainIs, FinishIs
    <3> QED
      BY <1>5, <3>1, SameRequest DEF Done
  <2> QED
    BY <2>1, <2>2
<1> DEFINE req == [c \in Bufs |-> Request(c)]
<1>9. req[b] # [type |-> "none"] /\ req[b].done
  BY <1>6, <1>7
<1>10. req' = [req EXCEPT ![b] = [type |-> "none"]]
  BY <1>7, <1>8
<1> QED
  BY <1>2, <1>9, <1>10 DEF Abstract!Return, Abstract!Idle

(* The other steps are none of the abstract disk's business. *)
LEMMA OthersStutter ==
  ASSUME IInv,
         \/ \E b \in Bufs : \/ Alloc(b) \/ AllocFails(b) \/ PutRing(b) \/ Publish(b) \/ Wait(b)
         \/ IntrStep \/ Take \/ Interrupt \/ (\E h \in D : PutUsed(h)) \/ UNCHANGED vars
  PROVE  UNCHANGED <<disk, data>> /\ \A c \in Bufs : Request(c)' = Request(c)
<1>1. TypeInv /\ CallInv /\ ChainInv /\ OwnInv /\ CallOK /\ InfoOK
  BY TypeParts DEF IInv
<1>2. UNCHANGED <<disk, data, want>>
  BY DEF Alloc, AllocFails, PutRing, Publish, Wait, IntrStep, IntrStart, IntrOne, IntrEnd, Take,
         Interrupt, PutUsed, vars, driver, device, call
<1>3. ASSUME NEW b \in Bufs, Alloc(b), NEW c \in Bufs PROVE Done(c)' <=> Done(c)
  <2>1. Quiet(b)
    BY <1>3 DEF Quiet
  <2>2. PICK i \in D, j \in D, k \in D : AllocAt(b, i, j, k)
    BY <1>1, <1>3, AllocIs
  <2>3. idx'[b] = <<i, j, k>> /\ info'[i].status = 255 /\ \A e \in Bufs \ {b} : idx'[e] = idx[e]
    BY <1>1, <2>2 DEF AllocAt, CallOK, InfoOK
  <2>4. idx[b] = <<>>
    BY <1>1, <1>3 DEF Alloc, CallInv, Filled
  <2>5. CASE c = b
    BY <2>3, <2>4, <2>5 DEF Done
  <2>6. CASE c # b
    BY <2>1, <2>3, <2>6, QuietSent DEF Done
  <2> QED
    BY <2>5, <2>6
<1>4. ASSUME UNCHANGED <<idx, info>>, NEW c \in Bufs PROVE Done(c)' <=> Done(c)
  BY <1>4 DEF Done
<1>5. (\E b \in Bufs : Alloc(b)) \/ UNCHANGED <<idx, info>>
  BY DEF AllocFails, PutRing, Publish, Wait, IntrStep, IntrStart, IntrOne, IntrEnd, Take,
         Interrupt, PutUsed, vars, driver, device, call
<1>6. \A c \in Bufs : Done(c)' <=> Done(c)
  BY <1>3, <1>4, <1>5
<1> QED
  BY <1>2, <1>6, SameRequest

(* virtio_disk_rw(), its handler and the device transfer one block per     *)
(* call, once, between the call and the return: the driver implements the  *)
(* atomic disk.                                                            *)
THEOREM Refinement == Spec => ImplementsAtomicDisk
<1>1. Init => Abstract!Init
  BY DEF Init, Abstract!Init, Abstract!Idle, Request
<1>2. IInv /\ [Next]_vars => [Abstract!Next]_(Abstract!vars)
  <2> SUFFICES ASSUME IInv, [Next]_vars PROVE [Abstract!Next]_(Abstract!vars)
    OBVIOUS
  <2>1. ASSUME NEW b \in Bufs, NEW t \in {"in", "out"}, NEW s \in Blocks, NEW v \in Contents(t),
               Call(b, t, s, v)
        PROVE  Abstract!Next
    <3>1. Abstract!Call(b, t, s, v)
      BY <2>1, CallDoes
    <3>2. CASE t = "in"
      BY <3>1, <3>2 DEF Contents, Abstract!Next
    <3>3. CASE t = "out"
      BY <3>1, <3>3 DEF Contents, Abstract!Next
    <3> QED
      BY <3>2, <3>3
  <2>2. ASSUME NEW h \in D, Transfer(h) PROVE Abstract!Next
    BY <2>2, TransferDoes DEF Abstract!Next
  <2>3. ASSUME NEW b \in Bufs, Finish(b) PROVE Abstract!Next
    BY <2>3, FinishDoes DEF Abstract!Next
  <2>4. CASE \/ \E b \in Bufs : \/ Alloc(b) \/ AllocFails(b) \/ PutRing(b) \/ Publish(b) \/ Wait(b)
             \/ IntrStep \/ Take \/ Interrupt \/ (\E h \in D : PutUsed(h)) \/ UNCHANGED vars
    <3>1. UNCHANGED <<disk, data>> /\ \A c \in Bufs : Request(c)' = Request(c)
      BY <2>4, OthersStutter
    <3>2. [c \in Bufs |-> Request(c)]' = [c \in Bufs |-> Request(c)]
      BY <3>1
    <3> QED
      BY <3>1, <3>2 DEF Abstract!vars
  <2> QED
    BY <2>1, <2>2, <2>3, <2>4 DEF Next, RwStep, DeviceStep
<1> QED
  BY <1>1, <1>2, Invariance, PTL DEF Spec, ImplementsAtomicDisk, Abstract!Spec
=============================================================================
