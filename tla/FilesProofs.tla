----------------------------- MODULE FilesProofs -----------------------------
(***************************************************************************)
(* Proofs about Files, for any number of processes, names, inodes and      *)
(* files, and inode and file tables of any size: references are counted    *)
(* right, link counts are those of the names, and the kernel panics only   *)
(* for want of inodes.                                                     *)
(***************************************************************************)
EXTENDS Files, FiniteSetTheorems, TLAPS

(* Two sets that differ in k only. *)
LEMMA OneChanges ==
  ASSUME NEW S, IsFiniteSet(S), NEW F \in SUBSET S, NEW G \in SUBSET S, NEW k \in S,
         \A j \in S \ {k} : j \in F <=> j \in G
  PROVE  /\ Cardinality(F) \in Nat
         /\ Cardinality(G) = IF k \in G /\ k \notin F THEN Cardinality(F) + 1
                             ELSE IF k \in F /\ k \notin G THEN Cardinality(F) - 1
                             ELSE Cardinality(F)
<1>1. IsFiniteSet(F) /\ IsFiniteSet(G) /\ Cardinality(F) \in Nat /\ Cardinality(G) \in Nat
  BY FS_Subset, FS_CardinalityType
<1>2. CASE k \notin F /\ k \in G
  <2>1. G = F \cup {k}
    BY <1>2
  <2> QED
    BY <1>1, <1>2, <2>1, FS_AddElement
<1>3. CASE k \in F /\ k \notin G
  <2>1. G = F \ {k}
    BY <1>3
  <2> QED
    BY <1>1, <1>3, <2>1, FS_RemoveElement
<1>4. CASE k \in F <=> k \in G
  <2>1. G = F
    BY <1>4
  <2> QED
    BY <1>1, <1>4, <2>1
<1> QED
  BY <1>2, <1>3, <1>4, <1>1

(* What a cardinality says of the elements. *)
LEMMA Counted ==
  ASSUME NEW S, IsFiniteSet(S), NEW F \in SUBSET S
  PROVE  /\ Cardinality(F) \in Nat
         /\ Cardinality(F) = 0 <=> F = {}
         /\ \A x \in F : Cardinality(F) >= 1
         /\ \A x, y \in F : x # y => Cardinality(F) >= 2
         /\ \A x \in F : Cardinality(F) = 1 => F = {x}
<1>1. IsFiniteSet(F) /\ Cardinality(F) \in Nat
  BY FS_Subset, FS_CardinalityType
<1>2. Cardinality(F) = 0 <=> F = {}
  BY <1>1, FS_EmptySet
<1>3. ASSUME NEW x \in F
      PROVE  Cardinality(F) >= 1 /\ (Cardinality(F) = 1 => F = {x})
  <2>1. Cardinality(F) # 0
    BY <1>2, <1>3
  <2>2. Cardinality(F) = 1 => \E y : F = {y}
    BY <1>1, FS_Singleton
  <2> QED
    BY <1>1, <1>3, <2>1, <2>2
<1>4. ASSUME NEW x \in F, NEW y \in F, x # y
      PROVE  Cardinality(F) >= 2
  <2>1. Cardinality(F) >= 1 /\ Cardinality(F) # 1
    BY <1>3, <1>4
  <2> QED
    BY <1>1, <2>1
<1> QED
  BY <1>1, <1>2, <1>3, <1>4

(* As many pairs for each process as h says. *)
Pairs(h) == UNION {{q} \X (1..h[q]) : q \in Procs}

LEMMA PairsAre ==
  ASSUME NEW h \in [Procs -> Nat]
  PROVE  /\ IsFiniteSet(Pairs(h)) /\ Cardinality(Pairs(h)) \in Nat
         /\ Pairs(h) \subseteq Procs \X Nat
         /\ \A q \in Procs, n \in Nat : <<q, n>> \in Pairs(h) <=> n \in 1..h[q]
<1> DEFINE Op(q) == {q} \X (1..h[q])
<1>1. \A q \in Procs : IsFiniteSet(Op(q))
  <2> TAKE q \in Procs
  <2>1. 1 \in Int /\ h[q] \in Int
    OBVIOUS
  <2>2. IsFiniteSet(1..h[q])
    BY <2>1, FS_Interval
  <2>3. IsFiniteSet({q})
    BY FS_Singleton
  <2> QED
    BY <2>2, <2>3, FS_Product
<1>2. IsFiniteSet({Op(q) : q \in Procs})
  <2> DEFINE Sets == {Op(q) : q \in Procs}
             f == [q \in Procs |-> Op(q)]
  <2>1. f \in Surjection(Procs, Sets)
    <3> HIDE DEF Op
    <3> QED
      BY DEF Surjection
  <2> HIDE DEF f, Sets
  <2>2. IsFiniteSet(Sets)
    BY <2>1, SizeAssumption, FS_Surjection
  <2> QED
    BY <2>2 DEF Sets
<1>3. IsFiniteSet(Pairs(h))
  BY <1>1, <1>2, FS_UNION DEF Pairs
<1>4. /\ Pairs(h) \subseteq Procs \X Nat
      /\ \A q \in Procs, n \in Nat : <<q, n>> \in Pairs(h) <=> n \in 1..h[q]
  BY DEF Pairs
<1> QED
  BY <1>3, <1>4, FS_CardinalityType

LEMMA SamePairs ==
  ASSUME NEW A \in SUBSET (Procs \X Nat), NEW B \in SUBSET (Procs \X Nat),
         \A q \in Procs, n \in Nat : <<q, n>> \in A <=> <<q, n>> \in B
  PROVE  A = B
OBVIOUS

(* One process has k pairs instead. *)
LEMMA PairsChange ==
  ASSUME NEW h \in [Procs -> Nat], NEW g \in [Procs -> Nat], NEW p \in Procs,
         \A q \in Procs \ {p} : g[q] = h[q]
  PROVE  Cardinality(Pairs(g)) = Cardinality(Pairs(h)) - h[p] + g[p]
<1> DEFINE Own(k) == {p} \X (1..k)
           Rest == {x \in Pairs(h) : x[1] # p}
<1>1. /\ Pairs(h) \subseteq Procs \X Nat /\ Pairs(g) \subseteq Procs \X Nat
      /\ \A q \in Procs, n \in Nat : /\ <<q, n>> \in Pairs(h) <=> n \in 1..h[q]
                                     /\ <<q, n>> \in Pairs(g) <=> n \in 1..g[q]
  BY PairsAre
<1>2. IsFiniteSet(Rest)
  <2>1. IsFiniteSet(Pairs(h)) /\ Rest \in SUBSET Pairs(h)
    BY PairsAre
  <2> QED
    BY <2>1, FS_Subset
<1>3. ASSUME NEW k \in Nat
      PROVE  IsFiniteSet(Own(k)) /\ Cardinality(Own(k)) = k /\ Rest \cap Own(k) = {}
  <2>1. IsFiniteSet(1..k) /\ Cardinality(1..k) = k
    <3>1. 1 \in Int /\ k \in Int
      OBVIOUS
    <3>2. IsFiniteSet(1..k) /\ Cardinality(1..k) = IF 1 > k THEN 0 ELSE k - 1 + 1
      BY <3>1, FS_Interval
    <3> QED
      BY <3>2
  <2>2. IsFiniteSet({p}) /\ Cardinality({p}) = 1
    BY FS_Singleton
  <2>3. ASSUME NEW A, NEW B, A = {p}, B = 1..k
        PROVE  IsFiniteSet(A \X B) /\ Cardinality(A \X B) = k
    <3>1. IsFiniteSet(A) /\ Cardinality(A) = 1 /\ IsFiniteSet(B) /\ Cardinality(B) = k
      BY <2>1, <2>2, <2>3
    <3>2. /\ IsFiniteSet(A \X B)
          /\ Cardinality(A \X B) = Cardinality(A) * Cardinality(B)
      BY <3>1, FS_Product
    <3> QED
      BY <3>1, <3>2
  <2>4. Rest \cap Own(k) = {}
    <3>1. \A x \in Own(k) : x[1] = p
      OBVIOUS
    <3>2. \A x \in Rest : x[1] # p
      OBVIOUS
    <3> QED
      BY <3>1, <3>2
  <2> QED
    BY <2>3, <2>4
<1>4. Pairs(h) = Rest \cup Own(h[p]) /\ Pairs(g) = Rest \cup Own(g[p])
  <2>1. Rest \subseteq Procs \X Nat /\ Own(h[p]) \subseteq Procs \X Nat
        /\ Own(g[p]) \subseteq Procs \X Nat
    BY <1>1
  <2>2. \A q \in Procs, n \in Nat : /\ <<q, n>> \in Rest <=> q # p /\ n \in 1..h[q]
                                    /\ <<q, n>> \in Own(h[p]) <=> q = p /\ n \in 1..h[p]
                                    /\ <<q, n>> \in Own(g[p]) <=> q = p /\ n \in 1..g[p]
    BY <1>1
  <2> HIDE DEF Rest, Own
  <2>3. \A q \in Procs, n \in Nat : /\ <<q, n>> \in Pairs(h) <=> <<q, n>> \in Rest \cup Own(h[p])
                                    /\ <<q, n>> \in Pairs(g) <=> <<q, n>> \in Rest \cup Own(g[p])
    <3> TAKE q \in Procs, n \in Nat
    <3>1. CASE q = p
      BY <1>1, <2>2, <3>1
    <3>2. CASE q # p
      <4>1. g[q] = h[q]
        BY <3>2
      <4> QED
        BY <1>1, <2>2, <3>2, <4>1
    <3> QED
      BY <3>1, <3>2
  <2>4. ASSUME NEW A, A = Rest \cup Own(h[p]) PROVE Pairs(h) = A
    BY <1>1, <2>1, <2>3, <2>4, SamePairs
  <2>5. ASSUME NEW A, A = Rest \cup Own(g[p]) PROVE Pairs(g) = A
    BY <1>1, <2>1, <2>3, <2>5, SamePairs
  <2> QED
    BY <2>4, <2>5
<1>5. h[p] \in Nat /\ g[p] \in Nat
  OBVIOUS
<1> HIDE DEF Rest, Own
<1>6. /\ Cardinality(Pairs(h)) = Cardinality(Rest) + h[p] - Cardinality({})
      /\ Cardinality(Pairs(g)) = Cardinality(Rest) + g[p] - Cardinality({})
  <2>1. /\ Cardinality(Pairs(h)) = Cardinality(Rest) + Cardinality(Own(h[p])) - Cardinality({})
        /\ Cardinality(Pairs(g)) = Cardinality(Rest) + Cardinality(Own(g[p])) - Cardinality({})
    BY <1>2, <1>3, <1>4, <1>5, FS_Union
  <2> QED
    BY <1>3, <1>5, <2>1
<1>7. Cardinality({}) = 0 /\ Cardinality(Rest) \in Nat
  BY <1>2, FS_EmptySet, FS_CardinalityType
<1> QED
  BY <1>5, <1>6, <1>7

-----------------------------------------------------------------------------
(* What the invariant says of a state.                                     *)

LEMMA Nones == /\ None \notin Procs /\ None \notin Names /\ None \notin Inums
               /\ None \notin Entries /\ None \notin Files
BY NoneAssumption

LEMMA Finite == IsFiniteSet(Procs) /\ IsFiniteSet(Names) /\ IsFiniteSet(Files)
BY SizeAssumption

LEMMA HoldsType ==
  ASSUME TypeOK
  PROVE  \A q \in Procs, f \in Files : Holds(q, f) \in Nat
BY DEF TypeOK, Holds

LEMMA ReferencesAre ==
  ASSUME TypeOK, NEW f \in Files
  PROVE  /\ [q \in Procs |-> Holds(q, f)] \in [Procs -> Nat]
         /\ References(f) = Pairs([q \in Procs |-> Holds(q, f)])
<1>1. \A q \in Procs : Holds(q, f) \in Nat
  BY HoldsType
<1>2. References(f) = Pairs([q \in Procs |-> Holds(q, f)])
  <2> DEFINE h == [q \in Procs |-> Holds(q, f)]
  <2>1. \A q \in Procs : h[q] = Holds(q, f)
    OBVIOUS
  <2> HIDE DEF h
  <2>2. References(f) = Pairs(h)
    BY <2>1 DEF References, Pairs
  <2> QED
    BY <2>2 DEF h
<1> QED
  BY <1>1, <1>2

(* What Unchecked steps end: the references of the files are counted       *)
(* right, the kernel has not stopped but for want of inodes, and the       *)
(* invariant of the steps before.                                          *)
Balanced == \A f \in Files : file[f].ref = Cardinality(References(f))
Fine == panic \in {"no", "iget: no inodes", "ialloc: no inodes"}
Inv == TypeOK /\ Sound /\ Fine /\ Balanced /\ InodeRefs /\ LinksAreNames

(* A file has at least the references that a process has. *)
LEMMA FileCounts ==
  ASSUME TypeOK, Balanced, NEW f \in Files
  PROVE  /\ \A q \in Procs : Holds(q, f) > 0 => file[f].ref > 0
         /\ \A q, r \in Procs : q # r /\ Holds(q, f) > 0 /\ Holds(r, f) > 0 => file[f].ref > 1
<1> DEFINE h == [q \in Procs |-> Holds(q, f)]
<1>1. h \in [Procs -> Nat] /\ References(f) = Pairs(h) /\ \A q \in Procs : h[q] = Holds(q, f)
  BY ReferencesAre
<1> HIDE DEF h
<1>2. /\ IsFiniteSet(Pairs(h)) /\ Pairs(h) \in SUBSET Pairs(h)
      /\ \A q \in Procs, n \in Nat : <<q, n>> \in Pairs(h) <=> n \in 1..h[q]
  BY <1>1, PairsAre
<1>3. \A q \in Procs : Holds(q, f) > 0 => <<q, 1>> \in Pairs(h)
  BY <1>1, <1>2, HoldsType
<1>4. file[f].ref = Cardinality(Pairs(h))
  BY <1>1 DEF Balanced
<1>5. /\ Cardinality(Pairs(h)) \in Nat
      /\ \A x \in Pairs(h) : Cardinality(Pairs(h)) >= 1
      /\ \A x, y \in Pairs(h) : x # y => Cardinality(Pairs(h)) >= 2
  BY <1>2, Counted
<1>6. ASSUME NEW q \in Procs, Holds(q, f) > 0
      PROVE  file[f].ref > 0
  <2>1. <<q, 1>> \in Pairs(h)
    BY <1>3, <1>6
  <2>2. Cardinality(Pairs(h)) >= 1
    BY <1>5, <2>1
  <2> QED
    BY <1>4, <1>5, <2>2
<1>7. ASSUME NEW q \in Procs, NEW r \in Procs, q # r, Holds(q, f) > 0, Holds(r, f) > 0
      PROVE  file[f].ref > 1
  <2>1. <<q, 1>> \in Pairs(h) /\ <<r, 1>> \in Pairs(h) /\ <<q, 1>> # <<r, 1>>
    BY <1>3, <1>7
  <2>2. Cardinality(Pairs(h)) >= 2
    BY <1>5, <2>1
  <2> QED
    BY <1>4, <1>5, <2>2
<1> QED
  BY <1>6, <1>7

LEMMA EntryCounts ==
  ASSUME TypeOK, InodeRefs, NEW e \in Entries
  PROVE  /\ inode[e].ref \in Nat
         /\ \A f \in Files : file[f].ref > 0 /\ file[f].ip = e => inode[e].ref > 0
         /\ \A q \in Procs : ip[q] = e /\ call[q].op # "none" => inode[e].ref > 0
         /\ \A q \in Procs : put[q] = e => inode[e].ref > 0
         /\ \A q \in Procs : put[q] = e /\ inode[e].ref = 1 =>
              FilesOf(e) = {} /\ Calls(e) = {} /\ Puts(e) = {q}
         /\ inode[e].ref = 0 => FilesOf(e) = {} /\ Calls(e) = {} /\ Puts(e) = {}
<1>1. FilesOf(e) \in SUBSET Files /\ Calls(e) \in SUBSET Procs /\ Puts(e) \in SUBSET Procs
  BY DEF FilesOf, Calls, Puts
<1>2. inode[e].ref = Cardinality(FilesOf(e)) + Cardinality(Calls(e)) + Cardinality(Puts(e))
  BY DEF InodeRefs
<1>3. /\ Cardinality(FilesOf(e)) \in Nat
      /\ Cardinality(FilesOf(e)) = 0 <=> FilesOf(e) = {}
  BY <1>1, Finite, Counted
<1>4. /\ Cardinality(Calls(e)) \in Nat
      /\ Cardinality(Calls(e)) = 0 <=> Calls(e) = {}
  BY <1>1, Finite, Counted
<1>5. /\ Cardinality(Puts(e)) \in Nat
      /\ Cardinality(Puts(e)) = 0 <=> Puts(e) = {}
      /\ \A x \in Puts(e) : Cardinality(Puts(e)) >= 1
      /\ \A x \in Puts(e) : Cardinality(Puts(e)) = 1 => Puts(e) = {x}
  BY <1>1, Finite, Counted
<1>6. /\ \A f \in Files : f \in FilesOf(e) <=> file[f].ref > 0 /\ file[f].ip = e
      /\ \A q \in Procs : q \in Calls(e) <=> ip[q] = e /\ call[q].op # "none"
      /\ \A q \in Procs : q \in Puts(e) <=> put[q] = e
  BY DEF FilesOf, Calls, Puts
<1>7. inode[e].ref = 0 => FilesOf(e) = {} /\ Calls(e) = {} /\ Puts(e) = {}
  <2>1. \A a, b, c \in Nat : a + b + c = 0 => a = 0 /\ b = 0 /\ c = 0
    OBVIOUS
  <2> QED
    BY <1>2, <1>3, <1>4, <1>5, <2>1
<1>8. inode[e].ref \in Nat
  BY DEF TypeOK
<1>9. ASSUME NEW q \in Procs, put[q] = e, inode[e].ref = 1
      PROVE  FilesOf(e) = {} /\ Calls(e) = {} /\ Puts(e) = {q}
  <2>1. q \in Puts(e)
    BY <1>6, <1>9
  <2>2. Cardinality(Puts(e)) >= 1
    BY <1>5, <2>1
  <2>3. Cardinality(FilesOf(e)) = 0 /\ Cardinality(Calls(e)) = 0 /\ Cardinality(Puts(e)) = 1
    BY <1>2, <1>3, <1>4, <1>5, <1>9, <2>2
  <2> QED
    BY <1>3, <1>4, <1>5, <2>1, <2>3
<1>10. /\ \A f \in Files : file[f].ref > 0 /\ file[f].ip = e => inode[e].ref # 0
       /\ \A q \in Procs : ip[q] = e /\ call[q].op # "none" => inode[e].ref # 0
       /\ \A q \in Procs : put[q] = e => inode[e].ref # 0
  BY <1>6, <1>7
<1>11. \A n \in Nat : n # 0 => n > 0
  OBVIOUS
<1> QED
  BY <1>7, <1>8, <1>9, <1>10, <1>11

LEMMA Parts ==
  ASSUME Inv
  PROVE  /\ TypeOK /\ Balanced /\ InodeRefs /\ LinksAreNames /\ Fine
         /\ \A p \in Procs : /\ CallInv(p) /\ HeldInv(p) /\ LockInv(p) /\ DirInv(p)
                             /\ ReadInv(p) /\ AllocInv(p) /\ FreeInv(p)
         /\ \A f \in Files : FileInv(f)
         /\ \A e \in Entries : EntryInv(e)
BY DEF Inv, Sound

(* The inode a call works on is in the table, called for by the call or by *)
(* a file it has.                                                          *)
LEMMA InTable ==
  ASSUME Inv, NEW q \in Procs, ip[q] # None
  PROVE  /\ ip[q] \in Entries
         /\ inode[ip[q]].ref > 0
         /\ call[q].op # "none" \/ FilesOf(ip[q]) # {}
<1>1. TypeOK /\ Balanced /\ InodeRefs /\ CallInv(q) /\ HeldInv(q)
  BY Parts
<1>2. ip[q] \in Entries
  BY <1>1 DEF TypeOK
<1>3. CASE call[q].op # "none"
  BY <1>1, <1>2, <1>3, EntryCounts
<1>4. CASE call[q].op = "none"
  <2>1. Stage(q) \in Shared
    BY <1>1, <1>4 DEF CallInv, Shared, Opening
  <2>2. PICK f \in Files : Holds(q, f) > 0 /\ file[f].ip = ip[q]
    BY <1>1, <2>1 DEF HeldInv
  <2>3. file[f].ref > 0
    BY <1>1, <2>2, FileCounts
  <2>4. f \in FilesOf(ip[q])
    BY <2>2, <2>3 DEF FilesOf
  <2> QED
    BY <1>1, <1>2, <2>2, <2>3, <2>4, EntryCounts
<1> QED
  BY <1>2, <1>3, <1>4

LEMMA PutInTable ==
  ASSUME Inv, NEW q \in Procs, put[q] # None
  PROVE  put[q] \in Entries /\ inode[put[q]].ref > 0
<1>1. TypeOK /\ InodeRefs /\ put[q] \in Entries
  BY Parts DEF TypeOK
<1> QED
  BY <1>1, EntryCounts

LEMMA FileInTable ==
  ASSUME Inv, NEW f \in Files, file[f].ref > 0
  PROVE  /\ file[f].ip \in Entries /\ inode[file[f].ip].ref > 0
         /\ inode[file[f].ip].valid
         /\ f \in FilesOf(file[f].ip)
<1>1. TypeOK /\ InodeRefs /\ FileInv(f)
  BY Parts
<1>2. file[f].ip \in Entries /\ inode[file[f].ip].valid
  BY <1>1 DEF TypeOK, FileInv
<1> QED
  BY <1>1, <1>2, EntryCounts DEF FilesOf

(* No two entries stand for one number. *)
LEMMA OneEntry ==
  ASSUME Inv, NEW d \in Entries, NEW e \in Entries, inode[d].ref > 0, inode[e].ref > 0,
         inode[d].inum = inode[e].inum
  PROVE  d = e
<1>1. InodeRefs
  BY Parts
<1>2. InUse(inode[e].inum) = {e}
  BY <1>1 DEF InodeRefs
<1>3. d \in InUse(inode[e].inum)
  BY DEF InUse
<1> QED
  BY <1>2, <1>3

(* When the last reference is one iput() that has freed the inode.         *)
LEMMA LastPutIs ==
  ASSUME Inv, NEW e \in Entries, LastPut(e)
  PROVE  /\ FilesOf(e) = {} /\ Calls(e) = {}
         /\ \A q \in Procs : ip[q] # e
         /\ \A q \in Procs : put[q] = e => pc[q] \in {"freed", "unref"}
         /\ \E p \in Procs : Puts(e) = {p}
<1>1. TypeOK /\ InodeRefs
  BY Parts
<1>2. PICK p \in Procs : put[p] = e /\ pc[p] \in {"freed", "unref"} /\ inode[e].ref = 1
  BY DEF LastPut
<1>3. FilesOf(e) = {} /\ Calls(e) = {} /\ Puts(e) = {p}
  BY <1>1, <1>2, EntryCounts
<1>4. ASSUME NEW q \in Procs, ip[q] = e PROVE FALSE
  <2>1. call[q].op # "none" \/ FilesOf(ip[q]) # {}
    BY <1>4, Nones, InTable
  <2>2. q \in Calls(e)
    BY <1>3, <1>4, <2>1 DEF Calls
  <2> QED
    BY <1>3, <2>2
<1>5. ASSUME NEW q \in Procs, put[q] = e PROVE q = p
  BY <1>3, <1>5 DEF Puts
<1> QED
  BY <1>2, <1>3, <1>4, <1>5

(* An inode that is referred to is in use, also on the disk.               *)
LEMMA InUseOnDisk ==
  ASSUME Inv, NEW e \in Entries,
         \/ \E q \in Procs : ip[q] = e
         \/ FilesOf(e) # {}
         \/ \E q \in Procs : put[q] = e /\ pc[q] \notin {"freed", "unref"}
  PROVE  inode[e].ref > 0 /\ inode[e].inum \in Inums /\ dinode[inode[e].inum].used
<1>1. TypeOK /\ InodeRefs /\ EntryInv(e)
  BY Parts
<1>2. inode[e].ref > 0
  <2>1. CASE \E q \in Procs : ip[q] = e
    BY <2>1, Nones, InTable
  <2>2. CASE FilesOf(e) # {}
    BY <1>1, <2>2, EntryCounts DEF FilesOf
  <2>3. CASE \E q \in Procs : put[q] = e
    BY <1>1, <2>3, EntryCounts
  <2> QED
    BY <2>1, <2>2, <2>3
<1>3. ~LastPut(e)
  BY LastPutIs
<1>4. inode[e].inum \in Inums
  BY <1>1, <1>2 DEF EntryInv, TypeOK
<1> QED
  BY <1>1, <1>2, <1>3, <1>4 DEF EntryInv

(* The locks are held by one process each. *)
LEMMA OneLocks ==
  ASSUME Inv, NEW p \in Procs, NEW q \in Procs
  PROVE  /\ HasLock(p) => Locked(p) \in Entries /\ lock[Locked(p)] = p
         /\ HasLock(p) /\ HasLock(q) /\ Locked(p) = Locked(q) => p = q
         /\ HasDirlock(p) /\ HasDirlock(q) => p = q
<1>1. /\ TypeOK /\ CallInv(p) /\ CallInv(q) /\ LockInv(p) /\ LockInv(q)
  BY Parts
<1>2. ASSUME NEW r \in Procs, CallInv(r), HasLock(r) PROVE Locked(r) \in Entries
  <2>1. CASE pc[r] \in Putting
    BY <1>1, <1>2, <2>1 DEF TypeOK, CallInv, Locked
  <2>2. CASE pc[r] \notin Putting
    <3>1. pc[r] = "read" => then[r] \in Opening \cup Shared \cup {"unlinked"}
      BY <1>2 DEF CallInv
    <3>2. pc[r] = "read" \/ Stage(r) = pc[r]
      BY <1>2, <2>2 DEF Stage, HasLock, Opening, Shared, Putting
    <3>3. Stage(r) \in Opening \cup Shared \cup {"unlinked"}
      BY <1>2, <2>2, <3>1, <3>2 DEF HasLock, Stage, Putting
    <3>4. ip[r] # None
      BY <1>2, <3>3 DEF CallInv
    <3> QED
      BY <1>1, <2>2, <3>4 DEF Locked, TypeOK
  <2> QED
    BY <2>1, <2>2
<1>3. ASSUME NEW r \in Procs, CallInv(r), LockInv(r), HasLock(r)
      PROVE  Locked(r) \in Entries /\ lock[Locked(r)] = r
  <2>1. Locked(r) \in Entries
    BY <1>2, <1>3
  <2> QED
    BY <1>3, <2>1 DEF LockInv
<1> QED
  BY <1>1, <1>3 DEF LockInv

(* The links of an inode. *)
LEMMA LinkCounts ==
  ASSUME TypeOK, LinksAreNames, NEW i \in Inums
  PROVE  /\ dinode[i].nlink \in Nat
         /\ dinode[i].nlink = 0 <=> NamesOf(i) = {} /\ Unnamed(i) = {}
         /\ \A n \in Names : dir[n] = i => dinode[i].nlink > 0 /\ dinode[i].used
         /\ \A e \in Entries : inode[e].ref > 0 /\ inode[e].inum = i /\ inode[e].valid
                                 => inode[e].nlink = dinode[i].nlink
<1>1. NamesOf(i) \in SUBSET Names /\ Unnamed(i) \in SUBSET Procs
  BY DEF NamesOf, Unnamed
<1>2. /\ Cardinality(NamesOf(i)) \in Nat
      /\ Cardinality(NamesOf(i)) = 0 <=> NamesOf(i) = {}
  BY <1>1, Finite, Counted
<1>3. /\ Cardinality(Unnamed(i)) \in Nat
      /\ Cardinality(Unnamed(i)) = 0 <=> Unnamed(i) = {}
  BY <1>1, Finite, Counted
<1>4. dinode[i].nlink = Cardinality(NamesOf(i)) + Cardinality(Unnamed(i))
  BY DEF LinksAreNames
<1>5. dinode[i].nlink = 0 <=> NamesOf(i) = {} /\ Unnamed(i) = {}
  <2>1. \A a, b \in Nat : a + b = 0 <=> a = 0 /\ b = 0
    OBVIOUS
  <2> QED
    BY <1>2, <1>3, <1>4, <2>1
<1>6. dinode[i].nlink \in Nat
  BY DEF TypeOK
<1>7. ASSUME NEW n \in Names, dir[n] = i
      PROVE  dinode[i].nlink > 0 /\ dinode[i].used
  <2>1. n \in NamesOf(i)
    BY <1>7 DEF NamesOf
  <2>2. dinode[i].nlink # 0
    BY <1>5, <2>1
  <2>3. dinode[i].used
    BY <2>1 DEF LinksAreNames
  <2> QED
    BY <1>6, <2>2, <2>3
<1>8. ASSUME NEW e \in Entries, inode[e].ref > 0, inode[e].inum = i, inode[e].valid
      PROVE  inode[e].nlink = dinode[i].nlink
  <2>1. e \in InUse(i)
    BY <1>8 DEF InUse
  <2> QED
    BY <1>8, <2>1 DEF LinksAreNames
<1> QED
  BY <1>5, <1>6, <1>7, <1>8

(* While iput() frees the inode, it has no links and no names, and nobody  *)
(* but the one who has found its number with ialloc() refers to it.        *)
LEMMA FreeingIs ==
  ASSUME Inv, NEW p \in Procs, pc[p] \in {"free", "freed"}
  PROVE  /\ put[p] \in Entries /\ inode[put[p]].ref > 0 /\ inode[put[p]].inum \in Inums
         /\ dinode[inode[put[p]].inum].nlink = 0
         /\ NamesOf(inode[put[p]].inum) = {}
         /\ FilesOf(put[p]) = {} /\ Puts(put[p]) = {p}
         /\ pc[p] = "free" => \A q \in Procs : ip[q] # put[p]
         /\ \A q \in Procs : ip[q] = put[p] => pc[q] = "ilock" /\ then[q] = "create"
<1>1. /\ TypeOK /\ InodeRefs /\ LinksAreNames /\ CallInv(p) /\ FreeInv(p)
  BY Parts
<1>2. put[p] # None
  BY <1>1 DEF CallInv, Putting
<1>3. put[p] \in Entries /\ inode[put[p]].ref > 0
  BY <1>2, PutInTable
<1>4. inode[put[p]].inum \in Inums
  <2>1. EntryInv(put[p])
    BY <1>3, Parts
  <2> QED
    BY <1>1, <1>3, <2>1 DEF EntryInv, TypeOK
<1>5. inode[put[p]].valid /\ inode[put[p]].nlink = 0
  BY <1>1 DEF FreeInv, Freeing
<1>6. dinode[inode[put[p]].inum].nlink = 0 /\ NamesOf(inode[put[p]].inum) = {}
  BY <1>1, <1>3, <1>4, <1>5, LinkCounts
<1>7. ASSUME pc[p] = "free"
      PROVE  /\ FilesOf(put[p]) = {} /\ Puts(put[p]) = {p}
             /\ \A q \in Procs : ip[q] # put[p]
  <2>1. inode[put[p]].ref = 1
    BY <1>1, <1>7 DEF FreeInv, Freeing
  <2>2. FilesOf(put[p]) = {} /\ Calls(put[p]) = {} /\ Puts(put[p]) = {p}
    BY <1>1, <1>3, <2>1, EntryCounts
  <2>3. ASSUME NEW q \in Procs, ip[q] = put[p] PROVE FALSE
    <3>1. call[q].op # "none" \/ FilesOf(ip[q]) # {}
      BY <1>2, <2>3, InTable
    <3>2. q \in Calls(put[p])
      BY <2>2, <2>3, <3>1 DEF Calls
    <3> QED
      BY <2>2, <3>2
  <2> QED
    BY <2>2, <2>3
<1>8. ASSUME pc[p] = "freed"
      PROVE  /\ FilesOf(put[p]) = {} /\ Puts(put[p]) = {p}
             /\ \A q \in Procs : ip[q] = put[p] => pc[q] = "ilock" /\ then[q] = "create"
  BY <1>1, <1>8 DEF FreeInv, Freeing
<1> QED
  BY <1>3, <1>4, <1>6, <1>7, <1>8

-----------------------------------------------------------------------------
(* What the operators do to the tables, an entry at a time.                *)

InodeType == [inum : Inums \cup {None}, ref : Nat, valid : BOOLEAN, nlink : Nat]

(* Only entry e changes. *)
OnlyEntry(e) == /\ inode' \in [Entries -> InodeType]
                /\ \A d \in Entries : d # e => inode'[d] = inode[d]

IgetDone(i, e) ==
  /\ OnlyEntry(e)
  /\ inode'[e].inum = i
  /\ inode'[e].ref = inode[e].ref + 1
  /\ inode[e].ref > 0 => /\ inode[e].inum = i
                         /\ inode'[e].valid = inode[e].valid
                         /\ inode'[e].nlink = inode[e].nlink
  /\ inode[e].ref = 0 => ~inode'[e].valid /\ InUse(i) = {}

LEMMA IgetDoes ==
  ASSUME TypeOK, NEW i \in Inums, NEW e \in Entries, iget(i, e)
  PROVE  IgetDone(i, e)
<1>1. inode \in [Entries -> InodeType] /\ inode[e] \in InodeType
  BY DEF TypeOK, InodeType
<1>2. CASE e \in InUse(i) /\ inode' = [inode EXCEPT ![e].ref = @ + 1]
  <2>1. PICK r : r = [inode[e] EXCEPT !.ref = @ + 1]
    OBVIOUS
  <2>2. /\ r \in InodeType /\ r.inum = inode[e].inum /\ r.ref = inode[e].ref + 1
        /\ r.valid = inode[e].valid /\ r.nlink = inode[e].nlink
    BY <1>1, <2>1 DEF InodeType
  <2>3. inode' = [inode EXCEPT ![e] = r]
    BY <1>2, <2>1
  <2>4. inode[e].ref > 0 /\ inode[e].inum = i
    BY <1>2 DEF InUse
  <2> QED
    BY <1>1, <2>2, <2>3, <2>4 DEF IgetDone, OnlyEntry
<1>3. CASE /\ InUse(i) = {} /\ e \in Empty
           /\ inode' = [inode EXCEPT ![e] = [inum |-> i, ref |-> 1, valid |-> FALSE, nlink |-> 0]]
  <2>1. PICK r : r = [inum |-> i, ref |-> 1, valid |-> FALSE, nlink |-> 0]
    OBVIOUS
  <2>2. r \in InodeType /\ r.inum = i /\ r.ref = 1 /\ ~r.valid
    BY <2>1 DEF InodeType
  <2>3. inode' = [inode EXCEPT ![e] = r]
    BY <1>3, <2>1
  <2>4. inode[e].ref = 0
    BY <1>3 DEF Empty
  <2>5. OnlyEntry(e) /\ inode'[e] = r
    BY <1>1, <2>2, <2>3 DEF OnlyEntry
  <2>6. inode'[e].ref = inode[e].ref + 1 /\ ~(inode[e].ref > 0)
    BY <2>2, <2>4, <2>5
  <2> QED
    BY <1>3, <2>2, <2>5, <2>6 DEF IgetDone
<1> QED
  BY <1>2, <1>3 DEF iget

UnrefDone(e) ==
  /\ OnlyEntry(e)
  /\ inode'[e].ref = inode[e].ref - 1
  /\ inode[e].ref > 1 => /\ inode'[e].inum = inode[e].inum
                         /\ inode'[e].valid = inode[e].valid
                         /\ inode'[e].nlink = inode[e].nlink

LEMMA UnrefDoes ==
  ASSUME TypeOK, NEW e \in Entries, inode[e].ref > 0, Unref(e)
  PROVE  UnrefDone(e)
<1>1. inode \in [Entries -> InodeType] /\ inode[e] \in InodeType
  BY DEF TypeOK, InodeType
<1>2. CASE inode[e].ref = 1
  <2>1. PICK r : r = [inum |-> None, ref |-> 0, valid |-> TRUE, nlink |-> 0]
    OBVIOUS
  <2>2. r \in InodeType /\ r.ref = 0
    BY <2>1 DEF InodeType
  <2>3. inode' = [inode EXCEPT ![e] = r]
    BY <1>1, <1>2, <2>1 DEF Unref, Stale
  <2> QED
    BY <1>1, <1>2, <2>2, <2>3 DEF UnrefDone, OnlyEntry
<1>3. CASE inode[e].ref # 1
  <2>1. PICK r : r = [inode[e] EXCEPT !.ref = @ - 1]
    OBVIOUS
  <2>2. /\ r \in InodeType /\ r.inum = inode[e].inum /\ r.ref = inode[e].ref - 1
        /\ r.valid = inode[e].valid /\ r.nlink = inode[e].nlink
    BY <1>1, <2>1 DEF InodeType
  <2>3. inode' = [inode EXCEPT ![e] = r]
    BY <1>3, <2>1, Zenon DEF Unref
  <2> QED
    BY <1>1, <2>2, <2>3 DEF UnrefDone, OnlyEntry
<1> QED
  BY <1>2, <1>3

(* ilock() reads it, and iput() marks it not read. *)
ReadDone(e) ==
  /\ OnlyEntry(e)
  /\ inode'[e].inum = inode[e].inum /\ inode'[e].ref = inode[e].ref
  /\ inode'[e].valid
  /\ inode'[e].nlink = dinode[inode[e].inum].nlink

LEMMA ReadDoes ==
  ASSUME TypeOK, NEW e \in Entries, inode[e].inum \in Inums,
         inode' = [inode EXCEPT ![e].valid = TRUE, ![e].nlink = dinode[inode[e].inum].nlink]
  PROVE  ReadDone(e)
<1>1. /\ inode \in [Entries -> InodeType] /\ inode[e] \in InodeType
      /\ dinode[inode[e].inum].nlink \in Nat
  BY DEF TypeOK, InodeType
<1>2. PICK u, k : u = TRUE /\ k = dinode[inode[e].inum].nlink
  OBVIOUS
<1>3. PICK r : r = [inode[e] EXCEPT !.valid = u, !.nlink = k]
  OBVIOUS
<1>4. /\ r \in InodeType /\ r.inum = inode[e].inum /\ r.ref = inode[e].ref
      /\ r.valid = u /\ r.nlink = k
  BY <1>1, <1>2, <1>3 DEF InodeType
<1>5. inode' = [inode EXCEPT ![e] = r]
  <2>1. inode' = [inode EXCEPT ![e].valid = u, ![e].nlink = k]
    BY <1>2, Zenon
  <2> QED
    BY <1>1, <1>3, <2>1
<1> QED
  BY <1>1, <1>2, <1>4, <1>5 DEF ReadDone, OnlyEntry

FreedDone(e) ==
  /\ OnlyEntry(e)
  /\ inode'[e].inum = inode[e].inum /\ inode'[e].ref = inode[e].ref
  /\ ~inode'[e].valid

LEMMA FreedDoes ==
  ASSUME TypeOK, NEW e \in Entries,
         inode' = [inode EXCEPT ![e].valid = FALSE, ![e].nlink = 0]
  PROVE  FreedDone(e)
<1>1. inode \in [Entries -> InodeType] /\ inode[e] \in InodeType
  BY DEF TypeOK, InodeType
<1>2. PICK u, k : u = FALSE /\ k = 0
  OBVIOUS
<1>3. PICK r : r = [inode[e] EXCEPT !.valid = u, !.nlink = k]
  OBVIOUS
<1>4. /\ r \in InodeType /\ r.inum = inode[e].inum /\ r.ref = inode[e].ref
      /\ r.valid = u /\ r.nlink = k
  BY <1>1, <1>2, <1>3 DEF InodeType
<1>5. inode' = [inode EXCEPT ![e] = r]
  <2>1. inode' = [inode EXCEPT ![e].valid = u, ![e].nlink = k]
    BY <1>2, Zenon
  <2> QED
    BY <1>1, <1>3, <2>1
<1> QED
  BY <1>1, <1>2, <1>4, <1>5 DEF FreedDone, OnlyEntry

(* The inode and its copy on the disk get k links. *)
DinodeType == [used : BOOLEAN, nlink : Nat]

OnlyInum(i) == /\ dinode' \in [Inums -> DinodeType]
               /\ \A j \in Inums : j # i => dinode'[j] = dinode[j]

LinksDone(e, k) ==
  /\ OnlyEntry(e) /\ OnlyInum(inode[e].inum)
  /\ inode'[e].inum = inode[e].inum /\ inode'[e].ref = inode[e].ref
  /\ inode'[e].valid = inode[e].valid
  /\ inode'[e].nlink = k
  /\ dinode'[inode[e].inum].used = dinode[inode[e].inum].used
  /\ dinode'[inode[e].inum].nlink = k

LEMMA LinksDo ==
  ASSUME TypeOK, NEW e \in Entries, inode[e].inum \in Inums, NEW k \in Nat, SetLinks(e, k)
  PROVE  LinksDone(e, k)
<1>1. /\ inode \in [Entries -> InodeType] /\ inode[e] \in InodeType
      /\ dinode \in [Inums -> DinodeType] /\ dinode[inode[e].inum] \in DinodeType
  BY DEF TypeOK, InodeType, DinodeType
<1>2. PICK r : r = [inode[e] EXCEPT !.nlink = k]
  OBVIOUS
<1>3. /\ r \in InodeType /\ r.inum = inode[e].inum /\ r.ref = inode[e].ref
      /\ r.valid = inode[e].valid /\ r.nlink = k
  BY <1>1, <1>2 DEF InodeType
<1>4. inode' = [inode EXCEPT ![e] = r]
  BY <1>1, <1>2 DEF SetLinks
<1>5. PICK d : d = [dinode[inode[e].inum] EXCEPT !.nlink = k]
  OBVIOUS
<1>6. d \in DinodeType /\ d.used = dinode[inode[e].inum].used /\ d.nlink = k
  BY <1>1, <1>5 DEF DinodeType
<1>7. dinode' = [dinode EXCEPT ![inode[e].inum] = d]
  BY <1>1, <1>5 DEF SetLinks
<1> QED
  BY <1>1, <1>3, <1>4, <1>6, <1>7 DEF LinksDone, OnlyEntry, OnlyInum

(* An inode is made, or freed, on the disk. *)
DinodeDone(i, u) == /\ OnlyInum(i)
                    /\ dinode'[i].used = u
                    /\ dinode'[i].nlink = 0

LEMMA DinodeDoes ==
  ASSUME TypeOK, NEW i \in Inums, NEW u \in BOOLEAN,
         dinode' = [dinode EXCEPT ![i] = [used |-> u, nlink |-> 0]]
  PROVE  DinodeDone(i, u)
<1>1. dinode \in [Inums -> DinodeType]
  BY DEF TypeOK, DinodeType
<1>2. PICK d : d = [used |-> u, nlink |-> 0]
  OBVIOUS
<1>3. d \in DinodeType /\ d.used = u /\ d.nlink = 0
  BY <1>2 DEF DinodeType
<1>4. dinode' = [dinode EXCEPT ![i] = d]
  BY <1>2
<1> QED
  BY <1>1, <1>3, <1>4 DEF DinodeDone, OnlyInum

(* Only file f changes. *)
FileType == [ref : Nat, ip : Entries \cup {None}]

OnlyFile(f) == /\ file' \in [Files -> FileType]
               /\ \A g \in Files : g # f => file'[g] = file[g]

DupDone(f) == OnlyFile(f) /\ file'[f].ref = file[f].ref + 1 /\ file'[f].ip = file[f].ip

LEMMA DupDoes ==
  ASSUME TypeOK, NEW f \in Files, file' = [file EXCEPT ![f].ref = @ + 1]
  PROVE  DupDone(f)
<1>1. file \in [Files -> FileType] /\ file[f] \in FileType
  BY DEF TypeOK, FileType
<1>2. PICK r : r = [file[f] EXCEPT !.ref = @ + 1]
  OBVIOUS
<1>3. r \in FileType /\ r.ref = file[f].ref + 1 /\ r.ip = file[f].ip
  BY <1>1, <1>2 DEF FileType
<1>4. file' = [file EXCEPT ![f] = r]
  BY <1>2
<1> QED
  BY <1>1, <1>3, <1>4 DEF DupDone, OnlyFile

OpenDone(f, e) == OnlyFile(f) /\ file'[f].ref = 1 /\ file'[f].ip = e

LEMMA OpenDoes ==
  ASSUME TypeOK, NEW f \in Files, NEW e \in Entries, file' = [file EXCEPT ![f] = [ref |-> 1, ip |-> e]]
  PROVE  OpenDone(f, e)
<1>1. file \in [Files -> FileType]
  BY DEF TypeOK, FileType
<1>2. PICK r : r = [ref |-> 1, ip |-> e]
  OBVIOUS
<1>3. r \in FileType /\ r.ref = 1 /\ r.ip = e
  BY <1>2 DEF FileType
<1>4. file' = [file EXCEPT ![f] = r]
  BY <1>2
<1> QED
  BY <1>1, <1>3, <1>4 DEF OpenDone, OnlyFile

CloseDone(p, f, l) ==
  /\ OnlyFile(f)
  /\ file'[f].ref = file[f].ref - 1
  /\ \/ /\ file[f].ref > 1
        /\ file'[f].ip = file[f].ip
        /\ pc'[p] = l /\ then'[p] = then[p] /\ put'[p] = put[p]
     \/ /\ file[f].ref = 1
        /\ file'[f].ip = None
        /\ pc'[p] = "iput" /\ then'[p] = l /\ put'[p] = file[f].ip

LEMMA CloseDoes ==
  ASSUME TypeOK, NEW p \in Procs, NEW f \in Files, NEW l, file[f].ref > 0, fileclose(p, f, l)
  PROVE  CloseDone(p, f, l)
<1>1. file \in [Files -> FileType] /\ file[f] \in FileType
  BY DEF TypeOK, FileType
<1>2. CASE file[f].ref > 1
  <2>1. PICK r : r = [file[f] EXCEPT !.ref = @ - 1]
    OBVIOUS
  <2>2. r \in FileType /\ r.ref = file[f].ref - 1 /\ r.ip = file[f].ip
    BY <1>1, <1>2, <2>1 DEF FileType
  <2>3. file' = [file EXCEPT ![f].ref = @ - 1] /\ Goto(p, l) /\ UNCHANGED <<then, put>>
    BY <1>2 DEF fileclose
  <2>4. file' = [file EXCEPT ![f] = r]
    BY <2>1, <2>3
  <2> QED
    BY <1>1, <1>2, <2>2, <2>3, <2>4 DEF CloseDone, OnlyFile, Goto, TypeOK
<1>3. CASE ~(file[f].ref > 1)
  <2>1. PICK r : r = [ref |-> 0, ip |-> None]
    OBVIOUS
  <2>2. r \in FileType /\ r.ref = 0 /\ r.ip = None
    BY <2>1 DEF FileType
  <2>3. file' = [file EXCEPT ![f] = [ref |-> 0, ip |-> None]] /\ IputThen(p, file[f].ip, l)
    BY <1>3 DEF fileclose
  <2>4. file' = [file EXCEPT ![f] = r]
    BY <2>1, <2>3
  <2>5. file[f].ref = 1
    BY <1>1, <1>3 DEF FileType
  <2> QED
    BY <1>1, <2>2, <2>3, <2>4, <2>5 DEF CloseDone, OnlyFile, IputThen, Goto, TypeOK
<1> QED
  BY <1>2, <1>3

(* Only what p has of f changes. *)
OnlyHeld(p, f) ==
  /\ ofile' \in [Procs -> [Files -> Nat]]
  /\ vma' \in [Procs -> Files \cup {None}]
  /\ \A q \in Procs, g \in Files : q # p \/ g # f => Holds(q, g)' = Holds(q, g)
  /\ \A q \in Procs : q # p => vma'[q] = vma[q] /\ ofile'[q] = ofile[q]

LEMMA FdDoes ==
  ASSUME TypeOK, NEW p \in Procs, NEW f \in Files, NEW k \in Nat,
         ofile' = [ofile EXCEPT ![p][f] = k], vma' = vma
  PROVE  /\ OnlyHeld(p, f)
         /\ Holds(p, f)' = Holds(p, f) - ofile[p][f] + k
<1>1. ofile \in [Procs -> [Files -> Nat]] /\ ofile[p] \in [Files -> Nat]
  BY DEF TypeOK
<1>2. PICK r : r = [ofile[p] EXCEPT ![f] = k]
  OBVIOUS
<1>3. r \in [Files -> Nat] /\ r[f] = k /\ \A g \in Files : g # f => r[g] = ofile[p][g]
  BY <1>1, <1>2
<1>4. ofile' = [ofile EXCEPT ![p] = r]
  BY <1>2
<1>5. ofile'[p] = r /\ \A q \in Procs : q # p => ofile'[q] = ofile[q]
  BY <1>1, <1>4
<1>6. ofile' \in [Procs -> [Files -> Nat]] /\ vma' \in [Procs -> Files \cup {None}]
  BY <1>1, <1>3, <1>4 DEF TypeOK
<1>7. \A q \in Procs, g \in Files : q # p \/ g # f => Holds(q, g)' = Holds(q, g)
  BY <1>3, <1>5 DEF Holds
<1>8. Holds(p, f)' = Holds(p, f) - ofile[p][f] + k
  <2>1. ofile[p][f] \in Nat /\ ofile'[p][f] = k
    BY <1>1, <1>3, <1>5
  <2> QED
    BY <2>1 DEF Holds
<1> QED
  BY <1>5, <1>6, <1>7, <1>8 DEF OnlyHeld

LEMMA AreaDoes ==
  ASSUME TypeOK, NEW p \in Procs, NEW f \in Files, ofile' = ofile,
         \/ vma[p] = None /\ vma' = [vma EXCEPT ![p] = f]
         \/ vma[p] = f /\ vma' = [vma EXCEPT ![p] = None]
  PROVE  /\ OnlyHeld(p, f)
         /\ vma[p] = None => Holds(p, f)' = Holds(p, f) + 1
         /\ vma[p] = f => Holds(p, f)' = Holds(p, f) - 1
<1>1. /\ vma \in [Procs -> Files \cup {None}] /\ None \notin Files
      /\ ofile \in [Procs -> [Files -> Nat]] /\ ofile[p][f] \in Nat
  BY Nones DEF TypeOK
<1>2. /\ vma' \in [Procs -> Files \cup {None}]
      /\ \A q \in Procs : q # p => vma'[q] = vma[q]
      /\ vma[p] = None => vma'[p] = f
      /\ vma[p] = f => vma'[p] = None
      /\ vma[p] \in {f, None}
  BY <1>1
<1>3. \A q \in Procs, g \in Files : q # p \/ g # f => Holds(q, g)' = Holds(q, g)
  BY <1>1, <1>2 DEF Holds
<1> QED
  BY <1>1, <1>2, <1>3 DEF OnlyHeld, Holds

(* fork() *)
LEMMA ForkDoes ==
  ASSUME Inv, NEW p \in Procs, NEW q \in Procs, Fork(p, q)
  PROVE  /\ p # q
         /\ \A f \in Files : Holds(q, f) = 0
         /\ \A f \in Files : Holds(q, f)' = Holds(p, f)
         /\ \A r \in Procs, f \in Files : r # q => Holds(r, f)' = Holds(r, f)
         /\ \A r \in Procs : r # q => vma'[r] = vma[r] /\ alive'[r] = alive[r]
         /\ alive'[q]
         /\ ofile' \in [Procs -> [Files -> Nat]]
         /\ vma' \in [Procs -> Files \cup {None}]
         /\ alive' \in [Procs -> BOOLEAN]
         /\ file' \in [Files -> FileType]
         /\ \A f \in Files : /\ file'[f].ref = file[f].ref + Holds(p, f)
                             /\ file'[f].ip = file[f].ip
<1>1. TypeOK /\ HeldInv(q)
  BY Parts
<1>2. /\ ofile \in [Procs -> [Files -> Nat]] /\ vma \in [Procs -> Files \cup {None}]
      /\ file \in [Files -> FileType] /\ alive \in [Procs -> BOOLEAN]
  BY <1>1 DEF TypeOK, FileType
<1>3. /\ alive[p] /\ ~alive[q]
      /\ alive' = [alive EXCEPT ![q] = TRUE]
      /\ vma' = [vma EXCEPT ![q] = vma[p]]
      /\ ofile' = [ofile EXCEPT ![q] = ofile[p]]
      /\ file' = [f \in Files |-> [file[f] EXCEPT !.ref = @ + Holds(p, f)]]
  BY DEF Fork, Idle
<1>4. p # q /\ \A f \in Files : Holds(q, f) = 0
  BY <1>1, <1>3 DEF HeldInv
<1>5. /\ ofile' \in [Procs -> [Files -> Nat]]
      /\ vma' \in [Procs -> Files \cup {None}]
      /\ ofile'[q] = ofile[p] /\ vma'[q] = vma[p]
      /\ \A r \in Procs : r # q => ofile'[r] = ofile[r] /\ vma'[r] = vma[r]
  BY <1>2, <1>3
<1>6. /\ alive'[q] /\ alive' \in [Procs -> BOOLEAN]
      /\ \A r \in Procs : r # q => alive'[r] = alive[r]
  BY <1>2, <1>3
<1>7. /\ \A f \in Files : Holds(q, f)' = Holds(p, f)
      /\ \A r \in Procs, f \in Files : r # q => Holds(r, f)' = Holds(r, f)
  BY <1>5 DEF Holds
<1>8. ASSUME NEW f \in Files
      PROVE  /\ file'[f] \in FileType
             /\ file'[f].ref = file[f].ref + Holds(p, f)
             /\ file'[f].ip = file[f].ip
  <2>1. file[f] \in FileType /\ Holds(p, f) \in Nat
    BY <1>1, <1>2, HoldsType
  <2>2. file'[f] = [file[f] EXCEPT !.ref = @ + Holds(p, f)]
    BY <1>3
  <2>3. PICK h \in Nat : h = Holds(p, f)
    BY <2>1
  <2>4. file'[f] = [file[f] EXCEPT !.ref = @ + h]
    BY <2>2, <2>3
  <2> QED
    BY <2>1, <2>3, <2>4 DEF FileType
<1>9. file' \in [Files -> FileType]
  <2>1. DOMAIN file' = Files /\ file' = [f \in Files |-> file'[f]]
    BY <1>3
  <2> QED
    BY <1>8, <2>1
<1> QED
  BY <1>4, <1>5, <1>6, <1>7, <1>8, <1>9

-----------------------------------------------------------------------------
(* What each step does.                                                    *)

(* Where p is, and what its call works on, after the step. *)
Now(p, c, t, k, i, u, n) ==
  pc'[p] = c /\ then'[p] = t /\ call'[p] = k /\ ip'[p] = i /\ put'[p] = u /\ inum'[p] = n

(* The others are where they were. *)
OthersStay(p) == \A q \in Procs : q # p =>
  /\ pc'[q] = pc[q] /\ then'[q] = then[q] /\ call'[q] = call[q]
  /\ ip'[q] = ip[q] /\ put'[q] = put[q] /\ inum'[q] = inum[q]

LocalsType == /\ pc' \in [Procs -> PCs]
              /\ then' \in [Procs -> PCs]
              /\ call' \in [Procs -> [op : Ops, name : Names \cup {None}, new : Names \cup {None}]]
              /\ ip' \in [Procs -> Entries \cup {None}]
              /\ put' \in [Procs -> Entries \cup {None}]
              /\ inum' \in [Procs -> Inums \cup {None}]

Step(p) == \/ (FsStep(p) \/ UserStep(p)) /\ UNCHANGED <<orphans, unchecked>>
           \/ UnrefFreed(p) /\ orphans' = orphans \cup Orphans /\ UNCHANGED unchecked

LEMMA NextIs ==
  ASSUME Next
  PROVE  \/ \E p \in Procs : Step(p)
         \/ \E p \in Procs : Unchecked(p) /\ unchecked' = TRUE /\ UNCHANGED orphans
BY DEF Next, Step

(* The kernel stops, and all stays as it is. *)
Stopped == /\ UNCHANGED <<dir, dinode, inode, lock, dirlock, file, ofile, vma, alive>>
           /\ UNCHANGED <<pc, then, call, ip, put, inum>>
           /\ panic' \in {"iget: no inodes", "ialloc: no inodes"}

(* What p has an inode for is in the table, and on the disk. *)
LEMMA Working ==
  ASSUME Inv, NEW p \in Procs, ip[p] # None
  PROVE  /\ ip[p] \in Entries /\ inode[ip[p]].ref > 0
         /\ inode[ip[p]].inum \in Inums /\ dinode[inode[ip[p]].inum].used
         /\ inode[ip[p]].nlink \in Nat
<1>1. ip[p] \in Entries /\ inode[ip[p]].ref > 0
  BY InTable
<1>2. inode[ip[p]].nlink \in Nat
  BY <1>1, Parts DEF TypeOK
<1> QED
  BY <1>1, <1>2, InUseOnDisk

(* A process that works on an inode of its own has its lock, and one that  *)
(* is in the directory has that. *)
LEMMA Holding ==
  ASSUME Inv, NEW p \in Procs
  PROVE  /\ pc[p] \in Opening \cup Shared \cup {"read", "unlinked"} =>
              ip[p] \in Entries /\ lock[ip[p]] = p
         /\ HasDirlock(p) => dirlock = p
<1>1. LockInv(p)
  BY Parts
<1>2. ASSUME pc[p] \in Opening \cup Shared \cup {"read", "unlinked"}
      PROVE  ip[p] \in Entries /\ lock[ip[p]] = p
  <2>1. HasLock(p) /\ Locked(p) = ip[p]
    BY <1>2 DEF HasLock, Locked, Putting, Opening, Shared
  <2> QED
    BY <2>1, OneLocks
<1> QED
  BY <1>1, <1>2 DEF LockInv

FoundDone(p, e) ==
  /\ pc[p] = "dirlookup" /\ ip[p] = None /\ put[p] = None /\ inum[p] = None
  /\ call[p].op \in {"open", "create", "unlink", "link"}
  /\ call[p].name \in Names /\ dir[call[p].name] \in Inums
  /\ IgetDone(dir[call[p].name], e)
  /\ Now(p, "ilock", IF call[p].op = "create" THEN "open" ELSE call[p].op, call[p], e, None, None)
  /\ dirlock = p /\ dirlock' = IF call[p].op = "unlink" THEN p ELSE None
  /\ UNCHANGED <<dir, dinode, lock, file, ofile, vma, alive, panic>>

LEMMA FoundDoes ==
  ASSUME Inv, NEW p \in Procs, Found(p)
  PROVE  Stopped \/ \E e \in Entries : FoundDone(p, e)
<1>1. TypeOK /\ CallInv(p)
  BY Parts
<1>2. pc[p] = "dirlookup" /\ Stage(p) = "dirlookup"
  BY DEF Found, At, Stage, Putting
<1>3. /\ ip[p] = None /\ put[p] = None /\ inum[p] = None /\ call[p].op # "none"
      /\ call[p].name # None
  BY <1>2, <1>1 DEF CallInv, Opening, Shared, Putting
<1>4. call[p].name \in Names /\ call[p].op \in {"open", "create", "unlink", "link"}
  BY <1>1, <1>3 DEF TypeOK, Ops
<1>5. dir[call[p].name] \in Inums
  BY <1>1, <1>4 DEF Found, TypeOK
<1>6. dirlock = p
  BY <1>2, Holding DEF HasDirlock
<1>7. CASE NoEntry(dir[call[p].name])
  BY <1>7 DEF Found, Panic, Stopped, fs, locks, held, locals
<1>8. CASE ~NoEntry(dir[call[p].name])
  <2>1. PICK e \in Entries : iget(dir[call[p].name], e) /\ ip' = [ip EXCEPT ![p] = e]
    BY <1>8 DEF Found
  <2>2. IgetDone(dir[call[p].name], e)
    BY <1>1, <1>5, <2>1, IgetDoes
  <2>3. /\ UNCHANGED <<dir, dinode, lock, file, ofile, vma, alive, panic>>
        /\ dirlock' = IF call[p].op = "unlink" THEN p ELSE None
    BY <1>8 DEF Found, fs, held
  <2>4. Now(p, "ilock", IF call[p].op = "create" THEN "open" ELSE call[p].op, call[p], e, None, None)
    BY <1>1, <1>3, <1>8, <2>1 DEF Found, IlockThen, Goto, TypeOK, Now
  <2>5. FoundDone(p, e)
    BY <1>2, <1>3, <1>4, <1>5, <1>6, <2>2, <2>3, <2>4 DEF FoundDone
  <2> QED
    BY <2>5
<1> QED
  BY <1>7, <1>8

AllocDone(p, i) ==
  /\ pc[p] = "dirlookup" /\ ip[p] = None /\ put[p] = None /\ inum[p] = None
  /\ call[p].op = "create" /\ call[p].name \in Names /\ dir[call[p].name] = None
  /\ ~dinode[i].used
  /\ DinodeDone(i, TRUE)
  /\ Now(p, "iget", then[p], call[p], None, None, i)
  /\ dirlock = p
  /\ UNCHANGED <<dir, inode, lock, dirlock, file, ofile, vma, alive, panic>>

LEMMA IallocDoes ==
  ASSUME Inv, NEW p \in Procs, Ialloc(p)
  PROVE  Stopped \/ \E i \in Inums : AllocDone(p, i)
<1>1. TypeOK /\ CallInv(p)
  BY Parts
<1>2. pc[p] = "dirlookup" /\ Stage(p) = "dirlookup"
  BY DEF Ialloc, At, Stage, Putting
<1>3. /\ ip[p] = None /\ put[p] = None /\ inum[p] = None /\ call[p].op # "none"
      /\ call[p].name # None
  BY <1>2, <1>1 DEF CallInv, Opening, Shared, Putting
<1>4. call[p].name \in Names
  BY <1>1, <1>3 DEF TypeOK
<1>5. dir[call[p].name] = None /\ call[p].op = "create"
  BY DEF Ialloc
<1>6. dirlock = p
  BY <1>2, Holding DEF HasDirlock
<1>7. CASE FreeInums = {}
  BY <1>7 DEF Ialloc, Panic, Stopped, fs, locks, held, locals
<1>8. CASE FreeInums # {}
  <2>1. PICK i \in FreeInums : /\ inum' = [inum EXCEPT ![p] = i]
                               /\ dinode' = [dinode EXCEPT ![i] = [used |-> TRUE, nlink |-> 0]]
    BY <1>8 DEF Ialloc
  <2>2. i \in Inums /\ ~dinode[i].used
    BY <2>1 DEF FreeInums
  <2>3. PICK u \in BOOLEAN : u = TRUE
    OBVIOUS
  <2>4. dinode' = [dinode EXCEPT ![i] = [used |-> u, nlink |-> 0]]
    BY <2>1, <2>3, Zenon
  <2>5. DinodeDone(i, u)
    BY <1>1, <2>2, <2>4, DinodeDoes
  <2>6. DinodeDone(i, TRUE)
    BY <2>3, <2>5, Zenon
  <2>7. UNCHANGED <<dir, inode, lock, dirlock, file, ofile, vma, alive, panic>>
    BY <1>8 DEF Ialloc, locks, held
  <2>8. Now(p, "iget", then[p], call[p], None, None, i)
    BY <1>1, <1>3, <1>8, <2>1, <2>2 DEF Ialloc, Goto, TypeOK, Now
  <2>9. AllocDone(p, i)
    BY <1>2, <1>3, <1>4, <1>5, <1>6, <2>2, <2>6, <2>7, <2>8 DEF AllocDone
  <2> QED
    BY <2>2, <2>9
<1> QED
  BY <1>7, <1>8

IallocIgetDone(p, e) ==
  /\ pc[p] = "iget" /\ ip[p] = None /\ put[p] = None /\ inum[p] \in Inums
  /\ call[p].op = "create"
  /\ IgetDone(inum[p], e)
  /\ Now(p, "ilock", "create", call[p], e, None, inum[p])
  /\ dirlock = p
  /\ UNCHANGED <<dir, dinode, lock, dirlock, file, ofile, vma, alive, panic>>

LEMMA IallocIgetDoes ==
  ASSUME Inv, NEW p \in Procs, IallocIget(p)
  PROVE  Stopped \/ \E e \in Entries : IallocIgetDone(p, e)
<1>1. TypeOK /\ CallInv(p)
  BY Parts
<1>2. pc[p] = "iget" /\ Stage(p) = "iget"
  BY DEF IallocIget, At, Stage, Putting
<1>3. ip[p] = None /\ put[p] = None /\ inum[p] # None /\ call[p].op = "create"
  BY <1>2, <1>1 DEF CallInv, Opening, Shared, Putting
<1>4. inum[p] \in Inums
  BY <1>1, <1>3 DEF TypeOK
<1>5. dirlock = p
  BY <1>2, Holding DEF HasDirlock
<1>6. CASE NoEntry(inum[p])
  BY <1>6 DEF IallocIget, Panic, Stopped, fs, locks, held, locals
<1>7. CASE ~NoEntry(inum[p])
  <2>1. PICK e \in Entries : iget(inum[p], e) /\ ip' = [ip EXCEPT ![p] = e]
    BY <1>7 DEF IallocIget
  <2>2. IgetDone(inum[p], e)
    BY <1>1, <1>4, <2>1, IgetDoes
  <2>3. UNCHANGED <<dir, dinode, lock, dirlock, file, ofile, vma, alive, panic>>
    BY <1>7 DEF IallocIget, fs, locks, held
  <2>4. Now(p, "ilock", "create", call[p], e, None, inum[p])
    BY <1>1, <1>3, <1>7, <2>1 DEF IallocIget, IlockThen, Goto, TypeOK, Now
  <2>5. IallocIgetDone(p, e)
    BY <1>2, <1>3, <1>4, <1>5, <2>2, <2>3, <2>4 DEF IallocIgetDone
  <2> QED
    BY <2>5
<1> QED
  BY <1>6, <1>7

DirlinkFailsDone(p, e) ==
  /\ pc[p] = "dirlink" /\ ip[p] \in Entries /\ put[p] = None /\ inum[p] = None
  /\ call[p].op = "link" /\ call[p].new \in Names /\ dir[call[p].new] \in Inums
  /\ IgetDone(dir[call[p].new], e)
  /\ Now(p, "iput", "bad", call[p], ip[p], e, None)
  /\ dirlock = p
  /\ UNCHANGED <<dir, dinode, lock, dirlock, file, ofile, vma, alive, panic>>

LEMMA DirlinkFailsDoes ==
  ASSUME Inv, NEW p \in Procs, DirlinkFails(p)
  PROVE  Stopped \/ \E e \in Entries : DirlinkFailsDone(p, e)
<1>1. TypeOK /\ CallInv(p)
  BY Parts
<1>2. pc[p] = "dirlink" /\ Stage(p) = "dirlink"
  BY DEF DirlinkFails, At, Stage, Putting
<1>3. ip[p] \in Entries /\ put[p] = None /\ inum[p] = None /\ call[p].op = "link"
  BY <1>2, <1>1 DEF CallInv, Opening, Shared, Putting, TypeOK
<1>4. call[p].new \in Names
  BY <1>1, <1>3 DEF TypeOK, CallInv
<1>5. dir[call[p].new] \in Inums
  BY <1>1, <1>4 DEF DirlinkFails, TypeOK
<1>6. dirlock = p
  BY <1>2, Holding DEF HasDirlock
<1>7. CASE NoEntry(dir[call[p].new])
  BY <1>7 DEF DirlinkFails, Panic, Stopped, fs, locks, held, locals
<1>8. CASE ~NoEntry(dir[call[p].new])
  <2>1. PICK e \in Entries : iget(dir[call[p].new], e) /\ IputThen(p, e, "bad")
    BY <1>8 DEF DirlinkFails
  <2>2. IgetDone(dir[call[p].new], e)
    BY <1>1, <1>5, <2>1, IgetDoes
  <2>3. UNCHANGED <<dir, dinode, lock, dirlock, file, ofile, vma, alive, panic>>
    BY <1>8 DEF DirlinkFails, fs, locks, held
  <2>4. Now(p, "iput", "bad", call[p], ip[p], e, None)
    BY <1>1, <1>3, <1>8, <2>1 DEF DirlinkFails, IputThen, Goto, TypeOK, Now
  <2>5. DirlinkFailsDone(p, e)
    BY <1>2, <1>3, <1>4, <1>5, <1>6, <2>2, <2>3, <2>4 DEF DirlinkFailsDone
  <2> QED
    BY <2>5
<1> QED
  BY <1>7, <1>8

ReadInodeDone(p) ==
  /\ pc[p] = "read" /\ then[p] \in Opening \cup Shared \cup {"unlinked"}
  /\ ip[p] \in Entries /\ inode[ip[p]].inum \in Inums /\ put[p] = None
  /\ lock[ip[p]] = p
  /\ ReadDone(ip[p])
  /\ Now(p, then[p], then[p], call[p], ip[p], None, inum[p])
  /\ UNCHANGED <<dir, dinode, lock, dirlock, file, ofile, vma, alive, panic>>

(* It has a type. *)
LEMMA ReadInodeDoes ==
  ASSUME Inv, NEW p \in Procs, ReadInode(p)
  PROVE  ReadInodeDone(p)
<1>1. TypeOK /\ CallInv(p)
  BY Parts
<1>2. pc[p] = "read" /\ Stage(p) = then[p] /\ then[p] \in Opening \cup Shared \cup {"unlinked"}
  BY <1>1 DEF ReadInode, At, Stage, CallInv
<1>3. ip[p] # None /\ put[p] = None
  BY <1>1, <1>2 DEF CallInv, Putting
<1>4. /\ ip[p] \in Entries /\ inode[ip[p]].inum \in Inums
      /\ dinode[inode[ip[p]].inum].used
  BY <1>3, Working
<1>5. /\ inode' = [inode EXCEPT ![ip[p]].valid = TRUE,
                                ![ip[p]].nlink = dinode[inode[ip[p]].inum].nlink]
      /\ Goto(p, then[p])
      /\ UNCHANGED <<fs, locks, file, held, then, locals, panic>>
  BY <1>4 DEF ReadInode
<1>6. ReadDone(ip[p])
  BY <1>1, <1>4, <1>5, ReadDoes
<1>7. lock[ip[p]] = p
  BY <1>2, Holding
<1>8. Now(p, then[p], then[p], call[p], ip[p], None, inum[p])
  BY <1>1, <1>3, <1>5 DEF Now, Goto, TypeOK, locals
<1> QED
  BY <1>2, <1>3, <1>4, <1>5, <1>6, <1>7, <1>8 DEF ReadInodeDone, fs, locks, held

(* iput() drops the reference. *)
UnrefPutDone(p) ==
  /\ put[p] \in Entries /\ inode[put[p]].ref > 0
  /\ UnrefDone(put[p])
  /\ Now(p, then[p], then[p], call[p], ip[p], None, inum[p])
  /\ UNCHANGED <<dir, dinode, lock, dirlock, file, ofile, vma, alive, panic>>

IputDone(p) == /\ pc[p] = "iput" /\ then[p] \in {"user", "exit", "bad"}
               /\ ~LastReference(put[p])
               /\ UnrefPutDone(p)

ToFreeDone(p) ==
  /\ pc[p] = "iput" /\ then[p] \in {"user", "exit", "bad"} /\ put[p] \in Entries
  /\ LastReference(put[p]) /\ lock[put[p]] = None
  /\ lock' = [lock EXCEPT ![put[p]] = p]
  /\ Now(p, "free", then[p], call[p], ip[p], put[p], inum[p])
  /\ UNCHANGED <<dir, dinode, inode, dirlock, file, ofile, vma, alive, panic>>

(* Nobody has the sleep lock when the last reference is dropped. *)
LEMMA IputDoes ==
  ASSUME Inv, NEW p \in Procs, Iput(p)
  PROVE  IputDone(p) \/ ToFreeDone(p)
<1>1. TypeOK /\ CallInv(p) /\ InodeRefs
  BY Parts
<1>2. pc[p] = "iput" /\ then[p] \in {"user", "exit", "bad"} /\ put[p] # None
  BY <1>1 DEF Iput, At, CallInv, Putting
<1>3. put[p] \in Entries /\ inode[put[p]].ref > 0
  BY <1>2, PutInTable
<1>4. CASE ~LastReference(put[p])
  <2>1. Unref(put[p])
    BY <1>4 DEF Iput
  <2>2. UnrefDone(put[p])
    BY <1>1, <1>3, <2>1, UnrefDoes
  <2>3. Now(p, then[p], then[p], call[p], ip[p], None, inum[p])
    BY <1>1, <1>4 DEF Iput, Now, Goto, TypeOK
  <2>4. UnrefPutDone(p)
    BY <1>3, <1>4, <2>2, <2>3 DEF Iput, UnrefPutDone, fs, locks, held
  <2> QED
    BY <1>2, <1>4, <2>4 DEF IputDone
<1>5. CASE LastReference(put[p])
  <2>1. lock[put[p]] = None
    <3> SUFFICES ASSUME lock[put[p]] # None PROVE FALSE
      OBVIOUS
    <3>1. PICK q \in Procs : lock[put[p]] = q
      BY <1>1, <1>3 DEF TypeOK
    <3>2. HasLock(q) /\ Locked(q) = put[p]
      <4>1. LockInv(q)
        BY Parts
      <4> QED
        BY <1>3, <3>1, <4>1 DEF LockInv
    <3>3. FilesOf(put[p]) = {} /\ Calls(put[p]) = {} /\ Puts(put[p]) = {p}
      BY <1>1, <1>3, <1>5, EntryCounts DEF LastReference
    <3>4. CASE pc[q] \in Putting
      <4>1. q \in Puts(put[p])
        BY <3>2, <3>4 DEF Locked, Puts
      <4>2. q = p
        BY <3>3, <4>1
      <4> QED
        BY <1>2, <3>2, <4>2 DEF HasLock, Opening, Shared
    <3>5. CASE pc[q] \notin Putting
      <4>1. ip[q] = put[p]
        BY <3>2, <3>5 DEF Locked
      <4>2. call[q].op # "none" \/ FilesOf(ip[q]) # {}
        BY <1>2, <4>1, InTable
      <4>3. q \in Calls(put[p])
        BY <3>3, <4>1, <4>2 DEF Calls
      <4> QED
        BY <3>3, <4>3
    <3> QED
      BY <3>4, <3>5
  <2>2. Now(p, "free", then[p], call[p], ip[p], put[p], inum[p])
    BY <1>1, <1>5, <2>1 DEF Iput, Now, Goto, TypeOK, locals
  <2>3. /\ lock' = [lock EXCEPT ![put[p]] = p]
        /\ UNCHANGED <<dir, dinode, inode, dirlock, file, ofile, vma, alive, panic>>
    BY <1>5, <2>1 DEF Iput, fs, held
  <2> QED
    BY <1>2, <1>3, <1>5, <2>1, <2>2, <2>3 DEF ToFreeDone
<1> QED
  BY <1>4, <1>5

FreeInodeDone(p) ==
  /\ pc[p] = "free" /\ put[p] \in Entries /\ inode[put[p]].inum \in Inums
  /\ lock[put[p]] = p
  /\ DinodeDone(inode[put[p]].inum, FALSE)
  /\ Now(p, "freed", then[p], call[p], ip[p], put[p], inum[p])
  /\ UNCHANGED <<dir, inode, lock, dirlock, file, ofile, vma, alive, panic>>

LEMMA FreeInodeDoes ==
  ASSUME Inv, NEW p \in Procs, FreeInode(p)
  PROVE  FreeInodeDone(p)
<1>1. TypeOK
  BY Parts
<1>2. pc[p] = "free"
  BY DEF FreeInode, At
<1>3. put[p] \in Entries /\ inode[put[p]].inum \in Inums
  BY <1>2, FreeingIs
<1>4. PICK u \in BOOLEAN : u = FALSE
  OBVIOUS
<1>5. dinode' = [dinode EXCEPT ![inode[put[p]].inum] = [used |-> FALSE, nlink |-> 0]]
  BY DEF FreeInode
<1>6. dinode' = [dinode EXCEPT ![inode[put[p]].inum] = [used |-> u, nlink |-> 0]]
  BY <1>4, <1>5, Zenon
<1>7. DinodeDone(inode[put[p]].inum, u)
  BY <1>1, <1>3, <1>6, DinodeDoes
<1>8. DinodeDone(inode[put[p]].inum, FALSE)
  BY <1>4, <1>7, Zenon
<1>9. lock[put[p]] = p
  <2>1. HasLock(p) /\ Locked(p) = put[p]
    BY <1>2 DEF HasLock, Locked, Putting
  <2> QED
    BY <2>1, OneLocks
<1>10. Now(p, "freed", then[p], call[p], ip[p], put[p], inum[p])
  BY <1>1 DEF FreeInode, Now, Goto, TypeOK, locals
<1> QED
  BY <1>2, <1>3, <1>8, <1>9, <1>10 DEF FreeInode, FreeInodeDone, locks, held

FreedPutDone(p) ==
  /\ pc[p] = "freed" /\ put[p] \in Entries /\ inode[put[p]].inum \in Inums
  /\ lock[put[p]] = p
  /\ FreedDone(put[p])
  /\ lock' = [lock EXCEPT ![put[p]] = None]
  /\ Now(p, "unref", then[p], call[p], ip[p], put[p], inum[p])
  /\ UNCHANGED <<dir, dinode, dirlock, file, ofile, vma, alive, panic>>

LEMMA FreedStep ==
  ASSUME Inv, NEW p \in Procs, Freed(p)
  PROVE  FreedPutDone(p)
<1>1. TypeOK
  BY Parts
<1>2. pc[p] = "freed"
  BY DEF Freed, At
<1>3. put[p] \in Entries /\ inode[put[p]].inum \in Inums
  BY <1>2, FreeingIs
<1>4. inode' = [inode EXCEPT ![put[p]].valid = FALSE, ![put[p]].nlink = 0]
  BY DEF Freed
<1>5. FreedDone(put[p])
  BY <1>1, <1>3, <1>4, FreedDoes
<1>6. lock[put[p]] = p
  <2>1. HasLock(p) /\ Locked(p) = put[p]
    BY <1>2 DEF HasLock, Locked, Putting
  <2> QED
    BY <2>1, OneLocks
<1>7. Now(p, "unref", then[p], call[p], ip[p], put[p], inum[p])
  BY <1>1 DEF Freed, Now, Goto, TypeOK, locals
<1> QED
  BY <1>2, <1>3, <1>5, <1>6, <1>7 DEF Freed, FreedPutDone, Unlock, fs, held

UnrefFreedDone(p) == /\ pc[p] = "unref" /\ then[p] \in {"user", "exit"}
                     /\ UnrefPutDone(p)
                     /\ orphans' = orphans \cup Orphans
                     /\ panic = "no" /\ ~unchecked

LEMMA UnrefFreedDoes ==
  ASSUME Inv, NEW p \in Procs, UnrefFreed(p), orphans' = orphans \cup Orphans
  PROVE  UnrefFreedDone(p)
<1>1. TypeOK /\ CallInv(p) /\ FreeInv(p)
  BY Parts
<1>2. pc[p] = "unref" /\ put[p] # None /\ then[p] \in {"user", "exit"} /\ panic = "no" /\ ~unchecked
  BY <1>1 DEF UnrefFreed, At, CallInv, Putting, FreeInv, Freeing
<1>3. put[p] \in Entries /\ inode[put[p]].ref > 0
  BY <1>2, PutInTable
<1>4. UnrefDone(put[p])
  BY <1>1, <1>3, UnrefDoes DEF UnrefFreed
<1>5. Now(p, then[p], then[p], call[p], ip[p], None, inum[p])
  BY <1>1 DEF UnrefFreed, Now, Goto, TypeOK
<1>6. UnrefPutDone(p)
  BY <1>3, <1>4, <1>5 DEF UnrefFreed, UnrefPutDone, fs, locks, held
<1> QED
  BY <1>2, <1>6 DEF UnrefFreedDone

CreateDone(p) ==
  /\ pc[p] = "create" /\ ip[p] \in Entries /\ put[p] = None
  /\ inum[p] \in Inums /\ inode[ip[p]].inum = inum[p]
  /\ call[p].op = "create" /\ call[p].name \in Names
  /\ LinksDone(ip[p], 1)
  /\ dir' = [dir EXCEPT ![call[p].name] = inum[p]]
  /\ Now(p, "open", then[p], call[p], ip[p], None, inum[p])
  /\ lock[ip[p]] = p /\ dirlock = p /\ dirlock' = None
  /\ UNCHANGED <<lock, file, ofile, vma, alive, panic>>

LEMMA CreateDoes ==
  ASSUME Inv, NEW p \in Procs, Create(p)
  PROVE  CreateDone(p)
<1>1. TypeOK /\ CallInv(p) /\ HeldInv(p)
  BY Parts
<1>2. pc[p] = "create" /\ Stage(p) = "create"
  BY DEF Create, At, Stage, Putting
<1>3. ip[p] # None /\ put[p] = None /\ inum[p] # None /\ call[p].op = "create"
  BY <1>2, <1>1 DEF CallInv, Opening, Shared, Putting
<1>4. call[p].name \in Names /\ inum[p] \in Inums /\ inode[ip[p]].inum = inum[p]
  BY <1>1, <1>3 DEF TypeOK, CallInv, HeldInv
<1>5. ip[p] \in Entries /\ inode[ip[p]].inum \in Inums
  BY <1>3, Working
<1>6. LinksDone(ip[p], 1)
  BY <1>1, <1>5, LinksDo DEF Create
<1>7. dirlock = p /\ lock[ip[p]] = p
  BY <1>2, Holding DEF HasDirlock, Opening
<1>8. Now(p, "open", then[p], call[p], ip[p], None, inum[p])
  BY <1>1, <1>3 DEF Create, Now, Goto, TypeOK, locals
<1> QED
  BY <1>2, <1>3, <1>4, <1>5, <1>6, <1>7, <1>8 DEF Create, CreateDone, held

LinkDone(p) ==
  /\ pc[p] = "link" /\ ip[p] \in Entries /\ put[p] = None /\ inum[p] = None
  /\ call[p].op = "link"
  /\ inode[ip[p]].inum \in Inums
  /\ LinksDone(ip[p], inode[ip[p]].nlink + 1)
  /\ Now(p, "nameiparent", then[p], call[p], ip[p], None, None)
  /\ lock[ip[p]] = p /\ lock' = [lock EXCEPT ![ip[p]] = None]
  /\ UNCHANGED <<dir, dirlock, file, ofile, vma, alive, panic>>

LEMMA LinkDoes ==
  ASSUME Inv, NEW p \in Procs, Link(p)
  PROVE  LinkDone(p)
<1>1. TypeOK /\ CallInv(p)
  BY Parts
<1>2. pc[p] = "link" /\ Stage(p) = "link"
  BY DEF Link, At, Stage, Putting
<1>3. ip[p] # None /\ put[p] = None /\ inum[p] = None /\ call[p].op = "link"
  BY <1>2, <1>1 DEF CallInv, Opening, Shared, Putting
<1>4. ip[p] \in Entries /\ inode[ip[p]].inum \in Inums /\ inode[ip[p]].nlink + 1 \in Nat
  BY <1>3, Working
<1>5. LinksDone(ip[p], inode[ip[p]].nlink + 1)
  BY <1>1, <1>4, LinksDo DEF Link
<1>6. lock[ip[p]] = p
  BY <1>2, Holding DEF Opening
<1>7. Now(p, "nameiparent", then[p], call[p], ip[p], None, None)
  BY <1>1, <1>3 DEF Link, Now, Goto, TypeOK, locals
<1> QED
  BY <1>2, <1>3, <1>4, <1>5, <1>6, <1>7 DEF Link, LinkDone, Unlock, held

DirlinkDone(p) ==
  /\ pc[p] = "dirlink" /\ ip[p] \in Entries /\ put[p] = None /\ inum[p] = None
  /\ inode[ip[p]].inum \in Inums
  /\ call[p].op = "link" /\ call[p].new \in Names /\ dir[call[p].new] = None
  /\ dir' = [dir EXCEPT ![call[p].new] = inode[ip[p]].inum]
  /\ Now(p, "iput", "user", NoCall, None, ip[p], None)
  /\ dirlock = p /\ dirlock' = None
  /\ UNCHANGED <<dinode, inode, lock, file, ofile, vma, alive, panic>>

LEMMA DirlinkDoes ==
  ASSUME Inv, NEW p \in Procs, Dirlink(p)
  PROVE  DirlinkDone(p)
<1>1. TypeOK /\ CallInv(p)
  BY Parts
<1>2. pc[p] = "dirlink" /\ Stage(p) = "dirlink"
  BY DEF Dirlink, At, Stage, Putting
<1>3. ip[p] # None /\ put[p] = None /\ inum[p] = None /\ call[p].op = "link"
  BY <1>2, <1>1 DEF CallInv, Opening, Shared, Putting
<1>4. call[p].new \in Names
  BY <1>1, <1>3 DEF TypeOK, CallInv
<1>5. ip[p] \in Entries /\ inode[ip[p]].inum \in Inums
  BY <1>3, Working
<1>6. dirlock = p
  BY <1>2, Holding DEF HasDirlock
<1>7. Now(p, "iput", "user", NoCall, None, ip[p], None)
  BY <1>1, <1>3 DEF Dirlink, Now, Goto, TypeOK, IputAndReturn, IputThen, Forget
<1> QED
  BY <1>2, <1>3, <1>4, <1>5, <1>6, <1>7 DEF Dirlink, DirlinkDone, held

UnlinkDone(p) ==
  /\ pc[p] = "unlink" /\ ip[p] \in Entries /\ put[p] = None /\ inum[p] = None
  /\ inode[ip[p]].inum \in Inums
  /\ call[p].op = "unlink" /\ call[p].name \in Names /\ dir[call[p].name] = inode[ip[p]].inum
  /\ dir' = [dir EXCEPT ![call[p].name] = None]
  /\ Now(p, "unlinked", then[p], call[p], ip[p], None, None)
  /\ lock[ip[p]] = p /\ dirlock = p /\ dirlock' = None
  /\ UNCHANGED <<dinode, inode, lock, file, ofile, vma, alive, panic>>

(* It has a link. *)
LEMMA UnlinkDoes ==
  ASSUME Inv, NEW p \in Procs, Unlink(p)
  PROVE  UnlinkDone(p)
<1>1. TypeOK /\ CallInv(p) /\ DirInv(p) /\ ReadInv(p) /\ LinksAreNames
  BY Parts
<1>2. pc[p] = "unlink" /\ Stage(p) = "unlink"
  BY DEF Unlink, At, Stage, Putting
<1>3. ip[p] # None /\ put[p] = None /\ inum[p] = None /\ call[p].op = "unlink"
  BY <1>2, <1>1 DEF CallInv, Opening, Shared, Putting
<1>4. call[p].name \in Names
  BY <1>1, <1>3 DEF TypeOK, CallInv
<1>5. dir[call[p].name] = inode[ip[p]].inum /\ inode[ip[p]].valid
  BY <1>1, <1>2, <1>3 DEF DirInv, ReadInv
<1>6. ip[p] \in Entries /\ inode[ip[p]].ref > 0 /\ inode[ip[p]].inum \in Inums
  BY <1>3, Working
<1>7. inode[ip[p]].nlink > 0
  <2>1. /\ dinode[inode[ip[p]].inum].nlink > 0
        /\ inode[ip[p]].nlink = dinode[inode[ip[p]].inum].nlink
    BY <1>1, <1>4, <1>5, <1>6, LinkCounts
  <2> QED
    BY <2>1
<1>8. ~(inode[ip[p]].nlink < 1)
  <2>1. inode[ip[p]].nlink \in Nat
    BY <1>3, Working
  <2> QED
    BY <1>7, <2>1
<1>9. dirlock = p /\ lock[ip[p]] = p
  BY <1>2, Holding DEF HasDirlock, Opening
<1>10. Now(p, "unlinked", then[p], call[p], ip[p], None, None)
  BY <1>1, <1>3, <1>8 DEF Unlink, Now, Goto, TypeOK, locals
<1> QED
  BY <1>2, <1>3, <1>4, <1>5, <1>6, <1>8, <1>9, <1>10 DEF Unlink, UnlinkDone, held

UnlinkedDone(p) ==
  /\ pc[p] = "unlinked" /\ ip[p] \in Entries /\ put[p] = None /\ inum[p] = None
  /\ inode[ip[p]].inum \in Inums
  /\ call[p].op \in {"link", "unlink"}
  /\ inode[ip[p]].valid /\ inode[ip[p]].nlink - 1 \in Nat
  /\ LinksDone(ip[p], inode[ip[p]].nlink - 1)
  /\ Now(p, "iput", "user", NoCall, None, ip[p], None)
  /\ lock[ip[p]] = p /\ lock' = [lock EXCEPT ![ip[p]] = None]
  /\ UNCHANGED <<dir, dirlock, file, ofile, vma, alive, panic>>

LEMMA UnlinkedDoes ==
  ASSUME Inv, NEW p \in Procs, Unlinked(p)
  PROVE  UnlinkedDone(p)
<1>1. TypeOK /\ CallInv(p) /\ ReadInv(p) /\ LinksAreNames
  BY Parts
<1>2. pc[p] = "unlinked" /\ Stage(p) = "unlinked"
  BY DEF Unlinked, At, Stage, Putting
<1>3. ip[p] # None /\ put[p] = None /\ inum[p] = None /\ call[p].op \in {"link", "unlink"}
  BY <1>2, <1>1 DEF CallInv, Opening, Shared, Putting
<1>4. ip[p] \in Entries /\ inode[ip[p]].ref > 0 /\ inode[ip[p]].inum \in Inums
  BY <1>3, Working
<1>5. p \in Unnamed(inode[ip[p]].inum) /\ inode[ip[p]].valid
  BY <1>1, <1>2, <1>3 DEF Unnamed, ReadInv
<1>6. inode[ip[p]].nlink - 1 \in Nat
  <2>1. /\ dinode[inode[ip[p]].inum].nlink # 0
        /\ inode[ip[p]].nlink = dinode[inode[ip[p]].inum].nlink
    BY <1>1, <1>4, <1>5, LinkCounts
  <2>2. inode[ip[p]].nlink \in Nat
    BY <1>3, Working
  <2> QED
    BY <2>1, <2>2
<1>7. LinksDone(ip[p], inode[ip[p]].nlink - 1)
  BY <1>1, <1>4, <1>6, LinksDo DEF Unlinked
<1>8. lock[ip[p]] = p
  BY <1>2, Holding
<1>9. Now(p, "iput", "user", NoCall, None, ip[p], None)
  BY <1>1, <1>3 DEF Unlinked, Now, Goto, TypeOK, IputAndReturn, IputThen, Forget
<1> QED
  BY <1>2, <1>3, <1>4, <1>5, <1>6, <1>7, <1>8, <1>9 DEF Unlinked, UnlinkedDone, Unlock, held

(* The sleep locks. *)
IlockDone(p) ==
  /\ pc[p] = "ilock" /\ then[p] \in Opening \cup Shared \cup {"unlinked"}
  /\ ip[p] \in Entries /\ put[p] = None
  /\ lock[ip[p]] = None /\ lock' = [lock EXCEPT ![ip[p]] = p]
  /\ \/ inode[ip[p]].valid /\ Now(p, then[p], then[p], call[p], ip[p], None, inum[p])
     \/ ~inode[ip[p]].valid /\ Now(p, "read", then[p], call[p], ip[p], None, inum[p])
  /\ UNCHANGED <<dir, dinode, inode, dirlock, file, ofile, vma, alive, panic>>

LEMMA IlockDoes ==
  ASSUME Inv, NEW p \in Procs, Ilock(p)
  PROVE  IlockDone(p)
<1>1. TypeOK /\ CallInv(p)
  BY Parts
<1>2. pc[p] = "ilock" /\ Stage(p) = then[p] /\ then[p] \in Opening \cup Shared \cup {"unlinked"}
  BY <1>1 DEF Ilock, At, Stage, CallInv
<1>3. ip[p] # None /\ put[p] = None
  BY <1>1, <1>2 DEF CallInv, Putting
<1>4. ip[p] \in Entries
  BY <1>1, <1>3 DEF TypeOK
<1>5. \/ inode[ip[p]].valid /\ Now(p, then[p], then[p], call[p], ip[p], None, inum[p])
      \/ ~inode[ip[p]].valid /\ Now(p, "read", then[p], call[p], ip[p], None, inum[p])
  BY <1>1, <1>3 DEF Ilock, Now, Goto, TypeOK, locals
<1> QED
  BY <1>2, <1>3, <1>4, <1>5 DEF Ilock, IlockDone, fs, held

LockDirDone(p) ==
  /\ put[p] = None /\ inum[p] = None
  /\ \/ /\ pc[p] = "namei" /\ call[p].op \in {"open", "create", "unlink", "link"} /\ ip[p] = None
        /\ Now(p, "dirlookup", then[p], call[p], None, None, None)
     \/ /\ pc[p] = "nameiparent" /\ call[p].op = "link" /\ ip[p] \in Entries
        /\ Now(p, "dirlink", then[p], call[p], ip[p], None, None)
  /\ dirlock = None /\ dirlock' = p
  /\ UNCHANGED <<dir, dinode, inode, lock, file, ofile, vma, alive, panic>>

LEMMA LockDirDoes ==
  ASSUME Inv, NEW p \in Procs, LockDir(p)
  PROVE  LockDirDone(p)
<1>1. TypeOK /\ CallInv(p)
  BY Parts
<1>2. pc[p] \in {"namei", "nameiparent"} /\ Stage(p) = pc[p]
  BY DEF LockDir, At, Stage, Putting
<1>3. /\ put[p] = None /\ inum[p] = None /\ call[p].op # "none"
      /\ pc[p] = "namei" => ip[p] = None
      /\ pc[p] = "nameiparent" => ip[p] # None /\ call[p].op = "link"
  BY <1>1, <1>2 DEF CallInv, Opening, Shared, Putting
<1>4. call[p].op \in {"open", "create", "unlink", "link"} /\ ip[p] \in Entries \cup {None}
  BY <1>1, <1>3 DEF TypeOK, Ops
<1>5. CASE At(p, "namei") /\ Goto(p, "dirlookup")
  <2>1. Now(p, "dirlookup", then[p], call[p], None, None, None)
    BY <1>1, <1>3, <1>5 DEF LockDir, Now, At, Goto, TypeOK, locals
  <2> QED
    BY <1>3, <1>4, <1>5, <2>1 DEF LockDir, LockDirDone, At, fs, held
<1>6. CASE At(p, "nameiparent") /\ Goto(p, "dirlink")
  <2>1. Now(p, "dirlink", then[p], call[p], ip[p], None, None)
    BY <1>1, <1>3, <1>6 DEF LockDir, Now, At, Goto, TypeOK, locals
  <2> QED
    BY <1>3, <1>4, <1>6, <2>1 DEF LockDir, LockDirDone, At, fs, held
<1> QED
  BY <1>5, <1>6 DEF LockDir

LinkBadDone(p) ==
  /\ pc[p] = "bad" /\ ip[p] \in Entries /\ put[p] = None /\ inum[p] = None
  /\ call[p].op = "link"
  /\ Now(p, "ilock", "unlinked", call[p], ip[p], None, None)
  /\ dirlock = p /\ dirlock' = None
  /\ UNCHANGED <<dir, dinode, inode, lock, file, ofile, vma, alive, panic>>

LEMMA LinkBadDoes ==
  ASSUME Inv, NEW p \in Procs, LinkBad(p)
  PROVE  LinkBadDone(p)
<1>1. TypeOK /\ CallInv(p)
  BY Parts
<1>2. pc[p] = "bad" /\ Stage(p) = "bad"
  BY DEF LinkBad, At, Stage, Putting
<1>3. ip[p] # None /\ put[p] = None /\ inum[p] = None /\ call[p].op = "link"
  BY <1>1, <1>2 DEF CallInv, Opening, Shared, Putting
<1>4. ip[p] \in Entries
  BY <1>1, <1>3 DEF TypeOK
<1>5. dirlock = p
  BY <1>2, Holding DEF HasDirlock
<1>6. Now(p, "ilock", "unlinked", call[p], ip[p], None, None)
  BY <1>1, <1>3 DEF LinkBad, Now, IlockThen, Goto, TypeOK, locals
<1> QED
  BY <1>2, <1>3, <1>4, <1>5, <1>6 DEF LinkBad, LinkBadDone, fs, held

NotFoundDone(p) ==
  /\ pc[p] = "dirlookup" /\ ip[p] = None /\ put[p] = None /\ inum[p] = None
  /\ call[p].op # "none"
  /\ Now(p, "user", "user", NoCall, None, None, None)
  /\ dirlock = p /\ dirlock' = None
  /\ UNCHANGED <<dir, dinode, inode, lock, file, ofile, vma, alive, panic>>

LEMMA NotFoundDoes ==
  ASSUME Inv, NEW p \in Procs, NotFound(p)
  PROVE  NotFoundDone(p)
<1>1. TypeOK /\ CallInv(p)
  BY Parts
<1>2. pc[p] = "dirlookup" /\ Stage(p) = "dirlookup"
  BY DEF NotFound, At, Stage, Putting
<1>3. ip[p] = None /\ put[p] = None /\ inum[p] = None /\ call[p].op # "none"
  BY <1>2, <1>1 DEF CallInv, Opening, Shared, Putting
<1>4. dirlock = p
  BY <1>2, Holding DEF HasDirlock
<1>5. Now(p, "user", "user", NoCall, None, None, None)
  BY <1>1, <1>3 DEF NotFound, Now, Return, Forget, Goto, TypeOK
<1> QED
  BY <1>2, <1>3, <1>4, <1>5 DEF NotFound, NotFoundDone, fs, held

CallType == [op : Ops, name : Names \cup {None}, new : Names \cup {None}]

CallDone(p, k) ==
  /\ pc[p] = "user" /\ alive[p] /\ ip[p] = None /\ put[p] = None /\ inum[p] = None
  /\ call[p].op = "none"
  /\ k \in CallType /\ k.op # "none" /\ k.name # None /\ (k.op = "link" => k.new # None)
  /\ Now(p, "namei", then[p], k, None, None, None)
  /\ UNCHANGED <<dir, dinode, inode, lock, dirlock, file, ofile, vma, alive, panic>>

(* Between calls, and at the end, a process works on nothing. *)
LEMMA Resting ==
  ASSUME Inv, NEW p \in Procs, pc[p] \in {"user", "exit"}
  PROVE  /\ ip[p] = None /\ put[p] = None /\ inum[p] = None /\ call[p].op = "none"
         /\ Stage(p) = pc[p]
         /\ pc[p] = "exit" => vma[p] = None
<1>1. TypeOK /\ CallInv(p) /\ HeldInv(p)
  BY Parts
<1>2. Stage(p) = pc[p]
  BY DEF Stage, Putting
<1>3. ip[p] = None /\ put[p] = None /\ inum[p] = None /\ call[p].op = "none"
  BY <1>1, <1>2 DEF CallInv, Opening, Shared, Putting
<1> QED
  BY <1>1, <1>2, <1>3 DEF HeldInv

LEMMA CallDoes ==
  ASSUME Inv, NEW p \in Procs, NEW op \in {"open", "create", "unlink", "link"}, NEW n \in Names,
         NEW m \in Names \cup {None}, Call(p, op, n, m)
  PROVE  \E k \in CallType : CallDone(p, k)
<1>1. TypeOK
  BY Parts
<1>2. pc[p] = "user" /\ alive[p]
  BY DEF Call, Idle, At
<1>3. ip[p] = None /\ put[p] = None /\ inum[p] = None /\ call[p].op = "none"
  BY <1>2, Resting
<1>4. PICK k : k = [op |-> op, name |-> n, new |-> m]
  OBVIOUS
<1>5. k \in CallType /\ k.op # "none" /\ k.name # None
  BY <1>4, Nones DEF CallType, Ops
<1>6. k.op = "link" => k.new # None
  BY <1>4 DEF Call
<1>7. call' = [call EXCEPT ![p] = k]
  BY <1>4 DEF Call
<1>8. Now(p, "namei", then[p], k, None, None, None)
  BY <1>1, <1>3, <1>7 DEF Call, Now, Goto, TypeOK
<1> QED
  BY <1>2, <1>3, <1>5, <1>6, <1>8 DEF Call, CallDone, fs, locks, held

OpensDone(p, f) ==
  /\ pc[p] = "open" /\ ip[p] \in Entries /\ put[p] = None /\ call[p].op \in {"open", "create"}
  /\ inode[ip[p]].valid
  /\ file[f].ref = 0 /\ OpenDone(f, ip[p])
  /\ \A q \in Procs : Holds(q, f) = 0
  /\ OnlyHeld(p, f) /\ Holds(p, f)' = 1
  /\ Now(p, "user", "user", NoCall, None, None, None)
  /\ lock[ip[p]] = p /\ lock' = [lock EXCEPT ![ip[p]] = None]
  /\ UNCHANGED <<dir, dinode, inode, dirlock, vma, alive, panic>>

LEMMA OpensDo ==
  ASSUME Inv, NEW p \in Procs, Open(p)
  PROVE  \E f \in Files : OpensDone(p, f)
<1>1. TypeOK /\ CallInv(p) /\ ReadInv(p) /\ Balanced
  BY Parts
<1>2. pc[p] = "open" /\ Stage(p) = "open"
  BY DEF Open, At, Stage, Putting
<1>3. ip[p] # None /\ put[p] = None /\ call[p].op \in {"open", "create"}
  BY <1>1, <1>2 DEF CallInv, Opening, Shared, Putting
<1>4. ip[p] \in Entries /\ inode[ip[p]].valid
  BY <1>1, <1>2, <1>3 DEF TypeOK, ReadInv
<1>5. lock[ip[p]] = p
  BY <1>2, Holding DEF Opening
<1>6. PICK f \in FreeFiles : /\ file' = [file EXCEPT ![f] = [ref |-> 1, ip |-> ip[p]]]
                             /\ ofile' = [ofile EXCEPT ![p][f] = 1]
  BY DEF Open
<1>7. f \in Files /\ file[f].ref = 0
  BY <1>6 DEF FreeFiles
<1>8. \A q \in Procs : Holds(q, f) = 0
  BY <1>1, <1>7, FileCounts, HoldsType
<1>9. OpenDone(f, ip[p])
  BY <1>1, <1>4, <1>6, <1>7, OpenDoes
<1>10. vma' = vma
  BY DEF Open
<1>11. OnlyHeld(p, f) /\ Holds(p, f)' = Holds(p, f) - ofile[p][f] + 1
  BY <1>1, <1>6, <1>7, <1>10, FdDoes
<1>12. ofile[p][f] = 0
  <2>1. ofile[p][f] \in Nat /\ Holds(p, f) = 0
    BY <1>1, <1>7, <1>8 DEF TypeOK
  <2> QED
    BY <2>1 DEF Holds
<1>13. Holds(p, f)' = 1
  BY <1>8, <1>11, <1>12
<1>14. Now(p, "user", "user", NoCall, None, None, None)
  BY <1>1, <1>3 DEF Open, Now, Return, Forget, Goto, TypeOK
<1>15. OpensDone(p, f)
  BY <1>2, <1>3, <1>4, <1>5, <1>7, <1>8, <1>9, <1>11, <1>13, <1>14 DEF Open, OpensDone, Unlock, fs
<1> QED
  BY <1>7, <1>15

OpenFailsDone(p) ==
  /\ pc[p] = "open" /\ ip[p] \in Entries /\ put[p] = None /\ call[p].op \in {"open", "create"}
  /\ inode[ip[p]].valid
  /\ Now(p, "iput", "user", NoCall, None, ip[p], None)
  /\ lock[ip[p]] = p /\ lock' = [lock EXCEPT ![ip[p]] = None]
  /\ UNCHANGED <<dir, dinode, inode, dirlock, file, ofile, vma, alive, panic>>

LEMMA OpenFailsDoes ==
  ASSUME Inv, NEW p \in Procs, OpenFails(p)
  PROVE  OpenFailsDone(p)
<1>1. TypeOK /\ CallInv(p) /\ ReadInv(p)
  BY Parts
<1>2. pc[p] = "open" /\ Stage(p) = "open"
  BY DEF OpenFails, At, Stage, Putting
<1>3. ip[p] # None /\ put[p] = None /\ call[p].op \in {"open", "create"}
  BY <1>1, <1>2 DEF CallInv, Opening, Shared, Putting
<1>4. ip[p] \in Entries /\ inode[ip[p]].valid
  BY <1>1, <1>2, <1>3 DEF TypeOK, ReadInv
<1>5. lock[ip[p]] = p
  BY <1>2, Holding DEF Opening
<1>6. Now(p, "iput", "user", NoCall, None, ip[p], None)
  BY <1>1, <1>3 DEF OpenFails, Now, IputAndReturn, IputThen, Forget, Goto, TypeOK
<1> QED
  BY <1>2, <1>3, <1>4, <1>5, <1>6 DEF OpenFails, OpenFailsDone, Unlock, fs, held

AccessedDone(p) ==
  /\ pc[p] = "access" /\ ip[p] \in Entries /\ put[p] = None /\ inum[p] = None
  /\ call[p].op = "none"
  /\ Now(p, "user", "user", NoCall, None, None, None)
  /\ lock[ip[p]] = p /\ lock' = [lock EXCEPT ![ip[p]] = None]
  /\ UNCHANGED <<dir, dinode, inode, dirlock, file, ofile, vma, alive, panic>>

LEMMA AccessedDoes ==
  ASSUME Inv, NEW p \in Procs, Accessed(p)
  PROVE  AccessedDone(p)
<1>1. TypeOK /\ CallInv(p)
  BY Parts
<1>2. pc[p] = "access" /\ Stage(p) = "access"
  BY DEF Accessed, At, Stage, Putting
<1>3. ip[p] # None /\ put[p] = None /\ inum[p] = None /\ call[p].op = "none"
  BY <1>1, <1>2 DEF CallInv, Opening, Shared, Putting
<1>4. ip[p] \in Entries
  BY <1>1, <1>3 DEF TypeOK
<1>5. lock[ip[p]] = p
  BY <1>2, Holding DEF Shared
<1>6. Now(p, "user", "user", NoCall, None, None, None)
  BY <1>1, <1>3 DEF Accessed, Now, Return, Forget, Goto, TypeOK
<1> QED
  BY <1>2, <1>3, <1>4, <1>5, <1>6 DEF Accessed, AccessedDone, Unlock, fs, held

(* read(), munmap() and exit() lock the inode of f. *)
ReadsDone(p, f, l) ==
  /\ pc[p] = "user" /\ alive[p] /\ ip[p] = None /\ put[p] = None /\ inum[p] = None
  /\ call[p].op = "none"
  /\ Holds(p, f) > 0 /\ file[f].ref > 0 /\ file[f].ip \in Entries /\ inode[file[f].ip].valid
  /\ l \in Shared /\ (l \in {"munmap", "exit_munmap"} => vma[p] = f)
  /\ Now(p, "ilock", l, call[p], file[f].ip, None, None)
  /\ UNCHANGED <<dir, dinode, inode, lock, dirlock, file, ofile, vma, alive, panic>>

LEMMA ReadsDo ==
  ASSUME Inv, NEW p \in Procs, NEW f \in Files, Idle(p), NEW l \in Shared,
         Holds(p, f) > 0, l \in {"munmap", "exit_munmap"} => vma[p] = f,
         ip' = [ip EXCEPT ![p] = file[f].ip], IlockThen(p, l),
         UNCHANGED <<fs, inode, locks, file, held, call, put, inum, panic>>
  PROVE  ReadsDone(p, f, l)
<1>1. TypeOK /\ Balanced
  BY Parts
<1>2. pc[p] = "user" /\ alive[p]
  BY DEF Idle, At
<1>3. ip[p] = None /\ put[p] = None /\ inum[p] = None /\ call[p].op = "none"
  BY <1>2, Resting
<1>4. file[f].ref > 0
  BY <1>1, FileCounts
<1>5. file[f].ip \in Entries /\ inode[file[f].ip].valid
  BY <1>4, FileInTable
<1>6. Now(p, "ilock", l, call[p], file[f].ip, None, None)
  BY <1>1, <1>3 DEF Now, IlockThen, Goto, TypeOK, Shared
<1> QED
  BY <1>2, <1>3, <1>4, <1>5, <1>6 DEF ReadsDone, fs, locks, held

(* dup() and mmap() *)
TakesDone(p, f) ==
  /\ pc[p] = "user" /\ alive[p] /\ ip[p] = None /\ put[p] = None /\ inum[p] = None
  /\ call[p].op = "none"
  /\ Holds(p, f) > 0 /\ file[f].ref > 0 /\ DupDone(f)
  /\ OnlyHeld(p, f) /\ Holds(p, f)' = Holds(p, f) + 1
  /\ Now(p, "user", then[p], call[p], None, None, None)
  /\ UNCHANGED <<dir, dinode, inode, lock, dirlock, alive, panic>>

LEMMA TakesDo ==
  ASSUME Inv, NEW p \in Procs, NEW f \in Files, Dup(p, f) \/ Mmap(p, f)
  PROVE  TakesDone(p, f)
<1>1. TypeOK /\ Balanced
  BY Parts
<1>2. pc[p] = "user" /\ alive[p]
  BY DEF Dup, Mmap, Idle, At
<1>3. ip[p] = None /\ put[p] = None /\ inum[p] = None /\ call[p].op = "none"
  BY <1>2, Resting
<1>4. Holds(p, f) > 0
  <2>1. ofile[p][f] \in Nat /\ ofile[p][f] > 0
    BY <1>1 DEF TypeOK, Dup, Mmap
  <2> QED
    BY <2>1 DEF Holds
<1>5. file[f].ref > 0
  BY <1>1, <1>4, FileCounts
<1>6. DupDone(f)
  BY <1>1, DupDoes DEF Dup, Mmap
<1>7. OnlyHeld(p, f) /\ Holds(p, f)' = Holds(p, f) + 1
  <2>1. CASE Dup(p, f)
    <3>1. PICK k \in Nat : k = ofile[p][f] + 1
      BY <1>1 DEF TypeOK
    <3>2. ofile' = [ofile EXCEPT ![p][f] = k] /\ vma' = vma
      BY <1>1, <2>1, <3>1 DEF Dup, TypeOK
    <3>3. OnlyHeld(p, f) /\ Holds(p, f)' = Holds(p, f) - ofile[p][f] + k
      BY <1>1, <3>2, FdDoes
    <3>4. ofile[p][f] \in Nat /\ Holds(p, f) \in Nat
      BY <1>1, HoldsType DEF TypeOK
    <3> QED
      BY <3>1, <3>3, <3>4
  <2>2. CASE Mmap(p, f)
    BY <1>1, <2>2, AreaDoes DEF Mmap
  <2> QED
    BY <2>1, <2>2
<1>8. Now(p, "user", then[p], call[p], None, None, None)
  BY <1>2, <1>3 DEF Dup, Mmap, Now, locals
<1> QED
  BY <1>2, <1>3, <1>4, <1>5, <1>6, <1>7, <1>8 DEF Dup, Mmap, TakesDone, fs, locks

(* close(), the close of exit(), and the end of a mapped area. *)
GivesUpDone(p, f, l) ==
  /\ put[p] = None /\ inum[p] = None /\ call[p].op = "none" /\ alive[p]
  /\ \/ pc[p] = "user" /\ l = "user" /\ ip[p] = None /\ lock' = lock
     \/ pc[p] = "exit" /\ l = "exit" /\ ip[p] = None /\ lock' = lock
     \/ /\ <<pc[p], l>> \in {<<"munmap", "user">>, <<"exit_munmap", "exit">>}
        /\ ip[p] \in Entries /\ lock[ip[p]] = p /\ lock' = [lock EXCEPT ![ip[p]] = None]
  /\ Holds(p, f) > 0 /\ file[f].ref > 0 /\ file[f].ip \in Entries /\ inode[file[f].ip].valid
  /\ OnlyHeld(p, f) /\ Holds(p, f)' = Holds(p, f) - 1
  /\ l = "exit" => vma'[p] = None
  /\ OnlyFile(f) /\ file'[f].ref = file[f].ref - 1
  /\ \/ file[f].ref > 1 /\ file'[f].ip = file[f].ip /\ Now(p, l, then[p], call[p], None, None, None)
     \/ file[f].ref = 1 /\ file'[f].ip = None /\ Now(p, "iput", l, call[p], None, file[f].ip, None)
  /\ UNCHANGED <<dir, dinode, inode, dirlock, alive, panic>>

LEMMA FdGivenUp ==
  ASSUME Inv, NEW p \in Procs, NEW f \in Files, NEW l, l = pc[p], l \in {"user", "exit"}, alive[p],
         ofile[p][f] > 0, ofile' = [ofile EXCEPT ![p][f] = @ - 1],
         fileclose(p, f, l),
         UNCHANGED <<fs, inode, locks, vma, alive, call, ip, inum, panic>>
  PROVE  GivesUpDone(p, f, l)
<1>1. TypeOK /\ Balanced
  BY Parts
<1>2. /\ ip[p] = None /\ put[p] = None /\ inum[p] = None /\ call[p].op = "none"
      /\ l = "exit" => vma'[p] = None
  BY Resting
<1>3. PICK k : k = ofile[p][f] - 1
  OBVIOUS
<1>4. ofile[p][f] \in Nat /\ k \in Nat
  BY <1>1, <1>3 DEF TypeOK
<1>5. Holds(p, f) > 0
  BY <1>4 DEF Holds
<1>6. file[f].ref > 0
  BY <1>1, <1>5, FileCounts
<1>7. file[f].ip \in Entries /\ inode[file[f].ip].valid
  BY <1>6, FileInTable
<1>8. OnlyHeld(p, f) /\ Holds(p, f)' = Holds(p, f) - 1
  <2>1. ofile' = [ofile EXCEPT ![p][f] = k]
    BY <1>1, <1>3 DEF TypeOK
  <2>2. OnlyHeld(p, f) /\ Holds(p, f)' = Holds(p, f) - ofile[p][f] + k
    BY <1>1, <1>4, <2>1, FdDoes
  <2> QED
    BY <1>1, <1>3, <1>4, <2>2, HoldsType
<1>9. CloseDone(p, f, l)
  BY <1>1, <1>6, CloseDoes
<1>10. /\ OnlyFile(f) /\ file'[f].ref = file[f].ref - 1
       /\ \/ file[f].ref > 1 /\ file'[f].ip = file[f].ip /\ Now(p, l, then[p], call[p], None, None, None)
          \/ file[f].ref = 1 /\ file'[f].ip = None /\ Now(p, "iput", l, call[p], None, file[f].ip, None)
  BY <1>2, <1>9 DEF CloseDone, Now
<1> QED
  BY <1>2, <1>5, <1>6, <1>7, <1>8, <1>10 DEF GivesUpDone, fs, locks

LEMMA AreaGivenUp ==
  ASSUME Inv, NEW p \in Procs, NEW l,
         \/ At(p, "munmap") /\ l = "user"
         \/ At(p, "exit_munmap") /\ l = "exit",
         WrittenBack(p, l)
  PROVE  \E f \in Files : GivesUpDone(p, f, l)
<1>1. TypeOK /\ Balanced /\ CallInv(p) /\ HeldInv(p)
  BY Parts
<1>2. pc[p] \in {"munmap", "exit_munmap"} /\ Stage(p) = pc[p]
  BY DEF At, Stage, Putting
<1>3. /\ ip[p] # None /\ put[p] = None /\ inum[p] = None /\ call[p].op = "none" /\ alive[p]
  BY <1>1, <1>2 DEF CallInv, Opening, Shared, Putting
<1>4. PICK f \in Files : f = vma[p]
  BY <1>1, <1>2 DEF HeldInv, TypeOK
<1>5. ip[p] \in Entries /\ lock[ip[p]] = p
  BY <1>2, Holding DEF Shared
<1>6. Holds(p, f) > 0
  <2>1. ofile[p][f] \in Nat
    BY <1>1 DEF TypeOK
  <2> QED
    BY <1>4, <2>1 DEF Holds
<1>7. file[f].ref > 0
  BY <1>1, <1>6, FileCounts
<1>8. file[f].ip \in Entries /\ inode[file[f].ip].valid
  BY <1>7, FileInTable
<1>9. /\ ip' = [ip EXCEPT ![p] = None] /\ vma' = [vma EXCEPT ![p] = None]
      /\ lock' = [lock EXCEPT ![ip[p]] = None]
      /\ fileclose(p, f, l)
      /\ UNCHANGED <<fs, inode, dirlock, ofile, alive, call, inum, panic>>
  BY <1>4 DEF WrittenBack, Unlock
<1>10. OnlyHeld(p, f) /\ Holds(p, f)' = Holds(p, f) - 1
  BY <1>1, <1>4, <1>9, AreaDoes
<1>11. CloseDone(p, f, l)
  BY <1>1, <1>7, <1>9, CloseDoes
<1>12. ip'[p] = None /\ vma'[p] = None
  BY <1>1, <1>9 DEF TypeOK
<1>13. /\ OnlyFile(f) /\ file'[f].ref = file[f].ref - 1
       /\ \/ file[f].ref > 1 /\ file'[f].ip = file[f].ip /\ Now(p, l, then[p], call[p], None, None, None)
          \/ file[f].ref = 1 /\ file'[f].ip = None /\ Now(p, "iput", l, call[p], None, file[f].ip, None)
  BY <1>3, <1>9, <1>11, <1>12 DEF CloseDone, Now
<1>14. <<pc[p], l>> \in {<<"munmap", "user">>, <<"exit_munmap", "exit">>}
  BY DEF At
<1>15. GivesUpDone(p, f, l)
  BY <1>3, <1>5, <1>6, <1>7, <1>8, <1>9, <1>10, <1>12, <1>13, <1>14 DEF GivesUpDone, fs
<1> QED
  BY <1>15

(* exit(), fork() and the processes the model begins with. *)
ExitsDone(p) ==
  /\ pc[p] = "user" /\ alive[p] /\ ip[p] = None /\ put[p] = None /\ inum[p] = None
  /\ call[p].op = "none" /\ vma[p] = None
  /\ Now(p, "exit", then[p], call[p], None, None, None)
  /\ UNCHANGED <<dir, dinode, inode, lock, dirlock, file, ofile, vma, alive, panic>>

DeadDone(p) ==
  /\ pc[p] = "exit" /\ ip[p] = None /\ put[p] = None /\ inum[p] = None /\ call[p].op = "none"
  /\ \A f \in Files : Holds(p, f) = 0
  /\ Now(p, "user", then[p], call[p], None, None, None)
  /\ alive' = [alive EXCEPT ![p] = FALSE]
  /\ UNCHANGED <<dir, dinode, inode, lock, dirlock, file, ofile, vma, panic>>

BornDone(p) ==
  /\ pc[p] = "user" /\ ip[p] = None /\ put[p] = None /\ inum[p] = None /\ call[p].op = "none"
  /\ Now(p, "user", then[p], call[p], None, None, None)
  /\ alive' = [alive EXCEPT ![p] = TRUE]
  /\ UNCHANGED <<dir, dinode, inode, lock, dirlock, file, ofile, vma, panic>>

ForkDone(p, q) ==
  /\ pc[p] = "user" /\ ip[p] = None /\ put[p] = None /\ inum[p] = None /\ call[p].op = "none"
  /\ p # q /\ pc[q] = "user" /\ Fork(p, q)
  /\ Now(p, "user", then[p], call[p], None, None, None)
  /\ UNCHANGED <<dir, dinode, inode, lock, dirlock, panic>>

LEMMA ExitDoes ==
  ASSUME Inv, NEW p \in Procs, Exit(p)
  PROVE  ExitsDone(p) \/ \E f \in Files : ReadsDone(p, f, "exit_munmap")
<1>1. TypeOK
  BY Parts
<1>2. pc[p] = "user" /\ alive[p]
  BY DEF Exit, Idle, At
<1>3. ip[p] = None /\ put[p] = None /\ inum[p] = None /\ call[p].op = "none"
  BY <1>2, Resting
<1>4. CASE vma[p] = None
  <2>1. Now(p, "exit", then[p], call[p], None, None, None)
    BY <1>1, <1>3, <1>4 DEF Exit, Now, Goto, TypeOK
  <2> QED
    BY <1>2, <1>3, <1>4, <2>1 DEF Exit, ExitsDone, fs, locks, held
<1>5. CASE vma[p] # None
  <2>1. PICK f \in Files : f = vma[p]
    BY <1>1, <1>5 DEF TypeOK
  <2>2. Holds(p, f) > 0
    <3>1. ofile[p][f] \in Nat
      BY <1>1 DEF TypeOK
    <3> QED
      BY <2>1, <3>1 DEF Holds
  <2>3. ReadsDone(p, f, "exit_munmap")
    <3>1. /\ ip' = [ip EXCEPT ![p] = file[f].ip] /\ IlockThen(p, "exit_munmap")
          /\ UNCHANGED <<fs, inode, locks, file, held, call, put, inum, panic>>
          /\ Idle(p)
      BY <1>5, <2>1 DEF Exit
    <3>2. "exit_munmap" \in Shared
      BY DEF Shared
    <3> QED
      BY <2>1, <2>2, <3>1, <3>2, ReadsDo
  <2> QED
    BY <2>3
<1> QED
  BY <1>4, <1>5

LEMMA MunmapDoes ==
  ASSUME Inv, NEW p \in Procs, Munmap(p)
  PROVE  \E f \in Files : ReadsDone(p, f, "munmap")
<1>1. TypeOK
  BY Parts
<1>2. PICK f \in Files : f = vma[p]
  BY <1>1 DEF TypeOK, Munmap
<1>3. Holds(p, f) > 0
  <2>1. ofile[p][f] \in Nat
    BY <1>1 DEF TypeOK
  <2> QED
    BY <1>2, <2>1 DEF Holds
<1>4. /\ ip' = [ip EXCEPT ![p] = file[f].ip] /\ IlockThen(p, "munmap") /\ Idle(p)
      /\ UNCHANGED <<fs, inode, locks, file, held, call, put, inum, panic>>
  BY <1>2 DEF Munmap
<1>5. "munmap" \in Shared
  BY DEF Shared
<1>6. ReadsDone(p, f, "munmap")
  BY <1>2, <1>3, <1>4, <1>5, ReadsDo
<1> QED
  BY <1>6

LEMMA AccessDoes ==
  ASSUME Inv, NEW p \in Procs, NEW f \in Files, Access(p, f)
  PROVE  ReadsDone(p, f, "access")
<1>1. /\ ip' = [ip EXCEPT ![p] = file[f].ip] /\ IlockThen(p, "access") /\ Idle(p)
      /\ UNCHANGED <<fs, inode, locks, file, held, call, put, inum, panic>>
      /\ Holds(p, f) > 0
  BY DEF Access
<1>2. "access" \in Shared
  BY DEF Shared
<1> QED
  BY <1>1, <1>2, ReadsDo

LEMMA ExitCloseDoes ==
  ASSUME Inv, NEW p \in Procs, ExitClose(p)
  PROVE  DeadDone(p) \/ \E f \in Files : GivesUpDone(p, f, "exit")
<1>1. TypeOK /\ CallInv(p)
  BY Parts
<1>2. pc[p] = "exit" /\ alive[p]
  BY <1>1 DEF ExitClose, At, CallInv
<1>3. ip[p] = None /\ put[p] = None /\ inum[p] = None /\ call[p].op = "none" /\ vma[p] = None
  BY <1>2, Resting
<1>4. ASSUME NEW f \in Files, ofile[p][f] > 0, ofile' = [ofile EXCEPT ![p][f] = @ - 1],
             fileclose(p, f, "exit"), UNCHANGED alive
      PROVE  GivesUpDone(p, f, "exit")
  <2>1. UNCHANGED <<fs, inode, locks, vma, alive, call, ip, inum, panic>>
    BY <1>4 DEF ExitClose
  <2> QED
    BY <1>2, <1>4, <2>1, FdGivenUp
<1>5. ASSUME \A f \in Files : ofile[p][f] = 0, alive' = [alive EXCEPT ![p] = FALSE],
             Goto(p, "user"), UNCHANGED <<file, ofile, then, put>>
      PROVE  DeadDone(p)
  <2>1. \A f \in Files : Holds(p, f) = 0
    BY <1>3, <1>5, Nones DEF Holds
  <2>2. UNCHANGED <<fs, inode, locks, vma, call, ip, inum, panic>>
    BY DEF ExitClose
  <2>3. Now(p, "user", then[p], call[p], None, None, None)
    BY <1>1, <1>3, <1>5, <2>2 DEF Now, Goto, TypeOK
  <2> QED
    BY <1>2, <1>3, <1>5, <2>1, <2>2, <2>3 DEF DeadDone, fs, locks
<1> QED
  BY <1>4, <1>5 DEF ExitClose

LEMMA CloseGivesUp ==
  ASSUME Inv, NEW p \in Procs, NEW f \in Files, Close(p, f)
  PROVE  GivesUpDone(p, f, "user")
<1>1. pc[p] = "user" /\ alive[p]
  BY DEF Close, Idle, At
<1>2. /\ ofile[p][f] > 0 /\ ofile' = [ofile EXCEPT ![p][f] = @ - 1] /\ fileclose(p, f, "user")
      /\ UNCHANGED <<fs, inode, locks, vma, alive, call, ip, inum, panic>>
  BY DEF Close
<1> QED
  BY <1>1, <1>2, FdGivenUp

LEMMA BornDoes ==
  ASSUME Inv, NEW p \in Procs, Born(p)
  PROVE  BornDone(p)
<1>1. pc[p] = "user"
  BY DEF Born, At
<1>2. ip[p] = None /\ put[p] = None /\ inum[p] = None /\ call[p].op = "none"
  BY <1>1, Resting
<1> QED
  BY <1>1, <1>2 DEF Born, BornDone, Now, fs, locks, locals

LEMMA ForkIs ==
  ASSUME Inv, NEW p \in Procs, NEW q \in Procs, Fork(p, q)
  PROVE  ForkDone(p, q)
<1>1. pc[p] = "user" /\ ~alive[q]
  BY DEF Fork, Idle, At
<1>2. ip[p] = None /\ put[p] = None /\ inum[p] = None /\ call[p].op = "none"
  BY <1>1, Resting
<1>3. pc[q] = "user"
  BY <1>1, Parts DEF CallInv
<1>4. p # q
  BY ForkDoes
<1> QED
  BY <1>1, <1>2, <1>3, <1>4 DEF Fork, ForkDone, Now, fs, locks, locals

-----------------------------------------------------------------------------
(* Of the others, nothing but what fork() gives a child changes.           *)

LEMMA OneMoves ==
  ASSUME NEW T, NEW f \in [Procs -> T], NEW g, NEW p \in Procs,
         g = f \/ \E x \in T : g = [f EXCEPT ![p] = x]
  PROVE  g \in [Procs -> T] /\ \A q \in Procs : q # p => g[q] = f[q]
OBVIOUS

LEMMA Moved ==
  ASSUME TypeOK, NEW p \in Procs,
         pc' = pc \/ \E c \in PCs : pc' = [pc EXCEPT ![p] = c],
         then' = then \/ \E c \in PCs : then' = [then EXCEPT ![p] = c],
         call' = call,
         ip' = ip \/ \E e \in Entries \cup {None} : ip' = [ip EXCEPT ![p] = e],
         put' = put \/ \E e \in Entries \cup {None} : put' = [put EXCEPT ![p] = e],
         inum' = inum \/ \E i \in Inums \cup {None} : inum' = [inum EXCEPT ![p] = i]
  PROVE  LocalsType /\ OthersStay(p)
<1>1. pc' \in [Procs -> PCs] /\ \A q \in Procs : q # p => pc'[q] = pc[q]
  <2>1. pc \in [Procs -> PCs]
    BY DEF TypeOK
  <2> QED
    BY <2>1, OneMoves
<1>2. then' \in [Procs -> PCs] /\ \A q \in Procs : q # p => then'[q] = then[q]
  <2>1. then \in [Procs -> PCs]
    BY DEF TypeOK
  <2> QED
    BY <2>1, OneMoves
<1>3. ip' \in [Procs -> Entries \cup {None}] /\ \A q \in Procs : q # p => ip'[q] = ip[q]
  <2>1. ip \in [Procs -> Entries \cup {None}]
    BY DEF TypeOK
  <2> QED
    BY <2>1, OneMoves
<1>4. put' \in [Procs -> Entries \cup {None}] /\ \A q \in Procs : q # p => put'[q] = put[q]
  <2>1. put \in [Procs -> Entries \cup {None}]
    BY DEF TypeOK
  <2> QED
    BY <2>1, OneMoves
<1>5. inum' \in [Procs -> Inums \cup {None}] /\ \A q \in Procs : q # p => inum'[q] = inum[q]
  <2>1. inum \in [Procs -> Inums \cup {None}]
    BY DEF TypeOK
  <2> QED
    BY <2>1, OneMoves
<1> QED
  BY <1>1, <1>2, <1>3, <1>4, <1>5 DEF TypeOK, LocalsType, OthersStay

LEMMA CloseMoves ==
  ASSUME TypeOK, NEW p \in Procs, NEW f \in Files, NEW l \in {"user", "exit"}, fileclose(p, f, l)
  PROVE  /\ pc' = pc \/ \E c \in PCs : pc' = [pc EXCEPT ![p] = c]
         /\ then' = then \/ \E c \in PCs : then' = [then EXCEPT ![p] = c]
         /\ put' = put \/ \E e \in Entries \cup {None} : put' = [put EXCEPT ![p] = e]
<1>1. file[f].ip \in Entries \cup {None} /\ l \in PCs /\ "iput" \in PCs
  BY DEF TypeOK, PCs, Putting
<1>2. CASE file[f].ref > 1
  <2>1. pc' = [pc EXCEPT ![p] = l] /\ then' = then /\ put' = put
    BY <1>2 DEF fileclose, Goto
  <2> QED
    BY <1>1, <2>1
<1>3. CASE ~(file[f].ref > 1)
  <2>1. /\ pc' = [pc EXCEPT ![p] = "iput"] /\ then' = [then EXCEPT ![p] = l]
        /\ put' = [put EXCEPT ![p] = file[f].ip]
    BY <1>3 DEF fileclose, IputThen, Goto
  <2> QED
    BY <1>1, <2>1
<1> QED
  BY <1>2, <1>3

LEMMA LocalsStep ==
  ASSUME Inv, NEW p \in Procs, Step(p)
  PROVE  LocalsType /\ OthersStay(p)
<1> USE Nones DEF At, Goto, IlockThen, IputThen, Return, Forget, IputAndReturn, Panic, LocalsType,
                  OthersStay, fs, locks, held, locals, NoCall, PCs, Ops, Opening, Shared, Putting
<1>1. TypeOK /\ CallInv(p)
  BY Parts
<1>2. CASE LockDir(p)
  <2>1. /\ pc' = [pc EXCEPT ![p] = "dirlookup"] \/ pc' = [pc EXCEPT ![p] = "dirlink"]
        /\ then' = then /\ call' = call /\ ip' = ip /\ put' = put /\ inum' = inum
    BY <1>2 DEF LockDir
  <2>2. "dirlookup" \in PCs /\ "dirlink" \in PCs
    OBVIOUS
  <2> HIDE DEF PCs, Ops, LocalsType, OthersStay
  <2> QED
    BY <1>1, <2>1, <2>2, Moved
<1>3. CASE Found(p)
  <2>1. CASE NoEntry(dir[call[p].name])
    BY <1>1, <1>3, <2>1 DEF TypeOK, Found
  <2>2. CASE ~NoEntry(dir[call[p].name])
    <3>1. PICK e \in Entries : ip' = [ip EXCEPT ![p] = e]
      BY <1>3, <2>2 DEF Found
    <3>2. PICK c : /\ c = (IF call[p].op = "create" THEN "open" ELSE call[p].op)
                   /\ then' = [then EXCEPT ![p] = c]
      BY <1>3, <2>2 DEF Found
    <3>3. c \in PCs
      <4>1. Stage(p) = "dirlookup"
        BY <1>3 DEF Found, Stage
      <4>2. call[p].op \in {"open", "create", "unlink", "link"}
        BY <1>1, <4>1 DEF TypeOK, CallInv
      <4> QED
        BY <3>2, <4>2
    <3>4. pc' = [pc EXCEPT ![p] = "ilock"] /\ call' = call /\ put' = put /\ inum' = inum
      BY <1>3, <2>2 DEF Found
    <3>5. "ilock" \in PCs
      OBVIOUS
    <3> HIDE DEF PCs, Ops, LocalsType, OthersStay
    <3> QED
      BY <1>1, <3>1, <3>2, <3>3, <3>4, <3>5, Moved
  <2> QED
    BY <2>1, <2>2
<1>4. CASE NotFound(p)
  BY <1>1, <1>4 DEF TypeOK, CallInv, NotFound
<1>5. CASE Ilock(p)
  BY <1>1, <1>5 DEF TypeOK, CallInv, Ilock
<1>6. CASE ReadInode(p)
  <2>1. /\ pc' = pc \/ pc' = [pc EXCEPT ![p] = then[p]]
        /\ then' = then /\ call' = call /\ ip' = ip /\ put' = put /\ inum' = inum
    BY <1>6 DEF ReadInode
  <2>2. then[p] \in PCs
    BY <1>1 DEF TypeOK
  <2> HIDE DEF PCs, Ops, LocalsType, OthersStay
  <2> QED
    BY <1>1, <2>1, <2>2, Moved
<1>7. CASE Iput(p)
  <2>1. /\ put' = put \/ put' = [put EXCEPT ![p] = None]
        /\ \/ pc' = [pc EXCEPT ![p] = then[p]] \/ pc' = [pc EXCEPT ![p] = "free"] \/ pc' = pc
        /\ then' = then /\ call' = call /\ ip' = ip /\ inum' = inum
    BY <1>7 DEF Iput
  <2>2. then[p] \in PCs /\ "free" \in PCs
    BY <1>1 DEF TypeOK
  <2> HIDE DEF PCs, Ops
  <2> QED
    BY <1>1, <2>1, <2>2, Moved
<1>8. CASE FreeInode(p)
  BY <1>1, <1>8 DEF TypeOK, CallInv, FreeInode
<1>9. CASE Freed(p)
  BY <1>1, <1>9 DEF TypeOK, CallInv, Freed
<1>10. CASE Ialloc(p)
  <2>1. /\ inum' = inum \/ \E i \in Inums : inum' = [inum EXCEPT ![p] = i]
        /\ pc' = pc \/ pc' = [pc EXCEPT ![p] = "iget"]
        /\ then' = then /\ call' = call /\ ip' = ip /\ put' = put
    BY <1>10 DEF Ialloc, FreeInums
  <2>2. "iget" \in PCs
    OBVIOUS
  <2> HIDE DEF PCs, Ops
  <2> QED
    BY <1>1, <2>1, <2>2, Moved
<1>11. CASE IallocIget(p)
  <2>1. /\ ip' = ip \/ \E e \in Entries : ip' = [ip EXCEPT ![p] = e]
        /\ pc' = pc \/ pc' = [pc EXCEPT ![p] = "ilock"]
        /\ then' = then \/ then' = [then EXCEPT ![p] = "create"]
        /\ call' = call /\ put' = put /\ inum' = inum
    <3> HIDE DEF PCs, Ops
    <3> QED
      BY <1>11 DEF IallocIget
  <2>2. "ilock" \in PCs /\ "create" \in PCs
    OBVIOUS
  <2> HIDE DEF PCs, Ops
  <2> QED
    BY <1>1, <2>1, <2>2, Moved
<1>12. CASE Create(p)
  BY <1>1, <1>12 DEF TypeOK, CallInv, Create
<1>13. CASE Open(p)
  BY <1>1, <1>13 DEF TypeOK, CallInv, Open
<1>14. CASE OpenFails(p)
  BY <1>1, <1>14 DEF TypeOK, CallInv, OpenFails
<1>15. CASE Link(p)
  BY <1>1, <1>15 DEF TypeOK, CallInv, Link
<1>16. CASE Dirlink(p)
  BY <1>1, <1>16 DEF TypeOK, CallInv, Dirlink
<1>17. CASE DirlinkFails(p)
  <2>1. /\ put' = put \/ \E e \in Entries : put' = [put EXCEPT ![p] = e]
        /\ pc' = pc \/ pc' = [pc EXCEPT ![p] = "iput"]
        /\ then' = then \/ then' = [then EXCEPT ![p] = "bad"]
        /\ call' = call /\ ip' = ip /\ inum' = inum
    <3> HIDE DEF PCs, Ops
    <3> QED
      BY <1>17 DEF DirlinkFails
  <2>2. "iput" \in PCs /\ "bad" \in PCs
    OBVIOUS
  <2> HIDE DEF PCs, Ops
  <2> QED
    BY <1>1, <2>1, <2>2, Moved
<1>18. CASE LinkBad(p)
  BY <1>1, <1>18 DEF TypeOK, CallInv, LinkBad
<1>19. CASE Unlink(p)
  <2>1. /\ pc' = pc \/ pc' = [pc EXCEPT ![p] = "unlinked"]
        /\ then' = then /\ call' = call /\ ip' = ip /\ put' = put /\ inum' = inum
    BY <1>19 DEF Unlink
  <2>2. "unlinked" \in PCs
    OBVIOUS
  <2> HIDE DEF PCs, Ops, LocalsType, OthersStay
  <2> QED
    BY <1>1, <2>1, <2>2, Moved
<1>20. CASE Unlinked(p)
  BY <1>1, <1>20 DEF TypeOK, CallInv, Unlinked
<1>21. CASE Accessed(p)
  BY <1>1, <1>21 DEF TypeOK, CallInv, Accessed
<1>22. CASE Unmapped(p)
  <2>1. PICK l \in {"user", "exit"} : WrittenBack(p, l)
    BY <1>22 DEF Unmapped
  <2>2. PICK f \in Files : f = vma[p]
    <3>1. pc[p] \in {"munmap", "exit_munmap"} /\ Stage(p) = pc[p]
      BY <1>22 DEF Unmapped, Stage
    <3>2. HeldInv(p)
      BY Parts
    <3> QED
      BY <1>1, <3>1, <3>2 DEF HeldInv, TypeOK
  <2>3. fileclose(p, f, l) /\ ip' = [ip EXCEPT ![p] = None] /\ call' = call /\ inum' = inum
    BY <2>1, <2>2 DEF WrittenBack
  <2> HIDE DEF PCs, Ops, LocalsType, OthersStay, IputThen, Goto
  <2>4. /\ pc' = pc \/ \E c \in PCs : pc' = [pc EXCEPT ![p] = c]
        /\ then' = then \/ \E c \in PCs : then' = [then EXCEPT ![p] = c]
        /\ put' = put \/ \E e \in Entries \cup {None} : put' = [put EXCEPT ![p] = e]
    BY <1>1, <2>3, CloseMoves
  <2> QED
    BY <1>1, <2>3, <2>4, Moved
<1>23. CASE ExitClose(p)
  <2>1. call' = call /\ ip' = ip /\ inum' = inum
    BY <1>23 DEF ExitClose
  <2> HIDE DEF PCs, Ops, LocalsType, OthersStay, IputThen
  <2>2. ASSUME NEW f \in Files, fileclose(p, f, "exit")
        PROVE  LocalsType /\ OthersStay(p)
    <3> HIDE DEF Goto
    <3>1. /\ pc' = pc \/ \E c \in PCs : pc' = [pc EXCEPT ![p] = c]
          /\ then' = then \/ \E c \in PCs : then' = [then EXCEPT ![p] = c]
          /\ put' = put \/ \E e \in Entries \cup {None} : put' = [put EXCEPT ![p] = e]
      BY <1>1, <2>2, CloseMoves
    <3> QED
      BY <1>1, <2>1, <3>1, Moved
  <2>3. ASSUME pc' = [pc EXCEPT ![p] = "user"], then' = then, put' = put
        PROVE  LocalsType /\ OthersStay(p)
    <3>1. "user" \in PCs
      BY DEF PCs
    <3> QED
      BY <1>1, <2>1, <2>3, <3>1, Moved
  <2> QED
    BY <1>23, <2>2, <2>3 DEF ExitClose
<1>24. CASE UnrefFreed(p)
  BY <1>1, <1>24 DEF TypeOK, CallInv, UnrefFreed
<1>25. CASE Munmap(p)
  BY <1>1, <1>25 DEF TypeOK, CallInv, Munmap
<1>26. CASE Exit(p)
  <2>1. /\ ip' = ip \/ \E e \in Entries \cup {None} : ip' = [ip EXCEPT ![p] = e]
        /\ call' = call /\ put' = put /\ inum' = inum
    <3>1. vma[p] # None => file[vma[p]].ip \in Entries \cup {None}
      BY <1>1 DEF TypeOK
    <3> QED
      BY <1>26, <3>1 DEF Exit
  <2>2. /\ pc' = [pc EXCEPT ![p] = "exit"] \/ pc' = [pc EXCEPT ![p] = "ilock"]
        /\ then' = then \/ then' = [then EXCEPT ![p] = "exit_munmap"]
    BY <1>26 DEF Exit
  <2>3. {"exit", "ilock", "exit_munmap"} \subseteq PCs
    OBVIOUS
  <2> HIDE DEF PCs, Ops
  <2> QED
    BY <1>1, <2>1, <2>2, <2>3, Moved
<1>27. CASE Born(p)
  BY <1>1, <1>27 DEF TypeOK, CallInv, Born
<1>28. ASSUME NEW op \in {"open", "create", "unlink", "link"}, NEW nm \in Names,
             NEW m \in Names \cup {None}, Call(p, op, nm, m)
      PROVE  LocalsType /\ OthersStay(p)
  BY <1>1, <1>28 DEF TypeOK, Call
<1>29. ASSUME NEW f \in Files, Close(p, f) PROVE LocalsType /\ OthersStay(p)
  <2>1. fileclose(p, f, "user") /\ ip' = ip /\ call' = call /\ inum' = inum
    BY <1>29 DEF Close
  <2> HIDE DEF PCs, Ops, LocalsType, OthersStay, IputThen, Goto
  <2>2. /\ pc' = pc \/ \E c \in PCs : pc' = [pc EXCEPT ![p] = c]
        /\ then' = then \/ \E c \in PCs : then' = [then EXCEPT ![p] = c]
        /\ put' = put \/ \E e \in Entries \cup {None} : put' = [put EXCEPT ![p] = e]
    BY <1>1, <2>1, CloseMoves
  <2> QED
    BY <1>1, <2>1, <2>2, Moved
<1>30. ASSUME NEW f \in Files, Dup(p, f) PROVE LocalsType /\ OthersStay(p)
  BY <1>1, <1>30 DEF TypeOK, Dup
<1>31. ASSUME NEW f \in Files, Access(p, f) PROVE LocalsType /\ OthersStay(p)
  BY <1>1, <1>31 DEF TypeOK, Access
<1>32. ASSUME NEW f \in Files, Mmap(p, f) PROVE LocalsType /\ OthersStay(p)
  BY <1>1, <1>32 DEF TypeOK, Mmap
<1>33. ASSUME NEW q \in Procs, Fork(p, q) PROVE LocalsType /\ OthersStay(p)
  BY <1>1, <1>33 DEF TypeOK, Fork
<1> QED
  BY <1>2, <1>3, <1>4, <1>5, <1>6, <1>7, <1>8, <1>9, <1>10, <1>11, <1>12, <1>13, <1>14, <1>15, <1>16, <1>17, <1>18, <1>19, <1>20, <1>21, <1>22, <1>23, <1>24, <1>25, <1>26, <1>27, <1>28, <1>29, <1>30, <1>31, <1>32, <1>33 DEF Step, FsStep, UserStep

(* The steps that change inodes, those that change files, and the others.  *)
InodeStep(p) ==
  \/ \E e \in Entries : FoundDone(p, e) \/ IallocIgetDone(p, e) \/ DirlinkFailsDone(p, e)
  \/ \E i \in Inums : AllocDone(p, i)
  \/ ReadInodeDone(p) \/ IputDone(p) \/ FreeInodeDone(p) \/ FreedPutDone(p) \/ UnrefFreedDone(p)
  \/ CreateDone(p) \/ LinkDone(p) \/ DirlinkDone(p) \/ UnlinkDone(p) \/ UnlinkedDone(p)

FileStep(p) ==
  \/ \E f \in Files : OpensDone(p, f) \/ TakesDone(p, f)
  \/ \E f \in Files, l \in {"user", "exit"} : GivesUpDone(p, f, l)
  \/ \E q \in Procs : ForkDone(p, q)

LocalStep(p) ==
  \/ \E k \in CallType : CallDone(p, k)
  \/ \E f \in Files, l \in Shared : ReadsDone(p, f, l)
  \/ IlockDone(p) \/ LockDirDone(p) \/ LinkBadDone(p) \/ NotFoundDone(p) \/ ToFreeDone(p)
  \/ OpenFailsDone(p) \/ AccessedDone(p) \/ ExitsDone(p) \/ DeadDone(p) \/ BornDone(p)

LEMMA UnmappedGivesUp ==
  ASSUME Inv, NEW p \in Procs, Unmapped(p)
  PROVE  \E f \in Files, l \in {"user", "exit"} : GivesUpDone(p, f, l)
<1>1. CASE At(p, "munmap") /\ WrittenBack(p, "user")
  <2>1. \E f \in Files : GivesUpDone(p, f, "user")
    BY <1>1, AreaGivenUp
  <2> QED
    BY <2>1
<1>2. CASE At(p, "exit_munmap") /\ WrittenBack(p, "exit")
  <2>1. \E f \in Files : GivesUpDone(p, f, "exit")
    BY <1>2, AreaGivenUp
  <2> QED
    BY <2>1
<1> QED
  BY <1>1, <1>2 DEF Unmapped

LEMMA StepIs ==
  ASSUME Inv, NEW p \in Procs, Step(p)
  PROVE  Stopped \/ InodeStep(p) \/ FileStep(p) \/ LocalStep(p)
<1>1. CASE FsStep(p)
  <2>1. CASE LockDir(p) \/ NotFound(p) \/ Ilock(p) \/ OpenFails(p) \/ LinkBad(p) \/ Accessed(p)
    BY <2>1, LockDirDoes, NotFoundDoes, IlockDoes, OpenFailsDoes, LinkBadDoes, AccessedDoes
       DEF LocalStep
  <2>2. CASE Found(p) \/ IallocIget(p) \/ DirlinkFails(p)
    BY <2>2, FoundDoes, IallocIgetDoes, DirlinkFailsDoes DEF InodeStep
  <2>3. CASE ReadInode(p) \/ Iput(p) \/ FreeInode(p) \/ Freed(p)
    BY <2>3, ReadInodeDoes, IputDoes, FreeInodeDoes, FreedStep DEF InodeStep, LocalStep
  <2>4. CASE Ialloc(p)
    BY <2>4, IallocDoes DEF InodeStep
  <2>5. CASE Create(p) \/ Link(p) \/ Dirlink(p) \/ Unlink(p) \/ Unlinked(p)
    BY <2>5, CreateDoes, LinkDoes, DirlinkDoes, UnlinkDoes, UnlinkedDoes DEF InodeStep
  <2>6. CASE Open(p)
    BY <2>6, OpensDo DEF FileStep
  <2>7. CASE Unmapped(p)
    BY <2>7, UnmappedGivesUp DEF FileStep
  <2>8. CASE ExitClose(p)
    BY <2>8, ExitCloseDoes DEF FileStep, LocalStep
  <2> QED
    BY <1>1, <2>1, <2>2, <2>3, <2>4, <2>5, <2>6, <2>7, <2>8 DEF FsStep
<1>2. CASE UserStep(p)
  <2>1. ASSUME NEW op \in {"open", "create", "unlink", "link"}, NEW n \in Names,
               NEW m \in Names \cup {None}, Call(p, op, n, m)
        PROVE  LocalStep(p)
    BY <2>1, CallDoes DEF LocalStep
  <2>2. ASSUME NEW f \in Files, Close(p, f) \/ Dup(p, f) \/ Mmap(p, f)
        PROVE  FileStep(p)
    BY <2>2, CloseGivesUp, TakesDo DEF FileStep
  <2>3. ASSUME NEW f \in Files, Access(p, f)
        PROVE  LocalStep(p)
    BY <2>3, AccessDoes DEF LocalStep, Shared
  <2>4. CASE Munmap(p) \/ Exit(p)
    BY <2>4, MunmapDoes, ExitDoes DEF LocalStep, Shared
  <2>5. CASE Born(p)
    BY <2>5, BornDoes DEF LocalStep
  <2>6. ASSUME NEW q \in Procs, Fork(p, q)
        PROVE  FileStep(p)
    BY <2>6, ForkIs DEF FileStep
  <2> QED
    BY <1>2, <2>1, <2>2, <2>3, <2>4, <2>5, <2>6 DEF UserStep
<1>3. CASE UnrefFreed(p) /\ orphans' = orphans \cup Orphans
  BY <1>3, UnrefFreedDoes DEF InodeStep
<1> QED
  BY <1>1, <1>2, <1>3 DEF Step

(* What each kind of step leaves alone. *)
LEMMA LeftAlone ==
  ASSUME NEW p \in Procs
  PROVE  /\ InodeStep(p) => UNCHANGED <<file, ofile, vma, alive, panic>>
         /\ FileStep(p) => UNCHANGED <<dir, dinode, inode, dirlock, panic>>
         /\ LocalStep(p) => UNCHANGED <<dir, dinode, inode, file, ofile, vma, panic>>
<1>1. ASSUME InodeStep(p) PROVE UNCHANGED <<file, ofile, vma, alive, panic>>
  BY <1>1 DEF InodeStep, FoundDone, IallocIgetDone, DirlinkFailsDone, AllocDone, ReadInodeDone,
              IputDone, UnrefPutDone, FreeInodeDone, FreedPutDone, UnrefFreedDone, CreateDone,
              LinkDone, DirlinkDone, UnlinkDone, UnlinkedDone
<1>2. ASSUME FileStep(p) PROVE UNCHANGED <<dir, dinode, inode, dirlock, panic>>
  BY <1>2 DEF FileStep, OpensDone, TakesDone, GivesUpDone, ForkDone
<1>3. ASSUME LocalStep(p) PROVE UNCHANGED <<dir, dinode, inode, file, ofile, vma, panic>>
  BY <1>3 DEF LocalStep, CallDone, ReadsDone, IlockDone, LockDirDone, LinkBadDone, NotFoundDone,
              ToFreeDone, OpenFailsDone, AccessedDone, ExitsDone, DeadDone, BornDone
<1> QED
  BY <1>1, <1>2, <1>3

LEMMA OrphansStep ==
  ASSUME Inv, NEW p \in Procs, Step(p)
  PROVE  orphans' \subseteq Inums /\ orphans \subseteq orphans'
BY Parts DEF Step, Orphans, TypeOK

LEMMA NextFine ==
  ASSUME Inv, NEW p \in Procs, Step(p)
  PROVE  Fine'
BY StepIs, LeftAlone, Parts DEF Stopped, Fine

-----------------------------------------------------------------------------
(* Types, and the tables entry by entry.                                   *)

(* An inode that is in use keeps its number, but when p drops the last     *)
(* reference. *)
Drops(p, e) == put[p] = e /\ inode[e].ref = 1 /\ (IputDone(p) \/ UnrefFreedDone(p))

InodeKept(p, e) == /\ inode'[e] \in InodeType
                   /\ inode[e].ref > 0 =>
                        \/ Drops(p, e) /\ inode'[e].ref = 0
                        \/ inode'[e].ref > 0 /\ inode'[e].inum = inode[e].inum

LEMMA InodesKept ==
  ASSUME Inv, NEW p \in Procs, Step(p)
  PROVE  /\ inode' \in [Entries -> InodeType]
         /\ \A e \in Entries : InodeKept(p, e)
<1>1. inode \in [Entries -> InodeType]
  BY Parts DEF TypeOK, InodeType
<1>2. CASE inode' = inode
  BY <1>1, <1>2 DEF InodeKept
<1>3. ASSUME NEW d \in Entries, OnlyEntry(d),
             \/ inode'[d].inum = inode[d].inum /\ inode'[d].ref >= inode[d].ref
             \/ ~(inode[d].ref > 0)
             \/ UnrefDone(d) /\ put[p] = d /\ (IputDone(p) \/ UnrefFreedDone(p))
      PROVE  /\ inode' \in [Entries -> InodeType]
             /\ \A e \in Entries : InodeKept(p, e)
  <2>1. inode' \in [Entries -> InodeType] /\ inode'[d] \in InodeType
    BY <1>3 DEF OnlyEntry
  <2>2. \A e \in Entries : e # d => InodeKept(p, e)
    BY <1>1, <1>3, <2>1 DEF OnlyEntry, InodeKept
  <2>3. inode[d].ref \in Nat /\ inode'[d].ref \in Nat
    BY <1>1, <2>1 DEF InodeType
  <2>4. InodeKept(p, d)
    <3>1. CASE inode'[d].inum = inode[d].inum /\ inode'[d].ref >= inode[d].ref
      BY <2>1, <2>3, <3>1 DEF InodeKept
    <3>2. CASE ~(inode[d].ref > 0)
      BY <2>1, <3>2 DEF InodeKept
    <3>3. CASE UnrefDone(d) /\ put[p] = d /\ (IputDone(p) \/ UnrefFreedDone(p))
      <4>1. CASE inode[d].ref = 1
        BY <2>1, <2>3, <3>3, <4>1 DEF InodeKept, UnrefDone, Drops
      <4>2. CASE inode[d].ref > 1
        BY <2>1, <2>3, <3>3, <4>2 DEF InodeKept, UnrefDone
      <4>3. CASE inode[d].ref = 0
        BY <2>1, <4>3 DEF InodeKept
      <4> QED
        BY <2>3, <4>1, <4>2, <4>3
    <3> QED
      BY <1>3, <3>1, <3>2, <3>3
  <2> QED
    BY <2>1, <2>2, <2>4
<1>4. ASSUME InodeStep(p)
      PROVE  /\ inode' \in [Entries -> InodeType]
             /\ \A e \in Entries : InodeKept(p, e)
  <2>1. ASSUME NEW e \in Entries, FoundDone(p, e) \/ IallocIgetDone(p, e) \/ DirlinkFailsDone(p, e)
        PROVE  /\ OnlyEntry(e)
               /\ inode[e].ref > 0 => inode'[e].inum = inode[e].inum /\ inode'[e].ref >= inode[e].ref
    <3>1. PICK i : IgetDone(i, e)
      BY <2>1 DEF FoundDone, IallocIgetDone, DirlinkFailsDone
    <3>2. inode[e].ref \in Nat
      BY <1>1 DEF InodeType
    <3> QED
      BY <3>1, <3>2 DEF IgetDone
  <2>2. ASSUME NEW i \in Inums, AllocDone(p, i) PROVE inode' = inode
    BY <2>2 DEF AllocDone
  <2>3. CASE ReadInodeDone(p)
    BY <1>1, <1>3, <2>3 DEF ReadInodeDone, ReadDone, InodeType
  <2>4. CASE IputDone(p) \/ UnrefFreedDone(p)
    BY <1>3, <2>4 DEF IputDone, UnrefFreedDone, UnrefPutDone, UnrefDone
  <2>5. CASE FreeInodeDone(p) \/ DirlinkDone(p) \/ UnlinkDone(p)
    BY <1>2, <2>5 DEF FreeInodeDone, DirlinkDone, UnlinkDone
  <2>6. CASE FreedPutDone(p)
    BY <1>1, <1>3, <2>6 DEF FreedPutDone, FreedDone, InodeType
  <2>7. ASSUME NEW k, ip[p] \in Entries, LinksDone(ip[p], k)
        PROVE  /\ inode' \in [Entries -> InodeType]
               /\ \A e \in Entries : InodeKept(p, e)
    BY <1>1, <1>3, <2>7 DEF LinksDone, InodeType
  <2>8. CASE CreateDone(p) \/ LinkDone(p) \/ UnlinkedDone(p)
    BY <2>7, <2>8 DEF CreateDone, LinkDone, UnlinkedDone
  <2> QED
    BY <1>2, <1>3, <1>4, <2>1, <2>2, <2>3, <2>4, <2>5, <2>6, <2>8 DEF InodeStep
<1> QED
  BY <1>2, <1>4, StepIs, LeftAlone DEF Stopped

(* The locks change from free to held by p, and back. *)
LEMMA LocksStep ==
  ASSUME Inv, NEW p \in Procs, Step(p)
  PROVE  /\ lock' \in [Entries -> Procs \cup {None}] /\ dirlock' \in Procs \cup {None}
         /\ \A e \in Entries : lock'[e] = lock[e] \/ {lock'[e], lock[e]} \subseteq {p, None}
         /\ dirlock' = dirlock \/ {dirlock', dirlock} \subseteq {p, None}
<1>1. lock \in [Entries -> Procs \cup {None}] /\ dirlock \in Procs \cup {None}
  BY Parts DEF TypeOK
<1>2. ASSUME lock' = lock
      PROVE  /\ lock' \in [Entries -> Procs \cup {None}]
             /\ \A e \in Entries : lock'[e] = lock[e] \/ {lock'[e], lock[e]} \subseteq {p, None}
  BY <1>1, <1>2
<1>3. ASSUME NEW e \in Entries, lock[e] \in {p, None},
             lock' = [lock EXCEPT ![e] = None] \/ lock' = [lock EXCEPT ![e] = p]
      PROVE  /\ lock' \in [Entries -> Procs \cup {None}]
             /\ \A d \in Entries : lock'[d] = lock[d] \/ {lock'[d], lock[d]} \subseteq {p, None}
  BY <1>1, <1>3
<1>4. /\ lock' \in [Entries -> Procs \cup {None}]
      /\ \A e \in Entries : lock'[e] = lock[e] \/ {lock'[e], lock[e]} \subseteq {p, None}
  <2>1. CASE InodeStep(p)
    <3>1. CASE lock' # lock
      <4>1. FreedPutDone(p) \/ LinkDone(p) \/ UnlinkedDone(p)
        BY <2>1, <3>1 DEF InodeStep, FoundDone, IallocIgetDone, DirlinkFailsDone, AllocDone,
             ReadInodeDone, IputDone, UnrefPutDone, FreeInodeDone, UnrefFreedDone, CreateDone,
             DirlinkDone, UnlinkDone
      <4> QED
        BY <1>3, <4>1 DEF FreedPutDone, LinkDone, UnlinkedDone
    <3> QED
      BY <1>2, <1>1, <3>1
  <2>2. CASE FileStep(p)
    BY <1>1, <1>2, <1>3, <2>2 DEF FileStep, OpensDone, TakesDone, GivesUpDone, ForkDone
  <2>3. CASE LocalStep(p)
    BY <1>1, <1>2, <1>3, <2>3 DEF LocalStep, CallDone, ReadsDone, IlockDone, LockDirDone,
         LinkBadDone, NotFoundDone, ToFreeDone, OpenFailsDone, AccessedDone, ExitsDone, DeadDone,
         BornDone
  <2>4. CASE Stopped
    BY <1>1, <2>4 DEF Stopped
  <2> QED
    BY <2>1, <2>2, <2>3, <2>4, StepIs
<1>5. dirlock' \in Procs \cup {None} /\ (dirlock' = dirlock \/ {dirlock', dirlock} \subseteq {p, None})
  <2>1. CASE InodeStep(p)
    BY <1>1, <2>1 DEF InodeStep, FoundDone, IallocIgetDone, DirlinkFailsDone, AllocDone,
             ReadInodeDone, IputDone, UnrefPutDone, FreeInodeDone, UnrefFreedDone, CreateDone,
             DirlinkDone, UnlinkDone, FreedPutDone, LinkDone, UnlinkedDone
  <2>2. CASE FileStep(p)
    BY <1>1, <2>2, LeftAlone
  <2>3. CASE LocalStep(p)
    BY <1>1, <2>3 DEF LocalStep, CallDone, ReadsDone, IlockDone, LockDirDone,
         LinkBadDone, NotFoundDone, ToFreeDone, OpenFailsDone, AccessedDone, ExitsDone, DeadDone,
         BornDone
  <2>4. CASE Stopped
    BY <1>1, <2>4 DEF Stopped
  <2> QED
    BY <2>1, <2>2, <2>3, <2>4, StepIs
<1> QED
  BY <1>4, <1>5

LEMMA DirStep ==
  ASSUME Inv, NEW p \in Procs, Step(p)
  PROVE  /\ dir' \in [Names -> Inums \cup {None}]
         /\ dinode' \in [Inums -> DinodeType]
<1>1. dir \in [Names -> Inums \cup {None}] /\ dinode \in [Inums -> DinodeType]
  BY Parts DEF TypeOK, DinodeType
<1>2. CASE InodeStep(p)
  <2>1. dir' \in [Names -> Inums \cup {None}]
    BY <1>1, <1>2 DEF InodeStep, FoundDone, IallocIgetDone, DirlinkFailsDone, AllocDone,
             ReadInodeDone, IputDone, UnrefPutDone, FreeInodeDone, UnrefFreedDone, CreateDone,
             DirlinkDone, UnlinkDone, FreedPutDone, LinkDone, UnlinkedDone
  <2>2. dinode' \in [Inums -> DinodeType]
    BY <1>1, <1>2 DEF InodeStep, FoundDone, IallocIgetDone, DirlinkFailsDone, AllocDone,
             ReadInodeDone, IputDone, UnrefPutDone, FreeInodeDone, UnrefFreedDone, CreateDone,
             DirlinkDone, UnlinkDone, FreedPutDone, LinkDone, UnlinkedDone, DinodeDone, LinksDone,
             OnlyInum
  <2> QED
    BY <2>1, <2>2
<1> QED
  BY <1>1, <1>2, StepIs, LeftAlone DEF Stopped

LEMMA FilesStep ==
  ASSUME Inv, NEW p \in Procs, Step(p)
  PROVE  /\ file' \in [Files -> FileType]
         /\ ofile' \in [Procs -> [Files -> Nat]]
         /\ vma' \in [Procs -> Files \cup {None}]
         /\ alive' \in [Procs -> BOOLEAN]
<1>1. /\ file \in [Files -> FileType] /\ ofile \in [Procs -> [Files -> Nat]]
      /\ vma \in [Procs -> Files \cup {None}] /\ alive \in [Procs -> BOOLEAN]
  BY Parts DEF TypeOK, FileType
<1>2. CASE UNCHANGED <<file, ofile, vma>>
  <2>1. alive' \in [Procs -> BOOLEAN]
    <3>1. CASE LocalStep(p)
      BY <1>1, <3>1 DEF LocalStep, CallDone, ReadsDone, IlockDone, LockDirDone, LinkBadDone,
           NotFoundDone, ToFreeDone, OpenFailsDone, AccessedDone, ExitsDone, DeadDone, BornDone
    <3>2. CASE FileStep(p)
      <4>1. ASSUME NEW q \in Procs, ForkDone(p, q) PROVE alive' \in [Procs -> BOOLEAN]
        BY <4>1, ForkDoes DEF ForkDone
      <4> QED
        BY <1>1, <3>2, <4>1 DEF FileStep, OpensDone, TakesDone, GivesUpDone
    <3> QED
      BY <1>1, <3>1, <3>2, StepIs, LeftAlone DEF Stopped
  <2> QED
    BY <1>1, <1>2, <2>1
<1>3. CASE FileStep(p)
  <2>1. ASSUME NEW q \in Procs, ForkDone(p, q)
        PROVE  /\ file' \in [Files -> FileType]
               /\ ofile' \in [Procs -> [Files -> Nat]]
               /\ vma' \in [Procs -> Files \cup {None}]
               /\ alive' \in [Procs -> BOOLEAN]
    BY <2>1, ForkDoes DEF ForkDone
  <2>2. ASSUME NEW f \in Files, OpensDone(p, f) \/ TakesDone(p, f) \/ \E l \in {"user", "exit"} : GivesUpDone(p, f, l)
        PROVE  OnlyFile(f) /\ OnlyHeld(p, f) /\ alive' = alive
    BY <2>2 DEF OpensDone, TakesDone, GivesUpDone, OpenDone, DupDone
  <2> QED
    BY <1>1, <1>3, <2>1, <2>2 DEF FileStep, OnlyFile, OnlyHeld
<1> QED
  BY <1>2, <1>3, StepIs, LeftAlone DEF Stopped

LEMMA GoneStep ==
  ASSUME Inv, NEW p \in Procs, Step(p)
  PROVE  gone' \in [Procs -> SUBSET Files] /\ unchecked' \in BOOLEAN
<1>1. /\ TypeOK /\ unchecked' = unchecked /\ gone \in [Procs -> SUBSET Files]
      /\ CallInv(p) /\ HeldInv(p)
  BY Parts DEF Step, TypeOK
<1>2. CASE UNCHANGED gone
  BY <1>1, <1>2 DEF TypeOK
<1>3. CASE Unmapped(p)
  <2>1. ASSUME At(p, "munmap"), gone' = [gone EXCEPT ![p] = @ \cup {vma[p]}]
        PROVE  gone' \in [Procs -> SUBSET Files]
    <3>1. Stage(p) = "munmap"
      BY <2>1 DEF At, Stage, Putting
    <3>2. vma[p] \in Files
      BY <1>1, <3>1 DEF HeldInv, TypeOK
    <3> QED
      BY <1>1, <2>1, <3>2
  <2> QED
    BY <1>1, <1>2, <1>3, <2>1 DEF Unmapped, TypeOK
<1>4. CASE ExitClose(p)
  BY <1>1, <1>4 DEF ExitClose, TypeOK
<1>5. CASE \E q \in Procs : Fork(p, q)
  BY <1>1, <1>5 DEF Fork, TypeOK
<1>6. CASE FsStep(p) /\ ~Unmapped(p) /\ ~ExitClose(p)
  <2>1. UNCHANGED gone
    BY <1>6 DEF FsStep, LockDir, Found, NotFound, Ilock, ReadInode, Iput, FreeInode, Freed,
                Ialloc, IallocIget, Create, Open, OpenFails, Link, Dirlink, DirlinkFails, LinkBad,
                Unlink, Unlinked, Accessed, Panic, held
  <2> QED
    BY <1>2, <2>1
<1>7. CASE UserStep(p) /\ ~(\E q \in Procs : Fork(p, q))
  <2>1. UNCHANGED gone
    BY <1>7 DEF UserStep, Call, Close, Dup, Access, Mmap, Munmap, Exit, Born, held
  <2> QED
    BY <1>2, <2>1
<1>8. CASE UnrefFreed(p)
  BY <1>2, <1>8 DEF UnrefFreed, held
<1> QED
  BY <1>3, <1>4, <1>5, <1>6, <1>7, <1>8 DEF Step

LEMMA NextType ==
  ASSUME Inv, NEW p \in Procs, Step(p)
  PROVE  TypeOK'
BY GoneStep, LocalsStep, OrphansStep, InodesKept, LocksStep, DirStep, FilesStep
   DEF TypeOK, LocalsType, InodeType, DinodeType, FileType

-----------------------------------------------------------------------------
(* The calls and the locks.                                                *)

(* Of the other processes, only the child of fork() gets files.            *)
LEMMA HeldKept ==
  ASSUME Inv, NEW p \in Procs, Step(p), NEW q \in Procs, q # p
  PROVE  /\ pc[q] # "user" => vma'[q] = vma[q] /\ \A f \in Files : Holds(q, f)' = Holds(q, f)
         /\ ~alive'[q] => ~alive[q] /\ vma'[q] = vma[q] /\ \A f \in Files : Holds(q, f)' = Holds(q, f)
<1>1. alive \in [Procs -> BOOLEAN]
  BY Parts DEF TypeOK
<1>2. CASE UNCHANGED <<ofile, vma>>
  <2>1. \A f \in Files : Holds(q, f)' = Holds(q, f)
    BY <1>2 DEF Holds
  <2>2. ~alive'[q] => ~alive[q]
    <3>1. CASE LocalStep(p)
      BY <1>1, <3>1 DEF LocalStep, CallDone, ReadsDone, IlockDone, LockDirDone, LinkBadDone,
           NotFoundDone, ToFreeDone, OpenFailsDone, AccessedDone, ExitsDone, DeadDone, BornDone
    <3>2. CASE FileStep(p)
      <4>1. ASSUME NEW r \in Procs, ForkDone(p, r) PROVE ~alive'[q] => ~alive[q]
        BY <1>1, <4>1, ForkDoes DEF ForkDone
      <4> QED
        BY <1>1, <3>2, <4>1 DEF FileStep, OpensDone, TakesDone, GivesUpDone
    <3> QED
      BY <1>1, <3>1, <3>2, StepIs, LeftAlone DEF Stopped
  <2> QED
    BY <1>2, <2>1, <2>2
<1>3. CASE FileStep(p)
  <2>1. ASSUME NEW r \in Procs, ForkDone(p, r)
        PROVE  /\ q # r => vma'[q] = vma[q] /\ alive'[q] = alive[q] /\ \A f \in Files : Holds(q, f)' = Holds(q, f)
               /\ q = r => alive'[q] /\ pc[q] = "user"
    BY <2>1, ForkDoes DEF ForkDone
  <2>2. ASSUME NEW f \in Files, OpensDone(p, f) \/ TakesDone(p, f) \/ \E l \in {"user", "exit"} : GivesUpDone(p, f, l)
        PROVE  /\ vma'[q] = vma[q] /\ alive'[q] = alive[q]
               /\ \A g \in Files : Holds(q, g)' = Holds(q, g)
    <3>1. OnlyHeld(p, f) /\ alive' = alive
      BY <2>2 DEF OpensDone, TakesDone, GivesUpDone
    <3> QED
      BY <3>1 DEF OnlyHeld
  <2> QED
    BY <1>3, <2>1, <2>2 DEF FileStep
<1> QED
  BY <1>2, <1>3, StepIs, LeftAlone DEF Stopped

LEMMA NextCallInv ==
  ASSUME Inv, NEW p \in Procs, Step(p), NEW q \in Procs
  PROVE  CallInv(q)'
<1>1. TypeOK /\ CallInv(p) /\ CallInv(q)
  BY Parts
<1>2. CASE q # p
  <2>1. /\ pc'[q] = pc[q] /\ then'[q] = then[q] /\ call'[q] = call[q]
        /\ ip'[q] = ip[q] /\ put'[q] = put[q] /\ inum'[q] = inum[q]
    BY <1>2, LocalsStep DEF OthersStay
  <2>2. ~alive'[q] => ~alive[q]
    BY <1>2, HeldKept
  <2> QED
    BY <1>1, <2>1, <2>2 DEF CallInv, Stage
<1>3. ASSUME Stopped PROVE CallInv(p)'
  <2>1. /\ pc' = pc /\ then' = then /\ call' = call /\ ip' = ip /\ put' = put /\ inum' = inum
        /\ alive' = alive
    BY <1>3 DEF Stopped
  <2> QED
    BY <1>1, <2>1 DEF CallInv, Stage
<1>4. ASSUME InodeStep(p) PROVE CallInv(p)'
  <2>1. alive' = alive /\ None \notin Entries /\ None \notin Inums /\ None \notin Names
    BY <1>4, LeftAlone, Nones
  <2>2. ASSUME NEW e \in Entries, FoundDone(p, e) \/ IallocIgetDone(p, e) \/ DirlinkFailsDone(p, e)
        PROVE  CallInv(p)'
    BY <1>1, <2>1, <2>2 DEF FoundDone, IallocIgetDone, DirlinkFailsDone,
         CallInv, Stage, Now, Opening, Shared, Putting
  <2>3. ASSUME NEW i \in Inums, AllocDone(p, i) PROVE CallInv(p)'
    BY <1>1, <2>1, <2>3 DEF AllocDone, CallInv, Stage, Now, Opening, Shared, Putting
  <2>4. CASE ReadInodeDone(p)
    BY <1>1, <2>1, <2>4 DEF ReadInodeDone, CallInv, Stage, Now, Opening, Shared, Putting
  <2>5. CASE IputDone(p) \/ UnrefFreedDone(p)
    BY <1>1, <2>1, <2>5 DEF IputDone, UnrefFreedDone, UnrefPutDone,
         CallInv, Stage, Now, Opening, Shared, Putting
  <2>6. CASE FreeInodeDone(p)
    BY <1>1, <2>1, <2>6 DEF FreeInodeDone, CallInv, Stage, Now, Opening, Shared, Putting
  <2>9. CASE FreedPutDone(p)
    BY <1>1, <2>1, <2>9 DEF FreedPutDone, CallInv, Stage, Now, Opening, Shared, Putting
  <2>7. CASE CreateDone(p) \/ LinkDone(p) \/ UnlinkDone(p)
    BY <1>1, <2>1, <2>7 DEF CreateDone, LinkDone, UnlinkDone,
         CallInv, Stage, Now, Opening, Shared, Putting
  <2>8. CASE DirlinkDone(p) \/ UnlinkedDone(p)
    BY <1>1, <2>1, <2>8 DEF DirlinkDone, UnlinkedDone,
         CallInv, Stage, Now, Opening, Shared, Putting, NoCall
  <2> QED
    BY <1>4, <2>2, <2>3, <2>4, <2>5, <2>6, <2>7, <2>8, <2>9 DEF InodeStep
<1>5. ASSUME FileStep(p) PROVE CallInv(p)'
  <2>1. alive'[p] = alive[p] /\ None \notin Entries /\ None \notin Inums /\ None \notin Names
    <3>1. ASSUME NEW r \in Procs, ForkDone(p, r) PROVE alive'[p] = alive[p]
      BY <3>1, ForkDoes DEF ForkDone
    <3> QED
      BY <1>5, <3>1, Nones DEF FileStep, OpensDone, TakesDone, GivesUpDone
  <2> QED
    BY <1>1, <1>5, <2>1 DEF FileStep, OpensDone, TakesDone, GivesUpDone, ForkDone,
             CallInv, Stage, Now, Opening, Shared, Putting, NoCall
<1>6. ASSUME LocalStep(p) PROVE CallInv(p)'
  <2>1. None \notin Entries /\ None \notin Inums /\ None \notin Names
    BY Nones
  <2> QED
    BY <1>1, <1>6, <2>1 DEF LocalStep, CallDone, ReadsDone, IlockDone, LockDirDone, LinkBadDone,
           NotFoundDone, ToFreeDone, OpenFailsDone, AccessedDone, ExitsDone, DeadDone, BornDone,
             CallInv, Stage, Now, Opening, Shared, Putting, NoCall, CallType, TypeOK
<1> QED
  BY <1>2, <1>3, <1>4, <1>5, <1>6, StepIs

LEMMA NextLockInv ==
  ASSUME Inv, NEW p \in Procs, Step(p), NEW q \in Procs
  PROVE  LockInv(q)'
<1>1. TypeOK /\ CallInv(p) /\ LockInv(p) /\ LockInv(q)
  BY Parts
<1>2. CASE q # p
  <2>1. /\ pc'[q] = pc[q] /\ then'[q] = then[q] /\ ip'[q] = ip[q] /\ put'[q] = put[q]
    BY <1>2, LocalsStep DEF OthersStay
  <2>2. q # None
    BY Nones
  <2>3. /\ \A e \in Entries : lock'[e] = q <=> lock[e] = q
        /\ dirlock' = q <=> dirlock = q
    BY <1>2, <2>2, LocksStep
  <2> QED
    BY <1>1, <2>1, <2>3 DEF LockInv, HasLock, Locked, HasDirlock, Stage
<1>3. ASSUME Stopped PROVE LockInv(p)'
  <2>1. pc' = pc /\ then' = then /\ ip' = ip /\ put' = put /\ lock' = lock /\ dirlock' = dirlock
    BY <1>3 DEF Stopped
  <2> QED
    BY <1>1, <2>1 DEF LockInv, HasLock, Locked, HasDirlock, Stage
<1>4. /\ lock \in [Entries -> Procs \cup {None}] /\ p # None /\ None \notin Entries
  BY <1>1, Nones DEF TypeOK
<1> USE DEF Stage, Now, Opening, Shared, Putting, HasLock, Locked, HasDirlock
<1>5. ASSUME InodeStep(p) PROVE LockInv(p)'
  <2>1. ASSUME NEW e \in Entries, FoundDone(p, e) \/ IallocIgetDone(p, e) \/ DirlinkFailsDone(p, e)
        PROVE  LockInv(p)'
    BY <1>1, <1>4, <2>1 DEF FoundDone, IallocIgetDone, DirlinkFailsDone, LockInv
  <2>2. ASSUME NEW i \in Inums, AllocDone(p, i) PROVE LockInv(p)'
    BY <1>1, <1>4, <2>2 DEF AllocDone, LockInv
  <2>3. CASE ReadInodeDone(p)
    BY <1>1, <1>4, <2>3 DEF ReadInodeDone, LockInv
  <2>4. CASE IputDone(p) \/ UnrefFreedDone(p)
    BY <1>1, <1>4, <2>4 DEF IputDone, UnrefFreedDone, UnrefPutDone, LockInv
  <2>5. CASE FreeInodeDone(p)
    BY <1>1, <1>4, <2>5 DEF FreeInodeDone, LockInv
  <2>8. CASE FreedPutDone(p)
    BY <1>1, <1>4, <2>8 DEF FreedPutDone, LockInv
  <2>6. CASE CreateDone(p) \/ LinkDone(p) \/ UnlinkDone(p)
    BY <1>1, <1>4, <2>6 DEF CreateDone, LinkDone, UnlinkDone, LockInv
  <2>7. CASE DirlinkDone(p) \/ UnlinkedDone(p)
    BY <1>1, <1>4, <2>7 DEF DirlinkDone, UnlinkedDone, LockInv
  <2> QED
    BY <1>5, <2>1, <2>2, <2>3, <2>4, <2>5, <2>6, <2>7, <2>8 DEF InodeStep
<1>6. ASSUME FileStep(p) PROVE LockInv(p)'
  <2>1. CASE \E f \in Files : OpensDone(p, f) \/ TakesDone(p, f)
    BY <1>1, <1>4, <2>1 DEF OpensDone, TakesDone, LockInv
  <2>2. CASE \E f \in Files, l \in {"user", "exit"} : GivesUpDone(p, f, l)
    BY <1>1, <1>4, <2>2 DEF GivesUpDone, LockInv
  <2>3. CASE \E r \in Procs : ForkDone(p, r)
    BY <1>1, <1>4, <2>3 DEF ForkDone, LockInv
  <2> QED
    BY <1>6, <2>1, <2>2, <2>3 DEF FileStep
<1>7. ASSUME LocalStep(p) PROVE LockInv(p)'
  <2>1. CASE \E k \in CallType : CallDone(p, k)
    BY <1>1, <1>4, <2>1 DEF CallDone, LockInv
  <2>2. CASE \E f \in Files, l \in Shared : ReadsDone(p, f, l)
    BY <1>1, <1>4, <2>2 DEF ReadsDone, LockInv
  <2>3. CASE IlockDone(p) \/ ToFreeDone(p)
    BY <1>1, <1>4, <2>3 DEF IlockDone, ToFreeDone, LockInv
  <2>4. CASE LockDirDone(p) \/ LinkBadDone(p) \/ NotFoundDone(p)
    BY <1>1, <1>4, <2>4 DEF LockDirDone, LinkBadDone, NotFoundDone, LockInv
  <2>5. CASE OpenFailsDone(p) \/ AccessedDone(p)
    BY <1>1, <1>4, <2>5 DEF OpenFailsDone, AccessedDone, LockInv
  <2>6. CASE ExitsDone(p) \/ DeadDone(p) \/ BornDone(p)
    BY <1>1, <1>4, <2>6 DEF ExitsDone, DeadDone, BornDone, LockInv
  <2> QED
    BY <1>7, <2>1, <2>2, <2>3, <2>4, <2>5, <2>6 DEF LocalStep
<1> QED
  BY <1>2, <1>3, <1>5, <1>6, <1>7, StepIs

(* An entry that anybody but an iput() of p refers to stays in use, and    *)
(* valid if it is, but for the time iput() frees the inode. *)
LEMMA ValidsKept ==
  ASSUME Inv, NEW p \in Procs, Step(p), NEW e \in Entries, inode[e].ref > 0, inode[e].valid
  PROVE  inode'[e].valid \/ Drops(p, e) \/ (FreedPutDone(p) /\ put[p] = e)
<1>1. TypeOK /\ inode[e].ref \in Nat
  BY Parts DEF TypeOK
<1>2. CASE inode' = inode
  BY <1>2
<1>3. CASE InodeStep(p)
  <2>1. ASSUME NEW d \in Entries, FoundDone(p, d) \/ IallocIgetDone(p, d) \/ DirlinkFailsDone(p, d)
        PROVE  inode'[e].valid
    <3>1. PICK i : IgetDone(i, d)
      BY <2>1 DEF FoundDone, IallocIgetDone, DirlinkFailsDone
    <3> QED
      BY <3>1 DEF IgetDone, OnlyEntry
  <2>2. ASSUME NEW i \in Inums, AllocDone(p, i) PROVE inode' = inode
    BY <2>2 DEF AllocDone
  <2>3. CASE ReadInodeDone(p)
    BY <2>3 DEF ReadInodeDone, ReadDone, OnlyEntry
  <2>4. CASE IputDone(p) \/ UnrefFreedDone(p)
    <3>1. UnrefDone(put[p])
      BY <2>4 DEF IputDone, UnrefFreedDone, UnrefPutDone
    <3> QED
      BY <1>1, <2>4, <3>1 DEF UnrefDone, OnlyEntry, Drops
  <2>5. CASE FreeInodeDone(p) \/ DirlinkDone(p) \/ UnlinkDone(p)
    BY <1>2, <2>5 DEF FreeInodeDone, DirlinkDone, UnlinkDone
  <2>6. CASE FreedPutDone(p)
    BY <2>6 DEF FreedPutDone, FreedDone, OnlyEntry
  <2>7. CASE CreateDone(p) \/ LinkDone(p) \/ UnlinkedDone(p)
    BY <2>7 DEF CreateDone, LinkDone, UnlinkedDone, LinksDone, OnlyEntry
  <2> QED
    BY <1>2, <1>3, <2>1, <2>2, <2>3, <2>4, <2>5, <2>6, <2>7 DEF InodeStep
<1> QED
  BY <1>2, <1>3, StepIs, LeftAlone DEF Stopped

LEMMA DropsLast ==
  ASSUME Inv, NEW p \in Procs, NEW e \in Entries, Drops(p, e)
  PROVE  /\ FilesOf(e) = {} /\ Calls(e) = {} /\ Puts(e) = {p}
         /\ \A q \in Procs : ip[q] # e
<1>1. FilesOf(e) = {} /\ Calls(e) = {} /\ Puts(e) = {p}
  BY Parts, EntryCounts DEF Drops
<1>2. ASSUME NEW q \in Procs, ip[q] = e PROVE FALSE
  <2>1. call[q].op # "none" \/ FilesOf(ip[q]) # {}
    BY <1>2, Nones, InTable
  <2>2. q \in Calls(e)
    BY <1>1, <1>2, <2>1 DEF Calls
  <2> QED
    BY <1>1, <2>2
<1> QED
  BY <1>1, <1>2

LEMMA IpKept ==
  ASSUME Inv, NEW p \in Procs, Step(p), NEW q \in Procs, ip[q] # None
  PROVE  /\ ip[q] \in Entries /\ inode[ip[q]].ref > 0
         /\ inode'[ip[q]].ref > 0 /\ inode'[ip[q]].inum = inode[ip[q]].inum
         /\ inode[ip[q]].valid /\ ~(pc[q] = "ilock" /\ then[q] = "create") => inode'[ip[q]].valid
<1>1. ip[q] \in Entries /\ inode[ip[q]].ref > 0
  BY InTable
<1>2. ~Drops(p, ip[q])
  BY <1>1, DropsLast
<1>3. inode'[ip[q]].ref > 0 /\ inode'[ip[q]].inum = inode[ip[q]].inum
  BY <1>1, <1>2, InodesKept DEF InodeKept
<1>4. FreedPutDone(p) /\ put[p] = ip[q] => pc[q] = "ilock" /\ then[q] = "create"
  <2>1. FreedPutDone(p) => pc[p] = "freed"
    BY DEF FreedPutDone
  <2> QED
    BY <2>1, FreeingIs
<1> QED
  BY <1>1, <1>2, <1>3, <1>4, ValidsKept

LEMMA PutKept ==
  ASSUME Inv, NEW p \in Procs, Step(p), NEW q \in Procs, q # p, put[q] # None
  PROVE  /\ put[q] \in Entries /\ inode[put[q]].ref > 0
         /\ inode'[put[q]].ref > 0 /\ inode'[put[q]].inum = inode[put[q]].inum
         /\ inode[put[q]].valid => inode'[put[q]].valid
<1>1. put[q] \in Entries /\ inode[put[q]].ref > 0
  BY PutInTable
<1>2. q \in Puts(put[q])
  BY DEF Puts
<1>3. ~Drops(p, put[q])
  <2>1. Puts(put[q]) # {p}
    BY <1>2
  <2> QED
    BY <1>1, <2>1, DropsLast
<1>4. inode'[put[q]].ref > 0 /\ inode'[put[q]].inum = inode[put[q]].inum
  BY <1>1, <1>3, InodesKept DEF InodeKept
<1>5. ~(FreedPutDone(p) /\ put[p] = put[q])
  <2> SUFFICES ASSUME FreedPutDone(p), put[p] = put[q] PROVE FALSE
    OBVIOUS
  <2>1. pc[p] = "freed"
    BY DEF FreedPutDone
  <2>2. Puts(put[p]) = {p}
    BY <2>1, FreeingIs
  <2> QED
    BY <1>2, <2>2
<1> QED
  BY <1>1, <1>3, <1>4, <1>5, ValidsKept

LEMMA FileIpKept ==
  ASSUME Inv, NEW p \in Procs, Step(p), NEW f \in Files, file[f].ref > 0
  PROVE  /\ file[f].ip \in Entries
         /\ inode'[file[f].ip].ref > 0 /\ inode'[file[f].ip].inum = inode[file[f].ip].inum
         /\ inode'[file[f].ip].valid
<1>1. /\ file[f].ip \in Entries /\ inode[file[f].ip].ref > 0 /\ inode[file[f].ip].valid
      /\ f \in FilesOf(file[f].ip)
  BY FileInTable
<1>2. ~Drops(p, file[f].ip)
  BY <1>1, DropsLast
<1>3. inode'[file[f].ip].ref > 0 /\ inode'[file[f].ip].inum = inode[file[f].ip].inum
  BY <1>1, <1>2, InodesKept DEF InodeKept
<1>4. ~(FreedPutDone(p) /\ put[p] = file[f].ip)
  <2> SUFFICES ASSUME FreedPutDone(p), put[p] = file[f].ip PROVE FALSE
    OBVIOUS
  <2>1. pc[p] = "freed"
    BY DEF FreedPutDone
  <2>2. FilesOf(put[p]) = {}
    BY <2>1, FreeingIs
  <2> QED
    BY <1>1, <2>2
<1> QED
  BY <1>1, <1>2, <1>3, <1>4, ValidsKept

(* A file that another process has stays open.                             *)
LEMMA FileKept ==
  ASSUME Inv, NEW p \in Procs, Step(p), NEW q \in Procs, q # p, NEW f \in Files, Holds(q, f) > 0
  PROVE  file'[f].ip = file[f].ip /\ file'[f].ref > 0
<1>1. TypeOK /\ Balanced
  BY Parts
<1>2. file[f].ref > 0 /\ (Holds(p, f) > 0 => file[f].ref > 1) /\ file[f].ref \in Nat
  BY <1>1, FileCounts DEF TypeOK
<1>3. CASE FileStep(p)
  <2>1. ASSUME NEW g \in Files, OpensDone(p, g)
        PROVE  file'[f].ip = file[f].ip /\ file'[f].ref > 0
    BY <1>2, <2>1 DEF OpensDone, OpenDone, OnlyFile
  <2>2. ASSUME NEW g \in Files, TakesDone(p, g)
        PROVE  file'[f].ip = file[f].ip /\ file'[f].ref > 0
    BY <1>2, <2>2 DEF TakesDone, DupDone, OnlyFile
  <2>3. ASSUME NEW g \in Files, NEW l \in {"user", "exit"}, GivesUpDone(p, g, l)
        PROVE  file'[f].ip = file[f].ip /\ file'[f].ref > 0
    BY <1>2, <2>3 DEF GivesUpDone, OnlyFile
  <2>4. ASSUME NEW r \in Procs, ForkDone(p, r)
        PROVE  file'[f].ip = file[f].ip /\ file'[f].ref > 0
    <3>1. file'[f].ref = file[f].ref + Holds(p, f) /\ file'[f].ip = file[f].ip
      BY <2>4, ForkDoes DEF ForkDone
    <3> QED
      BY <1>1, <1>2, <3>1, HoldsType
  <2> QED
    BY <1>3, <2>1, <2>2, <2>3, <2>4 DEF FileStep
<1> QED
  BY <1>2, <1>3, StepIs, LeftAlone DEF Stopped

LEMMA NextHeldInv ==
  ASSUME Inv, NEW p \in Procs, Step(p), NEW q \in Procs
  PROVE  HeldInv(q)'
<1>1. TypeOK /\ CallInv(p) /\ CallInv(q) /\ HeldInv(p) /\ HeldInv(q)
  BY Parts
<1>2. CASE q # p
  <2>1. /\ pc'[q] = pc[q] /\ then'[q] = then[q] /\ ip'[q] = ip[q] /\ inum'[q] = inum[q]
        /\ Stage(q)' = Stage(q)
    BY <1>2, LocalsStep DEF OthersStay, Stage
  <2>2. Stage(q) \in Shared \cup {"exit"} => pc[q] # "user"
    BY <1>1 DEF Stage, Shared, Putting
  <2>3. ASSUME Stage(q) \in Shared
        PROVE  \E f \in Files : Holds(q, f)' > 0 /\ file'[f].ip = ip[q]
    <3>1. PICK f \in Files : Holds(q, f) > 0 /\ file[f].ip = ip[q]
      BY <1>1, <2>3 DEF HeldInv
    <3>2. Holds(q, f)' > 0
      BY <1>2, <2>2, <2>3, <3>1, HeldKept
    <3>3. file'[f].ip = file[f].ip
      BY <1>2, <3>1, FileKept
    <3> QED
      BY <3>1, <3>2, <3>3
  <2>4. ASSUME Stage(q) \in {"munmap", "exit_munmap"}
        PROVE  vma'[q] # None /\ file'[vma'[q]].ip = ip[q]
    <3>1. vma[q] # None /\ file[vma[q]].ip = ip[q] /\ vma'[q] = vma[q]
      BY <1>1, <1>2, <2>2, <2>4, HeldKept DEF HeldInv, Shared
    <3>2. vma[q] \in Files
      BY <1>1, <3>1 DEF TypeOK
    <3>3. Holds(q, vma[q]) > 0
      <4>1. ofile[q][vma[q]] \in Nat
        BY <1>1, <3>2 DEF TypeOK
      <4> QED
        BY <4>1 DEF Holds
    <3>4. file'[vma[q]].ip = file[vma[q]].ip
      BY <1>2, <3>2, <3>3, FileKept
    <3> QED
      BY <3>1, <3>4
  <2>5. Stage(q) = "exit" => vma'[q] = None
    BY <1>1, <1>2, <2>2, HeldKept DEF HeldInv
  <2>6. ~alive'[q] => \A f \in Files : Holds(q, f)' = 0
    BY <1>1, <1>2, HeldKept DEF HeldInv
  <2>7. inum[q] # None /\ ip[q] # None => inode'[ip[q]].inum = inum[q]
    BY <1>1, IpKept DEF HeldInv
  <2> QED
    BY <2>1, <2>3, <2>4, <2>5, <2>6, <2>7 DEF HeldInv
<1>3. ip[p] # None => inode'[ip[p]].inum = inode[ip[p]].inum
  BY IpKept
<1>4. ASSUME UNCHANGED <<file, ofile, vma, alive>>
      PROVE  /\ \A f \in Files : Holds(p, f)' = Holds(p, f)
             /\ file' = file /\ vma' = vma /\ alive' = alive
  BY <1>4 DEF Holds
<1>5. ASSUME Stopped PROVE HeldInv(p)'
  <2>1. /\ pc' = pc /\ then' = then /\ ip' = ip /\ inum' = inum /\ inode' = inode
        /\ UNCHANGED <<file, ofile, vma, alive>>
    BY <1>5 DEF Stopped
  <2> QED
    BY <1>1, <1>4, <2>1 DEF HeldInv, Stage
<1> USE DEF Stage, Now, Opening, Shared, Putting
<1>6. ASSUME InodeStep(p) PROVE HeldInv(p)'
  <2>1. /\ \A f \in Files : Holds(p, f)' = Holds(p, f)
        /\ file' = file /\ vma' = vma /\ alive' = alive
    BY <1>4, <1>6, LeftAlone
  <2>2. ASSUME NEW e \in Entries, FoundDone(p, e) \/ IallocIgetDone(p, e) \/ DirlinkFailsDone(p, e)
        PROVE  HeldInv(p)'
    BY <1>1, <1>3, <2>1, <2>2 DEF FoundDone, IallocIgetDone, DirlinkFailsDone, IgetDone, HeldInv
  <2>3. ASSUME NEW i \in Inums, AllocDone(p, i) PROVE HeldInv(p)'
    BY <1>1, <1>3, <2>1, <2>3 DEF AllocDone, HeldInv
  <2>4. CASE ReadInodeDone(p)
    BY <1>1, <1>3, <2>1, <2>4 DEF ReadInodeDone, HeldInv
  <2>5. CASE IputDone(p) \/ UnrefFreedDone(p)
    BY <1>1, <1>3, <2>1, <2>5 DEF IputDone, UnrefFreedDone, UnrefPutDone, HeldInv
  <2>6. CASE FreeInodeDone(p)
    BY <1>1, <1>3, <2>1, <2>6 DEF FreeInodeDone, HeldInv
  <2>7. CASE FreedPutDone(p)
    BY <1>1, <1>3, <2>1, <2>7 DEF FreedPutDone, HeldInv
  <2>8. CASE CreateDone(p) \/ LinkDone(p) \/ UnlinkDone(p)
    BY <1>1, <1>3, <2>1, <2>8 DEF CreateDone, LinkDone, UnlinkDone, HeldInv
  <2>9. CASE DirlinkDone(p) \/ UnlinkedDone(p)
    BY <1>1, <1>3, <2>1, <2>9 DEF DirlinkDone, UnlinkedDone, HeldInv
  <2> QED
    BY <1>6, <2>2, <2>3, <2>4, <2>5, <2>6, <2>7, <2>8, <2>9 DEF InodeStep
<1>7. ASSUME FileStep(p) PROVE HeldInv(p)'
  <2>1. CASE \E f \in Files : OpensDone(p, f) \/ TakesDone(p, f)
    BY <1>1, <1>3, <2>1 DEF OpensDone, TakesDone, HeldInv, CallInv
  <2>2. CASE \E f \in Files, l \in {"user", "exit"} : GivesUpDone(p, f, l)
    BY <1>1, <1>3, <2>2 DEF GivesUpDone, HeldInv
  <2>3. ASSUME NEW r \in Procs, ForkDone(p, r) PROVE HeldInv(p)'
    <3>1. Fork(p, r) /\ p # r
      BY <2>3 DEF ForkDone
    <3>2. alive'[p] = alive[p]
      BY <3>1, ForkDoes
    <3>3. alive[p]
      BY <3>1 DEF Fork, Idle
    <3> QED
      BY <1>1, <1>3, <2>3, <3>2, <3>3 DEF ForkDone, HeldInv
  <2> QED
    BY <1>7, <2>1, <2>2, <2>3 DEF FileStep
<1>8. ASSUME LocalStep(p) PROVE HeldInv(p)'
  <2>1. /\ \A f \in Files : Holds(p, f)' = Holds(p, f)
        /\ file' = file /\ vma' = vma /\ inode' = inode
    BY <1>8, LeftAlone DEF Holds
  <2>2. alive \in [Procs -> BOOLEAN]
    BY <1>1 DEF TypeOK
  <2>3. CASE \E k \in CallType : CallDone(p, k)
    BY <1>1, <2>1, <2>3 DEF CallDone, HeldInv
  <2>4. CASE \E f \in Files, l \in Shared : ReadsDone(p, f, l)
    BY <1>1, <2>1, <2>4, Nones DEF ReadsDone, HeldInv
  <2>5. CASE IlockDone(p) \/ ToFreeDone(p)
    BY <1>1, <2>1, <2>5 DEF IlockDone, ToFreeDone, HeldInv
  <2>6. CASE LockDirDone(p) \/ LinkBadDone(p) \/ NotFoundDone(p)
    BY <1>1, <2>1, <2>6 DEF LockDirDone, LinkBadDone, NotFoundDone, HeldInv
  <2>7. CASE OpenFailsDone(p) \/ AccessedDone(p)
    BY <1>1, <2>1, <2>7 DEF OpenFailsDone, AccessedDone, HeldInv
  <2>8. CASE ExitsDone(p) \/ DeadDone(p) \/ BornDone(p)
    BY <1>1, <2>1, <2>2, <2>8 DEF ExitsDone, DeadDone, BornDone, HeldInv
  <2> QED
    BY <1>8, <2>3, <2>4, <2>5, <2>6, <2>7, <2>8 DEF LocalStep
<1> QED
  BY <1>2, <1>5, <1>6, <1>7, <1>8, StepIs

-----------------------------------------------------------------------------
(* Files and entries.                                                      *)

LEMMA NextFileInv ==
  ASSUME Inv, NEW p \in Procs, Step(p), NEW f \in Files
  PROVE  FileInv(f)'
<1>1. /\ TypeOK /\ Balanced /\ FileInv(f) /\ None \notin Entries
      /\ file[f].ref \in Nat
  BY Parts, Nones DEF TypeOK
<1>2. ASSUME file'[f].ip = file[f].ip, file'[f].ref > 0 <=> file[f].ref > 0
      PROVE  FileInv(f)'
  BY <1>1, <1>2, FileIpKept DEF FileInv
<1>3. CASE file'[f] = file[f]
  BY <1>2, <1>3
<1>4. CASE FileStep(p)
  <2>1. ASSUME NEW g \in Files, OpensDone(p, g) PROVE FileInv(f)'
    <3>1. CASE f = g
      BY <1>1, <2>1, <3>1 DEF OpensDone, OpenDone, FileInv
    <3> QED
      BY <1>3, <2>1, <3>1 DEF OpensDone, OpenDone, OnlyFile
  <2>2. ASSUME NEW g \in Files, TakesDone(p, g) PROVE FileInv(f)'
    <3>1. CASE f = g
      BY <1>1, <1>2, <2>2, <3>1 DEF TakesDone, DupDone
    <3> QED
      BY <1>3, <2>2, <3>1 DEF TakesDone, DupDone, OnlyFile
  <2>3. ASSUME NEW g \in Files, NEW l \in {"user", "exit"}, GivesUpDone(p, g, l) PROVE FileInv(f)'
    <3>1. CASE f = g /\ file[f].ref > 1
      BY <1>1, <1>2, <2>3, <3>1 DEF GivesUpDone
    <3>2. CASE f = g /\ file[f].ref = 1
      BY <1>1, <2>3, <3>2 DEF GivesUpDone, FileInv
    <3>3. CASE f # g
      BY <1>3, <2>3, <3>3 DEF GivesUpDone, OnlyFile
    <3> QED
      BY <2>3, <3>1, <3>2, <3>3 DEF GivesUpDone
  <2>4. ASSUME NEW q \in Procs, ForkDone(p, q) PROVE FileInv(f)'
    <3>1. file'[f].ref = file[f].ref + Holds(p, f) /\ file'[f].ip = file[f].ip
      BY <2>4, ForkDoes DEF ForkDone
    <3>2. Holds(p, f) \in Nat /\ (Holds(p, f) > 0 => file[f].ref > 0)
      BY <1>1, HoldsType, FileCounts
    <3> QED
      BY <1>1, <1>2, <3>1, <3>2
  <2> QED
    BY <1>4, <2>1, <2>2, <2>3, <2>4 DEF FileStep
<1> QED
  BY <1>3, <1>4, StepIs, LeftAlone DEF Stopped

LEMMA SameReferences ==
  ASSUME TypeOK, TypeOK', NEW f \in Files,
         \A q \in Procs : Holds(q, f)' = Holds(q, f)
  PROVE  Cardinality(References(f))' = Cardinality(References(f))
<1>1. References(f)' = References(f)
  BY DEF References
<1> QED
  BY <1>1

LEMMA ReferencesChange ==
  ASSUME TypeOK, TypeOK', NEW f \in Files, NEW p \in Procs,
         \A q \in Procs : q # p => Holds(q, f)' = Holds(q, f)
  PROVE  Cardinality(References(f))' = Cardinality(References(f)) - Holds(p, f) + Holds(p, f)'
<1> DEFINE h == [q \in Procs |-> Holds(q, f)]
           g == [q \in Procs |-> Holds(q, f)']
<1>1. h \in [Procs -> Nat] /\ References(f) = Pairs(h)
  BY ReferencesAre
<1>2. \A q \in Procs : Holds(q, f)' \in Nat
  BY DEF TypeOK, Holds
<1>3. g \in [Procs -> Nat]
  BY <1>2
<1>4. /\ \A q \in Procs : h[q] = Holds(q, f)
      /\ \A q \in Procs : g[q] = Holds(q, f)'
  OBVIOUS
<1> HIDE DEF g, h
<1>5. References(f)' = Pairs(g)
  BY <1>4 DEF References, Pairs
<1>6. Cardinality(Pairs(g)) = Cardinality(Pairs(h)) - h[p] + g[p]
  BY <1>1, <1>3, <1>4, PairsChange
<1> QED
  BY <1>1, <1>4, <1>5, <1>6

LEMMA NextBalanced ==
  ASSUME Inv, NEW p \in Procs, Step(p)
  PROVE  Balanced'
<1> SUFFICES ASSUME NEW f \in Files
             PROVE  file'[f].ref = Cardinality(References(f))'
  BY DEF Balanced
<1>1. TypeOK /\ TypeOK' /\ Balanced /\ file[f].ref = Cardinality(References(f))
  BY Parts, NextType DEF Balanced
<1>2. ASSUME file'[f] = file[f], \A q \in Procs : Holds(q, f)' = Holds(q, f)
      PROVE  file'[f].ref = Cardinality(References(f))'
  BY <1>1, <1>2, SameReferences
<1>3. CASE UNCHANGED <<file, ofile, vma>>
  BY <1>2, <1>3 DEF Holds
<1>4. ASSUME NEW q \in Procs, \A r \in Procs : r # q => Holds(r, f)' = Holds(r, f),
             file'[f].ref = file[f].ref - Holds(q, f) + Holds(q, f)'
      PROVE  file'[f].ref = Cardinality(References(f))'
  BY <1>1, <1>4, ReferencesChange
<1>5. file[f].ref \in Nat /\ Holds(p, f) \in Nat
  BY <1>1, HoldsType DEF TypeOK
<1>6. CASE FileStep(p)
  <2>1. ASSUME NEW g \in Files, OnlyFile(g), OnlyHeld(p, g),
               file'[g].ref = file[g].ref - Holds(p, g) + Holds(p, g)'
        PROVE  file'[f].ref = Cardinality(References(f))'
    <3>1. CASE f = g
      BY <1>4, <2>1, <3>1 DEF OnlyHeld
    <3>2. CASE f # g
      BY <1>2, <2>1, <3>2 DEF OnlyFile, OnlyHeld
    <3> QED
      BY <3>1, <3>2
  <2>2. ASSUME NEW g \in Files, OpensDone(p, g) \/ TakesDone(p, g) \/ \E l \in {"user", "exit"} : GivesUpDone(p, g, l)
        PROVE  file'[f].ref = Cardinality(References(f))'
    <3>1. Holds(p, g) \in Nat /\ file[g].ref \in Nat
      BY <1>1, HoldsType DEF TypeOK
    <3>2. OnlyFile(g) /\ OnlyHeld(p, g)
      BY <2>2 DEF OpensDone, TakesDone, GivesUpDone, OpenDone, DupDone
    <3>3. file'[g].ref = file[g].ref - Holds(p, g) + Holds(p, g)'
      BY <2>2, <3>1 DEF OpensDone, TakesDone, GivesUpDone, OpenDone, DupDone
    <3> QED
      BY <2>1, <3>2, <3>3
  <2>3. ASSUME NEW q \in Procs, ForkDone(p, q)
        PROVE  file'[f].ref = Cardinality(References(f))'
    <3>1. /\ file'[f].ref = file[f].ref + Holds(p, f)
          /\ Holds(q, f) = 0 /\ Holds(q, f)' = Holds(p, f)
          /\ \A r \in Procs : r # q => Holds(r, f)' = Holds(r, f)
      BY <2>3, ForkDoes DEF ForkDone
    <3>2. file'[f].ref = file[f].ref - Holds(q, f) + Holds(q, f)'
      BY <1>5, <3>1
    <3> QED
      BY <1>4, <3>1, <3>2
  <2> QED
    BY <1>6, <2>2, <2>3 DEF FileStep
<1> QED
  BY <1>3, <1>6, StepIs, LeftAlone DEF Stopped

(* What ilock() has read stays read. *)
LEMMA NextReadInv ==
  ASSUME Inv, NEW p \in Procs, Step(p), NEW q \in Procs
  PROVE  ReadInv(q)'
<1>1. TypeOK /\ CallInv(p) /\ ReadInv(p) /\ ReadInv(q) /\ CallInv(q) /\ None \notin Entries
  BY Parts, Nones
<1>2. CASE q # p
  <2>1. /\ pc'[q] = pc[q] /\ then'[q] = then[q] /\ ip'[q] = ip[q] /\ put'[q] = put[q]
    BY <1>2, LocalsStep DEF OthersStay
  <2>2. ASSUME ip[q] # None, ~(pc[q] \in {"ilock", "read"} /\ then[q] \in Opening)
        PROVE  inode'[ip[q]].valid
    <3>1. inode[ip[q]].valid /\ ~(pc[q] = "ilock" /\ then[q] = "create")
      BY <1>1, <2>2 DEF ReadInv, Opening
    <3> QED
      BY <2>2, <3>1, IpKept
  <2>3. ASSUME pc[q] = "iput" /\ then[q] # "bad"
        PROVE  inode'[put[q]].valid
    <3>1. inode[put[q]].valid /\ put[q] # None
      BY <1>1, <2>3 DEF ReadInv, CallInv, Putting
    <3> QED
      BY <1>2, <3>1, PutKept
  <2> QED
    BY <2>1, <2>2, <2>3 DEF ReadInv
<1>3. ip[p] # None /\ ~(pc[p] \in {"ilock", "read"} /\ then[p] \in Opening) =>
        inode'[ip[p]].valid
  BY <1>1, IpKept DEF ReadInv, Opening
<1>4. ASSUME Stopped PROVE ReadInv(p)'
  <2>1. pc' = pc /\ then' = then /\ ip' = ip /\ put' = put /\ inode' = inode
    BY <1>4 DEF Stopped
  <2> QED
    BY <1>1, <2>1 DEF ReadInv
<1> USE DEF Stage, Now, Opening, Shared, Putting
<1>5. ASSUME InodeStep(p) PROVE ReadInv(p)'
  <2>1. ASSUME NEW e \in Entries, FoundDone(p, e) \/ IallocIgetDone(p, e) \/ DirlinkFailsDone(p, e)
        PROVE  ReadInv(p)'
    BY <1>1, <1>3, <2>1 DEF FoundDone, IallocIgetDone, DirlinkFailsDone, ReadInv
  <2>2. ASSUME NEW i \in Inums, AllocDone(p, i) PROVE ReadInv(p)'
    BY <1>1, <2>2 DEF AllocDone, ReadInv
  <2>3. CASE ReadInodeDone(p)
    BY <1>1, <2>3 DEF ReadInodeDone, ReadDone, ReadInv
  <2>4. CASE IputDone(p) \/ UnrefFreedDone(p)
    BY <1>1, <1>3, <2>4 DEF IputDone, UnrefFreedDone, UnrefPutDone, ReadInv
  <2>5. CASE FreeInodeDone(p) \/ FreedPutDone(p)
    BY <1>1, <1>3, <2>5 DEF FreeInodeDone, FreedPutDone, ReadInv
  <2>6. CASE CreateDone(p) \/ LinkDone(p) \/ UnlinkDone(p)
    BY <1>1, <1>3, <2>6 DEF CreateDone, LinkDone, UnlinkDone, ReadInv
  <2>7. CASE DirlinkDone(p) \/ UnlinkedDone(p)
    BY <1>1, <1>3, <2>7 DEF DirlinkDone, UnlinkedDone, ReadInv
  <2> QED
    BY <1>5, <2>1, <2>2, <2>3, <2>4, <2>5, <2>6, <2>7 DEF InodeStep
<1>6. ASSUME FileStep(p) PROVE ReadInv(p)'
  <2>1. inode' = inode
    BY <1>6, LeftAlone
  <2>2. CASE \E f \in Files : OpensDone(p, f) \/ TakesDone(p, f)
    BY <1>1, <2>1, <2>2 DEF OpensDone, TakesDone, ReadInv
  <2>3. CASE \E f \in Files, l \in {"user", "exit"} : GivesUpDone(p, f, l)
    BY <1>1, <2>1, <2>3 DEF GivesUpDone, ReadInv
  <2>4. CASE \E r \in Procs : ForkDone(p, r)
    BY <1>1, <2>1, <2>4 DEF ForkDone, ReadInv
  <2> QED
    BY <1>6, <2>2, <2>3, <2>4 DEF FileStep
<1>7. ASSUME LocalStep(p) PROVE ReadInv(p)'
  <2>1. inode' = inode
    BY <1>7, LeftAlone
  <2>2. CASE \E k \in CallType : CallDone(p, k)
    BY <1>1, <2>1, <2>2 DEF CallDone, ReadInv
  <2>3. CASE \E f \in Files, l \in Shared : ReadsDone(p, f, l)
    BY <1>1, <2>1, <2>3 DEF ReadsDone, ReadInv
  <2>4. CASE IlockDone(p) \/ ToFreeDone(p)
    BY <1>1, <2>1, <2>4 DEF IlockDone, ToFreeDone, ReadInv
  <2>5. CASE LockDirDone(p) \/ LinkBadDone(p) \/ NotFoundDone(p)
    BY <1>1, <2>1, <2>5 DEF LockDirDone, LinkBadDone, NotFoundDone, ReadInv
  <2>6. CASE OpenFailsDone(p) \/ AccessedDone(p)
    BY <1>1, <2>1, <2>6 DEF OpenFailsDone, AccessedDone, ReadInv
  <2>7. CASE ExitsDone(p) \/ DeadDone(p) \/ BornDone(p)
    BY <1>1, <2>1, <2>7 DEF ExitsDone, DeadDone, BornDone, ReadInv
  <2> QED
    BY <1>7, <2>2, <2>3, <2>4, <2>5, <2>6, <2>7 DEF LocalStep
<1> QED
  BY <1>2, <1>4, <1>5, <1>6, <1>7, StepIs

(* iget() is called for inodes in use only. *)
LEMMA IgetUsed ==
  ASSUME Inv, NEW p \in Procs, NEW e \in Entries,
         FoundDone(p, e) \/ IallocIgetDone(p, e) \/ DirlinkFailsDone(p, e)
  PROVE  /\ \E i \in Inums : IgetDone(i, e) /\ dinode[i].used
         /\ dinode' = dinode
<1>1. TypeOK /\ LinksAreNames /\ DirInv(p)
  BY Parts
<1>2. CASE FoundDone(p, e)
  <2>1. dinode[dir[call[p].name]].used
    BY <1>1, <1>2, LinkCounts DEF FoundDone
  <2> QED
    BY <1>2, <2>1 DEF FoundDone
<1>3. CASE IallocIgetDone(p, e)
  <2>1. Stage(p) = "iget"
    BY <1>3 DEF IallocIgetDone, Stage, Putting
  <2>2. dinode[inum[p]].used
    BY <1>1, <2>1 DEF DirInv
  <2> QED
    BY <1>3, <2>2 DEF IallocIgetDone
<1>4. CASE DirlinkFailsDone(p, e)
  <2>1. dinode[dir[call[p].new]].used
    BY <1>1, <1>4, LinkCounts DEF DirlinkFailsDone
  <2> QED
    BY <1>4, <2>1 DEF DirlinkFailsDone
<1> QED
  BY <1>2, <1>3, <1>4

LEMMA UsedKept ==
  ASSUME Inv, NEW p \in Procs, Step(p), NEW i \in Inums, dinode[i].used
  PROVE  dinode'[i].used \/ (FreeInodeDone(p) /\ i = inode[put[p]].inum)
<1>1. CASE dinode' = dinode
  BY <1>1
<1>2. CASE InodeStep(p)
  <2>1. ASSUME NEW k, ip[p] \in Entries, LinksDone(ip[p], k) PROVE dinode'[i].used
    BY <2>1 DEF LinksDone, OnlyInum
  <2>2. CASE CreateDone(p) \/ LinkDone(p) \/ UnlinkedDone(p)
    BY <2>1, <2>2 DEF CreateDone, LinkDone, UnlinkedDone
  <2>3. ASSUME NEW j \in Inums, AllocDone(p, j) PROVE dinode'[i].used
    BY <2>3 DEF AllocDone, DinodeDone, OnlyInum
  <2>4. CASE FreeInodeDone(p)
    BY <2>4 DEF FreeInodeDone, DinodeDone, OnlyInum
  <2>5. CASE \/ \E e \in Entries : FoundDone(p, e) \/ IallocIgetDone(p, e) \/ DirlinkFailsDone(p, e)
             \/ ReadInodeDone(p) \/ IputDone(p) \/ FreedPutDone(p) \/ UnrefFreedDone(p)
             \/ DirlinkDone(p) \/ UnlinkDone(p)
    BY <1>1, <2>5 DEF FoundDone, IallocIgetDone, DirlinkFailsDone, ReadInodeDone, IputDone,
         UnrefPutDone, FreedPutDone, UnrefFreedDone, DirlinkDone, UnlinkDone
  <2> QED
    BY <1>2, <2>2, <2>3, <2>4, <2>5 DEF InodeStep
<1> QED
  BY <1>1, <1>2, StepIs, LeftAlone DEF Stopped

(* Who takes and who drops a reference. *)
Gets(p, e) == FoundDone(p, e) \/ IallocIgetDone(p, e) \/ DirlinkFailsDone(p, e)
Unrefs(p) == IputDone(p) \/ UnrefFreedDone(p)

LEMMA RefStep ==
  ASSUME Inv, NEW p \in Procs, Step(p), NEW e \in Entries
  PROVE  \/ Gets(p, e) /\ inode'[e].ref = inode[e].ref + 1
         \/ Unrefs(p) /\ put[p] = e /\ inode'[e].ref = inode[e].ref - 1
         \/ inode'[e].ref = inode[e].ref
<1>1. CASE inode' = inode
  BY <1>1
<1>2. CASE InodeStep(p)
  <2>1. ASSUME NEW d \in Entries, Gets(p, d)
        PROVE  \/ Gets(p, e) /\ inode'[e].ref = inode[e].ref + 1
               \/ inode'[e].ref = inode[e].ref
    <3>1. PICK i : IgetDone(i, d)
      BY <2>1 DEF Gets, FoundDone, IallocIgetDone, DirlinkFailsDone
    <3> QED
      BY <2>1, <3>1 DEF IgetDone, OnlyEntry
  <2>2. ASSUME NEW i \in Inums, AllocDone(p, i) PROVE inode' = inode
    BY <2>2 DEF AllocDone
  <2>3. CASE ReadInodeDone(p)
    BY <2>3 DEF ReadInodeDone, ReadDone, OnlyEntry
  <2>4. CASE Unrefs(p)
    <3>1. UnrefDone(put[p])
      BY <2>4 DEF Unrefs, IputDone, UnrefFreedDone, UnrefPutDone
    <3> QED
      BY <2>4, <3>1 DEF UnrefDone, OnlyEntry
  <2>5. CASE FreeInodeDone(p) \/ DirlinkDone(p) \/ UnlinkDone(p)
    BY <1>1, <2>5 DEF FreeInodeDone, DirlinkDone, UnlinkDone
  <2>6. CASE FreedPutDone(p)
    BY <2>6 DEF FreedPutDone, FreedDone, OnlyEntry
  <2>7. CASE CreateDone(p) \/ LinkDone(p) \/ UnlinkedDone(p)
    BY <2>7 DEF CreateDone, LinkDone, UnlinkedDone, LinksDone, OnlyEntry
  <2> QED
    BY <1>1, <1>2, <2>1, <2>2, <2>3, <2>4, <2>5, <2>6, <2>7 DEF InodeStep, Gets, Unrefs
<1> QED
  BY <1>1, <1>2, StepIs, LeftAlone DEF Stopped

(* What a process does that frees an inode. *)
LEMMA FreeingSteps ==
  ASSUME Inv, NEW p \in Procs, Step(p)
  PROVE  /\ pc[p] = "free" => Stopped \/ FreeInodeDone(p)
         /\ pc[p] = "freed" => Stopped \/ FreedPutDone(p)
         /\ pc[p] = "unref" => Stopped \/ UnrefFreedDone(p)
<1>1. ASSUME InodeStep(p)
      PROVE  pc[p] \in Freeing =>
               \/ pc[p] = "free" /\ FreeInodeDone(p)
               \/ pc[p] = "freed" /\ FreedPutDone(p)
               \/ pc[p] = "unref" /\ UnrefFreedDone(p)
  <2> SUFFICES ASSUME pc[p] \in Freeing
               PROVE  \/ pc[p] = "free" /\ FreeInodeDone(p)
                      \/ pc[p] = "freed" /\ FreedPutDone(p)
                      \/ pc[p] = "unref" /\ UnrefFreedDone(p)
    OBVIOUS
  <2>1. ~ \E e \in Entries : FoundDone(p, e) \/ IallocIgetDone(p, e) \/ DirlinkFailsDone(p, e)
    BY DEF Freeing, FoundDone, IallocIgetDone, DirlinkFailsDone
  <2>2. ~ \E i \in Inums : AllocDone(p, i)
    BY DEF Freeing, AllocDone
  <2>3. ~ReadInodeDone(p) /\ ~IputDone(p)
    BY DEF Freeing, ReadInodeDone, IputDone
  <2>4. ~CreateDone(p) /\ ~LinkDone(p) /\ ~UnlinkDone(p)
    BY DEF Freeing, CreateDone, LinkDone, UnlinkDone
  <2>5. ~DirlinkDone(p) /\ ~UnlinkedDone(p)
    BY DEF Freeing, DirlinkDone, UnlinkedDone
  <2>6. FreeInodeDone(p) \/ FreedPutDone(p) \/ UnrefFreedDone(p)
    BY <1>1, <2>1, <2>2, <2>3, <2>4, <2>5 DEF InodeStep
  <2> QED
    BY <2>6 DEF FreeInodeDone, FreedPutDone, UnrefFreedDone
<1>2. ASSUME FileStep(p) PROVE pc[p] \notin Freeing
  BY <1>2 DEF Freeing, FileStep, OpensDone, TakesDone, GivesUpDone, ForkDone
<1>3. ASSUME LocalStep(p) PROVE pc[p] \notin Freeing
  BY <1>3 DEF Freeing, LocalStep, CallDone, ReadsDone, IlockDone, LockDirDone, LinkBadDone,
       NotFoundDone, ToFreeDone, OpenFailsDone, AccessedDone, ExitsDone, DeadDone, BornDone
<1> QED
  BY <1>1, <1>2, <1>3, StepIs DEF Freeing

LEMMA LastPutKept ==
  ASSUME Inv, NEW p \in Procs, Step(p), NEW e \in Entries, LastPut(e), ~Gets(p, e),
         inode'[e].ref > 0
  PROVE  LastPut(e)'
<1>1. PICK r \in Procs : put[r] = e /\ pc[r] \in {"freed", "unref"} /\ inode[e].ref = 1
  BY DEF LastPut
<1>2. ~Unrefs(p) \/ put[p] # e \/ inode'[e].ref # inode[e].ref - 1
  BY <1>1
<1>3. inode'[e].ref = 1
  BY <1>1, <1>2, RefStep
<1>4. put'[r] = e /\ pc'[r] \in {"freed", "unref"}
  <2>1. CASE r # p
    BY <1>1, <2>1, LocalsStep DEF OthersStay
  <2>2. CASE r = p
    <3>1. Stopped \/ FreedPutDone(p) \/ UnrefFreedDone(p)
      BY <1>1, <2>2, FreeingSteps
    <3>2. ~UnrefFreedDone(p)
      <4> SUFFICES ASSUME UnrefFreedDone(p) PROVE FALSE
        OBVIOUS
      <4>1. inode'[e].ref = inode[e].ref - 1
        BY <1>1, <2>2 DEF UnrefFreedDone, UnrefPutDone, UnrefDone
      <4> QED
        BY <1>1, <1>3, <4>1
    <3> QED
      BY <1>1, <2>2, <3>1, <3>2 DEF Stopped, FreedPutDone, Now
  <2> QED
    BY <2>1, <2>2
<1> QED
  BY <1>3, <1>4 DEF LastPut

LEMMA NextEntryInv ==
  ASSUME Inv, NEW p \in Procs, Step(p), NEW e \in Entries
  PROVE  EntryInv(e)'
<1> SUFFICES ASSUME inode'[e].ref > 0
             PROVE  /\ inode'[e].inum # None
                    /\ dinode'[inode'[e].inum].used \/ LastPut(e)'
  BY DEF EntryInv
<1>1. TypeOK /\ EntryInv(e) /\ inode[e].ref \in Nat
  BY Parts DEF TypeOK
<1>2. CASE ~(inode[e].ref > 0)
  <2>1. Gets(p, e)
    BY <1>1, <1>2, RefStep
  <2>2. PICK i \in Inums : IgetDone(i, e) /\ dinode[i].used /\ dinode' = dinode
    BY <2>1, IgetUsed DEF Gets
  <2> QED
    BY <2>2, Nones DEF IgetDone
<1>3. CASE inode[e].ref > 0
  <2>1. inode'[e].inum = inode[e].inum
    BY <1>3, InodesKept DEF InodeKept
  <2>2. inode[e].inum \in Inums
    BY <1>1, <1>3 DEF EntryInv, TypeOK
  <2>3. CASE dinode[inode[e].inum].used
    <3>1. dinode'[inode[e].inum].used \/ (FreeInodeDone(p) /\ inode[e].inum = inode[put[p]].inum)
      BY <2>2, <2>3, UsedKept
    <3>2. ASSUME FreeInodeDone(p), inode[e].inum = inode[put[p]].inum
          PROVE  LastPut(e)'
      <4>1. pc[p] = "free" /\ put[p] \in Entries /\ inode' = inode
            /\ put'[p] = put[p] /\ pc'[p] = "freed"
        BY <3>2 DEF FreeInodeDone, Now
      <4>2. inode[put[p]].ref = 1
        BY <4>1, Parts DEF FreeInv, Freeing
      <4>3. e = put[p]
        BY <1>3, <3>2, <4>1, <4>2, OneEntry
      <4> QED
        BY <4>1, <4>2, <4>3 DEF LastPut
    <3> QED
      BY <2>1, <2>2, <3>1, <3>2, Nones
  <2>4. CASE ~dinode[inode[e].inum].used
    <3>1. LastPut(e)
      BY <1>1, <1>3, <2>4 DEF EntryInv
    <3>2. ~Gets(p, e)
      <4> SUFFICES ASSUME Gets(p, e) PROVE FALSE
        OBVIOUS
      <4>1. PICK i \in Inums : IgetDone(i, e) /\ dinode[i].used
        BY IgetUsed DEF Gets
      <4> QED
        BY <1>3, <2>4, <4>1 DEF IgetDone
    <3> QED
      BY <2>1, <2>2, <3>1, <3>2, LastPutKept, Nones
  <2> QED
    BY <2>3, <2>4
<1> QED
  BY <1>2, <1>3

-----------------------------------------------------------------------------
(* References to inodes.                                                   *)

One(b) == IF b THEN 1 ELSE 0

LEMMA CountChanges ==
  ASSUME NEW S, IsFiniteSet(S), NEW F \in SUBSET S, NEW G \in SUBSET S, NEW k \in S,
         \A j \in S \ {k} : j \in F <=> j \in G
  PROVE  /\ Cardinality(F) \in Nat
         /\ Cardinality(G) = Cardinality(F) - One(k \in F) + One(k \in G)
BY OneChanges DEF One

LEMMA CallsChange ==
  ASSUME Inv, NEW p \in Procs, Step(p), NEW e \in Entries
  PROVE  /\ Cardinality(Calls(e)) \in Nat /\ Cardinality(Puts(e)) \in Nat
         /\ Cardinality(Calls(e)') = Cardinality(Calls(e))
              - One(ip[p] = e /\ call[p].op # "none") + One(ip'[p] = e /\ call'[p].op # "none")
         /\ Cardinality(Puts(e)') = Cardinality(Puts(e)) - One(put[p] = e) + One(put'[p] = e)
<1>1. /\ Calls(e) \in SUBSET Procs /\ Calls(e)' \in SUBSET Procs
      /\ Puts(e) \in SUBSET Procs /\ Puts(e)' \in SUBSET Procs
      /\ IsFiniteSet(Procs)
  BY Finite DEF Calls, Puts
<1>2. /\ \A q \in Procs \ {p} : q \in Calls(e) <=> q \in Calls(e)'
      /\ \A q \in Procs \ {p} : q \in Puts(e) <=> q \in Puts(e)'
  BY LocalsStep DEF OthersStay, Calls, Puts
<1>3. /\ Cardinality(Calls(e)) \in Nat
      /\ Cardinality(Calls(e)') = Cardinality(Calls(e)) - One(p \in Calls(e)) + One(p \in Calls(e)')
  BY <1>1, <1>2, CountChanges
<1>4. /\ Cardinality(Puts(e)) \in Nat
      /\ Cardinality(Puts(e)') = Cardinality(Puts(e)) - One(p \in Puts(e)) + One(p \in Puts(e)')
  BY <1>1, <1>2, CountChanges
<1>5. /\ p \in Calls(e) <=> ip[p] = e /\ call[p].op # "none"
      /\ p \in Calls(e)' <=> ip'[p] = e /\ call'[p].op # "none"
      /\ p \in Puts(e) <=> put[p] = e
      /\ p \in Puts(e)' <=> put'[p] = e
  BY DEF Calls, Puts
<1> QED
  BY <1>3, <1>4, <1>5 DEF One

LEMMA FilesOfChange ==
  ASSUME NEW e \in Entries, NEW f \in Files, OnlyFile(f)
  PROVE  /\ Cardinality(FilesOf(e)) \in Nat
         /\ Cardinality(FilesOf(e)') = Cardinality(FilesOf(e))
              - One(file[f].ref > 0 /\ file[f].ip = e) + One(file'[f].ref > 0 /\ file'[f].ip = e)
<1>1. FilesOf(e) \in SUBSET Files /\ FilesOf(e)' \in SUBSET Files /\ IsFiniteSet(Files)
  BY Finite DEF FilesOf
<1>2. \A g \in Files \ {f} : g \in FilesOf(e) <=> g \in FilesOf(e)'
  BY DEF OnlyFile, FilesOf
<1>3. /\ Cardinality(FilesOf(e)) \in Nat
      /\ Cardinality(FilesOf(e)') = Cardinality(FilesOf(e)) - One(f \in FilesOf(e)) + One(f \in FilesOf(e)')
  BY <1>1, <1>2, CountChanges
<1>4. /\ f \in FilesOf(e) <=> file[f].ref > 0 /\ file[f].ip = e
      /\ f \in FilesOf(e)' <=> file'[f].ref > 0 /\ file'[f].ip = e
  BY DEF FilesOf
<1> QED
  BY <1>3, <1>4 DEF One

(* A step that gives entry e as many references as p, and the file it      *)
(* opens or closes, have more of it.                                       *)
LEMMA RefsBalance ==
  ASSUME Inv, NEW p \in Procs, Step(p), NEW e \in Entries, NEW k \in Int,
         Cardinality(FilesOf(e)') = Cardinality(FilesOf(e)) + k,
         inode'[e].ref = inode[e].ref + k
           - One(ip[p] = e /\ call[p].op # "none") + One(ip'[p] = e /\ call'[p].op # "none")
           - One(put[p] = e) + One(put'[p] = e)
  PROVE  inode'[e].ref = Cardinality(FilesOf(e)') + Cardinality(Calls(e)') + Cardinality(Puts(e)')
<1>1. /\ inode[e].ref = Cardinality(FilesOf(e)) + Cardinality(Calls(e)) + Cardinality(Puts(e))
      /\ Cardinality(FilesOf(e)) \in Nat
  <2>1. FilesOf(e) \in SUBSET Files /\ IsFiniteSet(Files)
    BY Finite DEF FilesOf
  <2>2. Cardinality(FilesOf(e)) \in Nat
    BY <2>1, Counted
  <2> QED
    BY <2>2, Parts DEF InodeRefs
<1>2. /\ Cardinality(Calls(e)) \in Nat /\ Cardinality(Puts(e)) \in Nat
      /\ Cardinality(Calls(e)') = Cardinality(Calls(e))
              - One(ip[p] = e /\ call[p].op # "none") + One(ip'[p] = e /\ call'[p].op # "none")
      /\ Cardinality(Puts(e)') = Cardinality(Puts(e)) - One(put[p] = e) + One(put'[p] = e)
  BY CallsChange
<1>3. \A b : One(b) \in Int
  BY DEF One
<1> HIDE DEF One
<1>4. PICK a, b, c, d \in Int : /\ a = One(ip[p] = e /\ call[p].op # "none")
                                /\ b = One(ip'[p] = e /\ call'[p].op # "none")
                                /\ c = One(put[p] = e) /\ d = One(put'[p] = e)
  BY <1>3
<1> QED
  BY <1>1, <1>2, <1>4

LEMMA SameFilesOf ==
  ASSUME NEW e \in Entries,
         \A f \in Files : file'[f].ip = file[f].ip /\ (file'[f].ref > 0 <=> file[f].ref > 0)
  PROVE  FilesOf(e)' = FilesOf(e)
BY DEF FilesOf

LEMMA NextRefCount ==
  ASSUME Inv, NEW p \in Procs, Step(p), NEW e \in Entries
  PROVE  inode'[e].ref = Cardinality(FilesOf(e)') + Cardinality(Calls(e)') + Cardinality(Puts(e)')
<1> DEFINE Goal == inode'[e].ref = Cardinality(FilesOf(e)') + Cardinality(Calls(e)') + Cardinality(Puts(e)')
<1>1. /\ TypeOK /\ Balanced /\ CallInv(p) /\ None \notin Entries
      /\ inode[e].ref \in Nat
  BY Parts, Nones DEF TypeOK
<1>2. Cardinality(FilesOf(e)) \in Nat
  <2>1. FilesOf(e) \in SUBSET Files /\ IsFiniteSet(Files)
    BY Finite DEF FilesOf
  <2> QED
    BY <2>1, Counted
<1>3. ASSUME FilesOf(e)' = FilesOf(e),
             inode'[e].ref = inode[e].ref
               - One(ip[p] = e /\ call[p].op # "none") + One(ip'[p] = e /\ call'[p].op # "none")
               - One(put[p] = e) + One(put'[p] = e)
      PROVE  Goal
  <2>1. Cardinality(FilesOf(e)') = Cardinality(FilesOf(e)) + 0
    BY <1>2, <1>3
  <2>2. inode[e].ref + 0 = inode[e].ref /\ 0 \in Int
    BY <1>1
  <2>3. inode'[e].ref = inode[e].ref + 0
               - One(ip[p] = e /\ call[p].op # "none") + One(ip'[p] = e /\ call'[p].op # "none")
               - One(put[p] = e) + One(put'[p] = e)
    BY <1>1, <1>3 DEF One
  <2> HIDE DEF Goal
  <2> QED
    BY <2>1, <2>2, <2>3, RefsBalance DEF Goal
<1> HIDE DEF Goal
<1>4. ASSUME file' = file PROVE FilesOf(e)' = FilesOf(e)
  BY <1>4 DEF FilesOf
<1>5. ASSUME Stopped PROVE Goal
  <2>1. FilesOf(e)' = FilesOf(e) /\ ip' = ip /\ call' = call /\ put' = put /\ inode' = inode
    BY <1>4, <1>5 DEF Stopped
  <2> QED
    BY <1>1, <1>3, <2>1 DEF One
<1> USE DEF Now, One
<1>6. ASSUME InodeStep(p) PROVE Goal
  <2>1. FilesOf(e)' = FilesOf(e)
    BY <1>4, <1>6, LeftAlone
  <2>2. ASSUME NEW d \in Entries, FoundDone(p, d) \/ IallocIgetDone(p, d) PROVE Goal
    <3>1. PICK i : IgetDone(i, d)
      BY <2>2 DEF FoundDone, IallocIgetDone
    <3>2. inode'[e].ref = inode[e].ref + One(d = e)
      BY <1>1, <3>1 DEF IgetDone, OnlyEntry
    <3>3. /\ ip[p] = None /\ ip'[p] = d /\ call'[p].op # "none" /\ put[p] = None /\ put'[p] = None
      BY <2>2 DEF FoundDone, IallocIgetDone
    <3> QED
      BY <1>1, <1>3, <2>1, <3>2, <3>3
  <2>3. ASSUME NEW d \in Entries, DirlinkFailsDone(p, d) PROVE Goal
    <3>1. PICK i : IgetDone(i, d)
      BY <2>3 DEF DirlinkFailsDone
    <3>2. inode'[e].ref = inode[e].ref + One(d = e)
      BY <1>1, <3>1 DEF IgetDone, OnlyEntry
    <3>3. ip'[p] = ip[p] /\ call'[p] = call[p] /\ put[p] = None /\ put'[p] = d
      BY <2>3 DEF DirlinkFailsDone
    <3> QED
      BY <1>1, <1>3, <2>1, <3>2, <3>3
  <2>4. ASSUME inode'[e].ref = inode[e].ref,
               ip'[p] = ip[p], call'[p] = call[p], put'[p] = put[p]
        PROVE  Goal
    BY <1>1, <1>3, <2>1, <2>4
  <2>5. ASSUME NEW i \in Inums, AllocDone(p, i) PROVE Goal
    BY <2>4, <2>5 DEF AllocDone
  <2>6. CASE ReadInodeDone(p)
    BY <2>4, <2>6 DEF ReadInodeDone, ReadDone, OnlyEntry
  <2>7. CASE Unrefs(p)
    <3>1. /\ UnrefDone(put[p]) /\ put[p] \in Entries /\ put'[p] = None
          /\ ip'[p] = ip[p] /\ call'[p] = call[p]
      BY <2>7 DEF Unrefs, IputDone, UnrefFreedDone, UnrefPutDone
    <3>2. inode'[e].ref = inode[e].ref - One(put[p] = e)
      BY <1>1, <3>1 DEF UnrefDone, OnlyEntry
    <3> QED
      BY <1>1, <1>3, <2>1, <3>1, <3>2
  <2>8. CASE FreeInodeDone(p) \/ FreedPutDone(p)
    BY <2>4, <2>8 DEF FreeInodeDone, FreedPutDone, FreedDone, OnlyEntry
  <2>9. CASE CreateDone(p) \/ LinkDone(p) \/ UnlinkDone(p)
    BY <2>4, <2>9 DEF CreateDone, LinkDone, UnlinkDone, LinksDone, OnlyEntry
  <2>10. CASE DirlinkDone(p) \/ UnlinkedDone(p)
    <3>1. /\ inode'[e].ref = inode[e].ref
          /\ call[p].op # "none" /\ call'[p].op = "none" /\ put[p] = None /\ put'[p] = ip[p]
      BY <2>10 DEF DirlinkDone, UnlinkedDone, LinksDone, OnlyEntry, NoCall
    <3> QED
      BY <1>1, <1>3, <2>1, <3>1
  <2> QED
    BY <1>6, <2>2, <2>3, <2>5, <2>6, <2>7, <2>8, <2>9, <2>10 DEF InodeStep, Unrefs
<1>7. ASSUME FileStep(p) PROVE Goal
  <2>1. inode' = inode
    BY <1>7, LeftAlone
  <2>2. ASSUME NEW f \in Files, OpensDone(p, f) PROVE Goal
    <3>1. OnlyFile(f) /\ file[f].ref = 0 /\ file'[f].ref = 1 /\ file'[f].ip = ip[p]
      BY <2>2 DEF OpensDone, OpenDone
    <3>2. Cardinality(FilesOf(e)') = Cardinality(FilesOf(e)) + One(ip[p] = e)
      BY <1>2, <3>1, FilesOfChange
    <3>3. /\ call[p].op # "none" /\ call'[p].op = "none" /\ put[p] = None /\ put'[p] = None
      BY <2>2 DEF OpensDone, NoCall
    <3>4. PICK k \in Int : k = One(ip[p] = e)
      OBVIOUS
    <3>5. inode'[e].ref = inode[e].ref + k
           - One(ip[p] = e /\ call[p].op # "none") + One(ip'[p] = e /\ call'[p].op # "none")
           - One(put[p] = e) + One(put'[p] = e)
      BY <1>1, <2>1, <3>3, <3>4
    <3> QED
      BY <3>2, <3>4, <3>5, RefsBalance DEF Goal
  <2>3. ASSUME NEW f \in Files, TakesDone(p, f) PROVE Goal
    <3>1. FilesOf(e)' = FilesOf(e)
      <4>1. OnlyFile(f) /\ file[f].ref > 0 /\ file'[f].ref = file[f].ref + 1
            /\ file'[f].ip = file[f].ip /\ file[f].ref \in Nat
        BY <1>1, <2>3 DEF TakesDone, DupDone, TypeOK
      <4> QED
        BY <4>1, SameFilesOf DEF OnlyFile
    <3> QED
      BY <1>1, <1>3, <2>1, <2>3, <3>1 DEF TakesDone
  <2>4. ASSUME NEW f \in Files, NEW l \in {"user", "exit"}, GivesUpDone(p, f, l) PROVE Goal
    <3>1. /\ put[p] = None /\ call[p].op = "none" /\ call'[p].op = "none" /\ OnlyFile(f)
          /\ file'[f].ref = file[f].ref - 1 /\ file[f].ref > 0 /\ file[f].ref \in Nat
      BY <1>1, <2>4 DEF GivesUpDone, TypeOK
    <3>2. CASE file[f].ref > 1 /\ file'[f].ip = file[f].ip /\ put'[p] = None
      <4>1. FilesOf(e)' = FilesOf(e)
        BY <3>1, <3>2, SameFilesOf DEF OnlyFile
      <4> QED
        BY <1>1, <1>3, <2>1, <3>1, <3>2, <4>1
    <3>3. CASE file[f].ref = 1 /\ file'[f].ip = None /\ put'[p] = file[f].ip
      <4>1. Cardinality(FilesOf(e)') = Cardinality(FilesOf(e)) - One(file[f].ip = e)
        BY <1>2, <3>1, <3>3, FilesOfChange
      <4>2. PICK k \in Int : k = 0 - One(file[f].ip = e)
        OBVIOUS
      <4>3. inode'[e].ref = inode[e].ref + k
           - One(ip[p] = e /\ call[p].op # "none") + One(ip'[p] = e /\ call'[p].op # "none")
           - One(put[p] = e) + One(put'[p] = e)
        BY <1>1, <2>1, <3>1, <3>3, <4>2
      <4>4. Cardinality(FilesOf(e)') = Cardinality(FilesOf(e)) + k
        BY <1>2, <4>1, <4>2
      <4> QED
        BY <4>3, <4>4, RefsBalance DEF Goal
    <3> QED
      BY <2>4, <3>2, <3>3 DEF GivesUpDone
  <2>5. ASSUME NEW q \in Procs, ForkDone(p, q) PROVE Goal
    <3>1. FilesOf(e)' = FilesOf(e)
      <4>1. \A f \in Files : file'[f].ref = file[f].ref + Holds(p, f) /\ file'[f].ip = file[f].ip
        BY <2>5, ForkDoes DEF ForkDone
      <4>2. \A f \in Files : /\ Holds(p, f) \in Nat /\ (Holds(p, f) > 0 => file[f].ref > 0)
                             /\ file[f].ref \in Nat
        BY <1>1, HoldsType, FileCounts DEF TypeOK
      <4>3. \A f \in Files : file'[f].ip = file[f].ip /\ (file'[f].ref > 0 <=> file[f].ref > 0)
        BY <4>1, <4>2
      <4> QED
        BY <4>3, SameFilesOf
    <3>2. ip'[p] = ip[p] /\ call'[p] = call[p] /\ put'[p] = put[p]
      BY <2>5 DEF ForkDone
    <3> QED
      BY <1>1, <1>3, <2>1, <3>1, <3>2
  <2> QED
    BY <1>7, <2>2, <2>3, <2>4, <2>5 DEF FileStep
<1>8. ASSUME LocalStep(p) PROVE Goal
  <2>1. inode' = inode /\ FilesOf(e)' = FilesOf(e)
    BY <1>4, <1>8, LeftAlone
  <2>2. CASE \E k \in CallType : CallDone(p, k)
    BY <1>1, <1>3, <2>1, <2>2 DEF CallDone
  <2>3. CASE \E f \in Files, l \in Shared : ReadsDone(p, f, l)
    BY <1>1, <1>3, <2>1, <2>3 DEF ReadsDone
  <2>4. ASSUME ip'[p] = ip[p], call'[p] = call[p], put'[p] = put[p] PROVE Goal
    BY <1>1, <1>3, <2>1, <2>4
  <2>5. CASE IlockDone(p) \/ ToFreeDone(p)
    BY <2>4, <2>5 DEF IlockDone, ToFreeDone
  <2>6. CASE LockDirDone(p) \/ LinkBadDone(p)
    BY <2>4, <2>6 DEF LockDirDone, LinkBadDone
  <2>7. CASE NotFoundDone(p) \/ AccessedDone(p)
    BY <1>1, <1>3, <2>1, <2>7 DEF NotFoundDone, AccessedDone, NoCall
  <2>8. CASE OpenFailsDone(p)
    BY <1>1, <1>3, <2>1, <2>8 DEF OpenFailsDone, NoCall
  <2>9. CASE ExitsDone(p) \/ DeadDone(p) \/ BornDone(p)
    BY <2>4, <2>9 DEF ExitsDone, DeadDone, BornDone
  <2> QED
    BY <1>8, <2>2, <2>3, <2>5, <2>6, <2>7, <2>8, <2>9 DEF LocalStep
<1> QED
  BY <1>5, <1>6, <1>7, <1>8, StepIs DEF Goal

(* A new entry is for an inode that has none. *)
LEMMA NewEntry ==
  ASSUME Inv, NEW p \in Procs, Step(p), NEW d \in Entries, NEW e \in Entries,
         inode[e].ref = 0, inode'[e].ref > 0, inode'[d].ref > 0, inode'[d].inum = inode'[e].inum
  PROVE  d = e
<1>1. Gets(p, e)
  BY RefStep
<1>2. PICK i \in Inums : IgetDone(i, e)
  BY <1>1, IgetUsed DEF Gets
<1> SUFFICES ASSUME d # e PROVE FALSE
  OBVIOUS
<1>3. inode'[d] = inode[d] /\ InUse(i) = {} /\ inode'[e].inum = i
  BY <1>2 DEF IgetDone, OnlyEntry
<1> QED
  BY <1>3 DEF InUse

LEMMA NextInodeRefs ==
  ASSUME Inv, NEW p \in Procs, Step(p)
  PROVE  InodeRefs'
<1> SUFFICES ASSUME NEW e \in Entries
             PROVE  /\ inode'[e].ref = Cardinality(FilesOf(e)') + Cardinality(Calls(e)') + Cardinality(Puts(e)')
                    /\ inode'[e].ref > 0 => InUse(inode[e].inum)' = {e}
  BY DEF InodeRefs
<1>1. ASSUME NEW d \in Entries, inode'[d].ref > 0, inode'[e].ref > 0,
             inode'[d].inum = inode'[e].inum
      PROVE  d = e
  <2>1. inode[d].ref \in Nat /\ inode[e].ref \in Nat
    BY Parts DEF TypeOK
  <2>2. CASE inode[e].ref = 0
    BY <1>1, <2>2, NewEntry
  <2>3. CASE inode[d].ref = 0
    BY <1>1, <2>3, NewEntry
  <2>4. CASE inode[d].ref > 0 /\ inode[e].ref > 0
    <3>1. inode'[d].inum = inode[d].inum /\ inode'[e].inum = inode[e].inum
      BY <1>1, <2>4, InodesKept DEF InodeKept
    <3> QED
      BY <1>1, <2>4, <3>1, OneEntry
  <2> QED
    BY <2>1, <2>2, <2>3, <2>4
<1>2. inode'[e].ref > 0 => InUse(inode[e].inum)' = {e}
  BY <1>1 DEF InUse
<1> QED
  BY <1>2, NextRefCount

-----------------------------------------------------------------------------
(* Links and names.                                                        *)

(* The calls whose inode has a link without a name. *)
Linking == {"nameiparent", "dirlink", "bad", "unlinked"}
Links(q, i) == ip[q] # None /\ inode[ip[q]].inum = i /\ Stage(q) \in Linking

LEMMA UnnamedIs ==
  ASSUME NEW q \in Procs, CallInv(q), NEW i
  PROVE  q \in Unnamed(i) <=> Links(q, i)
<1>1. Stage(q) \in Linking <=> /\ call[q].op \in {"link", "unlink"}
                               /\ \/ pc[q] \in Linking
                                  \/ then[q] \in {"bad", "unlinked"}
  BY DEF CallInv, Stage, Linking, Opening, Shared, Putting
<1> QED
  BY <1>1 DEF Unnamed, Links, Linking

LEMMA UnnamedWillBe ==
  ASSUME NEW q \in Procs, CallInv(q)', NEW i
  PROVE  q \in Unnamed(i)' <=> Links(q, i)'
<1>1. Stage(q)' \in Linking <=> /\ call'[q].op \in {"link", "unlink"}
                                /\ \/ pc'[q] \in Linking
                                   \/ then'[q] \in {"bad", "unlinked"}
  BY DEF CallInv, Stage, Linking, Opening, Shared, Putting
<1> QED
  BY <1>1 DEF Unnamed, Links, Linking

LEMMA UnnamedChanges ==
  ASSUME Inv, NEW p \in Procs, Step(p), NEW i \in Inums
  PROVE  /\ Cardinality(Unnamed(i)) \in Nat
         /\ Cardinality(Unnamed(i)') = Cardinality(Unnamed(i)) - One(Links(p, i)) + One(Links(p, i)')
<1>1. Unnamed(i) \in SUBSET Procs /\ Unnamed(i)' \in SUBSET Procs /\ IsFiniteSet(Procs)
  BY Finite DEF Unnamed
<1>2. \A q \in Procs : /\ q \in Unnamed(i) <=> Links(q, i)
                       /\ q \in Unnamed(i)' <=> Links(q, i)'
  BY UnnamedIs, UnnamedWillBe, NextCallInv, Parts
<1>3. ASSUME NEW q \in Procs \ {p}
      PROVE  Links(q, i) <=> Links(q, i)'
  <2>1. ip'[q] = ip[q] /\ Stage(q)' = Stage(q)
    BY <1>3, LocalsStep DEF OthersStay, Stage
  <2>2. ip[q] # None => inode'[ip[q]].inum = inode[ip[q]].inum
    BY <1>3, IpKept
  <2> QED
    BY <2>1, <2>2 DEF Links
<1>4. \A q \in Procs \ {p} : q \in Unnamed(i) <=> q \in Unnamed(i)'
  BY <1>2, <1>3
<1>5. /\ Cardinality(Unnamed(i)) \in Nat
      /\ Cardinality(Unnamed(i)') = Cardinality(Unnamed(i)) - One(p \in Unnamed(i)) + One(p \in Unnamed(i)')
  BY <1>1, <1>4, CountChanges
<1> QED
  BY <1>2, <1>5 DEF One

(* Only the entry of name n changes. *)
OnlyName(n) == \A m \in Names : m # n => dir'[m] = dir[m]

LEMMA NamesChange ==
  ASSUME NEW n \in Names, OnlyName(n), NEW i \in Inums
  PROVE  /\ Cardinality(NamesOf(i)) \in Nat
         /\ Cardinality(NamesOf(i)') = Cardinality(NamesOf(i)) - One(dir[n] = i) + One(dir'[n] = i)
<1>1. NamesOf(i) \in SUBSET Names /\ NamesOf(i)' \in SUBSET Names /\ IsFiniteSet(Names)
  BY Finite DEF NamesOf
<1>2. \A m \in Names \ {n} : m \in NamesOf(i) <=> m \in NamesOf(i)'
  BY DEF NamesOf, OnlyName
<1>3. /\ Cardinality(NamesOf(i)) \in Nat
      /\ Cardinality(NamesOf(i)') = Cardinality(NamesOf(i)) - One(n \in NamesOf(i)) + One(n \in NamesOf(i)')
  BY <1>1, <1>2, CountChanges
<1>4. /\ n \in NamesOf(i) <=> dir[n] = i
      /\ n \in NamesOf(i)' <=> dir'[n] = i
  BY DEF NamesOf
<1> QED
  BY <1>3, <1>4 DEF One

LEMMA NameAdded ==
  ASSUME NEW n \in Names, OnlyName(n), dir[n] = None, NEW i \in Inums
  PROVE  Cardinality(NamesOf(i)') = Cardinality(NamesOf(i)) + One(dir'[n] = i)
<1>1. /\ Cardinality(NamesOf(i)) \in Nat
      /\ Cardinality(NamesOf(i)') = Cardinality(NamesOf(i)) - One(dir[n] = i) + One(dir'[n] = i)
  BY NamesChange DEF One
<1> QED
  BY <1>1, Nones DEF One

LEMMA NameRemoved ==
  ASSUME NEW n \in Names, OnlyName(n), dir'[n] = None, NEW i \in Inums
  PROVE  Cardinality(NamesOf(i)') = Cardinality(NamesOf(i)) - One(dir[n] = i)
<1>1. /\ Cardinality(NamesOf(i)) \in Nat
      /\ Cardinality(NamesOf(i)') = Cardinality(NamesOf(i)) - One(dir[n] = i) + One(dir'[n] = i)
  BY NamesChange DEF One
<1> QED
  BY <1>1, Nones DEF One

(* An inode on no list of the disk, and one just made, have no links. *)
LEMMA FreeHasNoLinks ==
  ASSUME Inv, NEW i \in Inums, ~dinode[i].used
  PROVE  dinode[i].nlink = 0 /\ NamesOf(i) = {} /\ Unnamed(i) = {}
<1>1. TypeOK /\ LinksAreNames
  BY Parts
<1>2. NamesOf(i) = {}
  BY <1>1 DEF LinksAreNames
<1>3. Unnamed(i) = {}
  <2> SUFFICES ASSUME NEW q \in Unnamed(i) PROVE FALSE
    OBVIOUS
  <2>1. q \in Procs /\ ip[q] # None /\ inode[ip[q]].inum = i
    BY DEF Unnamed
  <2> QED
    BY <2>1, Working
<1> QED
  BY <1>1, <1>2, <1>3, LinkCounts

LEMMA NewHasNoLinks ==
  ASSUME Inv, NEW p \in Procs, Stage(p) = "create", ip[p] \in Entries, inum[p] \in Inums
  PROVE  dinode[inum[p]].nlink = 0 /\ inode[ip[p]].inum = inum[p]
<1>1. TypeOK /\ LinksAreNames /\ HeldInv(p) /\ DirInv(p) /\ AllocInv(p) /\ CallInv(p)
  BY Parts
<1>2. NamesOf(inum[p]) = {} /\ Calls(ip[p]) = {p} /\ inode[ip[p]].inum = inum[p]
  BY <1>1, Nones DEF DirInv, AllocInv, HeldInv
<1>3. Unnamed(inum[p]) = {}
  <2> SUFFICES ASSUME NEW q \in Unnamed(inum[p]) PROVE FALSE
    OBVIOUS
  <2>1. q \in Procs /\ CallInv(q) /\ Links(q, inum[p]) /\ call[q].op # "none"
    BY UnnamedIs, Parts DEF Unnamed
  <2>2. ip[q] \in Entries /\ inode[ip[q]].ref > 0 /\ inode[ip[p]].ref > 0
    BY <2>1, InTable, Nones DEF Links
  <2>3. ip[q] = ip[p]
    BY <1>2, <2>1, <2>2, OneEntry DEF Links
  <2>4. q = p
    BY <1>2, <2>1, <2>3 DEF Calls
  <2> QED
    BY <2>1, <2>4 DEF Links, Linking
<1> QED
  BY <1>1, <1>2, <1>3, LinkCounts

(* The link count of the disk changes with that of the inode. *)
LEMMA LinksStep ==
  ASSUME Inv, NEW p \in Procs, Step(p), NEW i \in Inums
  PROVE  \/ dinode'[i].nlink = dinode[i].nlink
         \/ CreateDone(p) /\ i = inum[p] /\ dinode[i].nlink = 0 /\ dinode'[i].nlink = 1
         \/ LinkDone(p) /\ i = inode[ip[p]].inum /\ dinode'[i].nlink = dinode[i].nlink + 1
         \/ UnlinkedDone(p) /\ i = inode[ip[p]].inum /\ dinode'[i].nlink = dinode[i].nlink - 1
<1>1. TypeOK /\ LinksAreNames /\ ReadInv(p)
  BY Parts
<1>2. CASE dinode' = dinode
  BY <1>2
<1>3. ASSUME NEW j \in Inums, AllocDone(p, j) PROVE dinode'[i].nlink = dinode[i].nlink
  <2>1. dinode[j].nlink = 0
    BY <1>3, FreeHasNoLinks DEF AllocDone
  <2> QED
    BY <1>3, <2>1 DEF AllocDone, DinodeDone, OnlyInum
<1>4. CASE FreeInodeDone(p)
  <2>1. dinode[inode[put[p]].inum].nlink = 0
    BY <1>4, FreeingIs DEF FreeInodeDone
  <2> QED
    BY <1>4, <2>1 DEF FreeInodeDone, DinodeDone, OnlyInum
<1>5. CASE CreateDone(p)
  <2>1. Stage(p) = "create"
    BY <1>5 DEF CreateDone, Stage, Putting
  <2>2. dinode[inum[p]].nlink = 0
    BY <1>5, <2>1, NewHasNoLinks DEF CreateDone
  <2> QED
    BY <1>5, <2>2 DEF CreateDone, LinksDone, OnlyInum
<1>6. ASSUME ip[p] \in Entries, inode[ip[p]].inum \in Inums, inode[ip[p]].valid
      PROVE  inode[ip[p]].nlink = dinode[inode[ip[p]].inum].nlink
  <2>1. inode[ip[p]].ref > 0
    BY <1>6, InTable, Nones
  <2> QED
    BY <1>1, <1>6, <2>1, LinkCounts
<1>7. CASE LinkDone(p)
  <2>1. inode[ip[p]].valid
    BY <1>1, <1>7, Nones DEF LinkDone, ReadInv
  <2> QED
    BY <1>6, <1>7, <2>1 DEF LinkDone, LinksDone, OnlyInum
<1>8. CASE UnlinkedDone(p)
  BY <1>6, <1>8 DEF UnlinkedDone, LinksDone, OnlyInum
<1>9. CASE InodeStep(p)
  <2>1. CASE \/ \E e \in Entries : FoundDone(p, e) \/ IallocIgetDone(p, e) \/ DirlinkFailsDone(p, e)
             \/ ReadInodeDone(p) \/ IputDone(p) \/ FreedPutDone(p) \/ UnrefFreedDone(p)
             \/ DirlinkDone(p) \/ UnlinkDone(p)
    BY <1>2, <2>1 DEF FoundDone, IallocIgetDone, DirlinkFailsDone, ReadInodeDone, IputDone,
         UnrefPutDone, FreedPutDone, UnrefFreedDone, DirlinkDone, UnlinkDone
  <2> QED
    BY <1>3, <1>4, <1>5, <1>7, <1>8, <1>9, <2>1 DEF InodeStep
<1> QED
  BY <1>2, <1>9, StepIs, LeftAlone DEF Stopped

(* As many names more as links, but for those p has to name. *)
LEMMA LinksBalance ==
  ASSUME Inv, NEW p \in Procs, Step(p), NEW i \in Inums, NEW k \in Int,
         Cardinality(NamesOf(i)') = Cardinality(NamesOf(i)) + k,
         dinode'[i].nlink = dinode[i].nlink + k - One(Links(p, i)) + One(Links(p, i)')
  PROVE  dinode'[i].nlink = Cardinality(NamesOf(i)') + Cardinality(Unnamed(i)')
<1>1. /\ dinode[i].nlink = Cardinality(NamesOf(i)) + Cardinality(Unnamed(i))
      /\ Cardinality(NamesOf(i)) \in Nat
  <2>1. NamesOf(i) \in SUBSET Names /\ IsFiniteSet(Names)
    BY Finite DEF NamesOf
  <2>2. Cardinality(NamesOf(i)) \in Nat
    BY <2>1, Counted
  <2> QED
    BY <2>2, Parts DEF LinksAreNames
<1>2. /\ Cardinality(Unnamed(i)) \in Nat
      /\ Cardinality(Unnamed(i)') = Cardinality(Unnamed(i)) - One(Links(p, i)) + One(Links(p, i)')
  BY UnnamedChanges
<1>3. PICK a, b \in Int : a = One(Links(p, i)) /\ b = One(Links(p, i)')
  BY DEF One
<1> QED
  BY <1>1, <1>2, <1>3

LEMMA NextLinkCount ==
  ASSUME Inv, NEW p \in Procs, Step(p), NEW i \in Inums
  PROVE  dinode'[i].nlink = Cardinality(NamesOf(i)') + Cardinality(Unnamed(i)')
<1> DEFINE Goal == dinode'[i].nlink = Cardinality(NamesOf(i)') + Cardinality(Unnamed(i)')
<1>1. TypeOK /\ CallInv(p) /\ DirInv(p) /\ dinode[i].nlink \in Nat
  BY Parts DEF TypeOK
<1>2. Cardinality(NamesOf(i)) \in Nat
  <2>1. NamesOf(i) \in SUBSET Names /\ IsFiniteSet(Names)
    BY Finite DEF NamesOf
  <2> QED
    BY <2>1, Counted
<1>3. ASSUME dir' = dir,
             dinode'[i].nlink = dinode[i].nlink - One(Links(p, i)) + One(Links(p, i)')
      PROVE  Goal
  <2>1. PICK a, b \in Int : a = One(Links(p, i)) /\ b = One(Links(p, i)')
    BY DEF One
  <2>2. Cardinality(NamesOf(i)') = Cardinality(NamesOf(i)) + 0
    BY <1>2, <1>3 DEF NamesOf
  <2>3. dinode'[i].nlink = dinode[i].nlink + 0 - a + b
    BY <1>1, <1>3, <2>1
  <2>4. dinode'[i].nlink = dinode[i].nlink + 0 - One(Links(p, i)) + One(Links(p, i)')
    BY <2>1, <2>3
  <2> QED
    BY <2>2, <2>4, LinksBalance
<1>4. ASSUME dir' = dir, dinode'[i].nlink = dinode[i].nlink, Links(p, i)' <=> Links(p, i)
      PROVE  Goal
  <2>1. dinode'[i].nlink = dinode[i].nlink - One(Links(p, i)) + One(Links(p, i)')
    BY <1>1, <1>4 DEF One
  <2> QED
    BY <1>3, <1>4, <2>1
<1>5. /\ ip[p] # None => inode'[ip[p]].inum = inode[ip[p]].inum
      /\ \/ dinode'[i].nlink = dinode[i].nlink
         \/ CreateDone(p) /\ i = inum[p] /\ dinode[i].nlink = 0 /\ dinode'[i].nlink = 1
         \/ LinkDone(p) /\ i = inode[ip[p]].inum /\ dinode'[i].nlink = dinode[i].nlink + 1
         \/ UnlinkedDone(p) /\ i = inode[ip[p]].inum /\ dinode'[i].nlink = dinode[i].nlink - 1
  BY IpKept, LinksStep
<1> HIDE DEF Goal
<1>6. ASSUME ip'[p] = ip[p], ip[p] = None \/ (Stage(p) \in Linking <=> Stage(p)' \in Linking)
      PROVE  Links(p, i)' <=> Links(p, i)
  BY <1>5, <1>6 DEF Links
<1>7. ASSUME Stage(p) \notin Linking, Stage(p)' \notin Linking
      PROVE  Links(p, i)' <=> Links(p, i)
  BY <1>7 DEF Links
<1>8. ASSUME Stopped PROVE Goal
  <2>1. Links(p, i)' <=> Links(p, i)
    BY <1>6, <1>8 DEF Stopped, Stage
  <2> QED
    BY <1>4, <1>8, <2>1 DEF Stopped
<1>9. ASSUME InodeStep(p) PROVE Goal
  <2>1. ASSUME NEW e \in Entries, FoundDone(p, e) \/ IallocIgetDone(p, e) PROVE Goal
    <3>1. Stage(p) \notin Linking /\ Stage(p)' \notin Linking
      BY <2>1 DEF FoundDone, IallocIgetDone, Now, Stage, Linking, Putting
    <3>2. dir' = dir /\ dinode' = dinode
      BY <2>1 DEF FoundDone, IallocIgetDone
    <3> QED
      BY <1>4, <1>7, <3>1, <3>2
  <2>2. ASSUME NEW e \in Entries, DirlinkFailsDone(p, e) PROVE Goal
    <3>1. Stage(p) \in Linking /\ Stage(p)' \in Linking /\ ip'[p] = ip[p]
      BY <2>2 DEF DirlinkFailsDone, Now, Stage, Linking, Putting
    <3>2. dir' = dir /\ dinode' = dinode
      BY <2>2 DEF DirlinkFailsDone
    <3> QED
      BY <1>4, <1>6, <3>1, <3>2
  <2>3. ASSUME NEW j \in Inums, AllocDone(p, j) PROVE Goal
    <3>1. ip[p] = None /\ ip'[p] = None /\ dir' = dir /\ pc[p] = "dirlookup"
      BY <2>3 DEF AllocDone, Now
    <3>2. dinode'[i].nlink = dinode[i].nlink
      BY <1>5, <3>1 DEF CreateDone, LinkDone, UnlinkedDone
    <3> QED
      BY <1>4, <1>6, <3>1, <3>2
  <2>4. CASE ReadInodeDone(p) \/ Unrefs(p)
    <3>1. Stage(p)' = Stage(p) /\ ip'[p] = ip[p]
      BY <2>4 DEF ReadInodeDone, Unrefs, IputDone, UnrefFreedDone, UnrefPutDone, Now, Stage, Putting
    <3>2. dir' = dir /\ dinode' = dinode
      BY <2>4 DEF ReadInodeDone, Unrefs, IputDone, UnrefFreedDone, UnrefPutDone
    <3> QED
      BY <1>4, <1>6, <3>1, <3>2
  <2>5. CASE FreeInodeDone(p) \/ FreedPutDone(p)
    <3>1. Stage(p)' = Stage(p) /\ ip'[p] = ip[p]
      BY <2>5 DEF FreeInodeDone, FreedPutDone, Now, Stage, Putting
    <3>2. dir' = dir /\ pc[p] \in {"free", "freed"}
      BY <2>5 DEF FreeInodeDone, FreedPutDone
    <3>3. dinode'[i].nlink = dinode[i].nlink
      BY <1>5, <3>2 DEF CreateDone, LinkDone, UnlinkedDone
    <3> QED
      BY <1>4, <1>6, <3>1, <3>2, <3>3
  <2>6. CASE CreateDone(p)
    <3>1. Stage(p) = "create" /\ Stage(p)' = "open"
      BY <2>6 DEF CreateDone, Now, Stage, Putting
    <3>2. ~Links(p, i) /\ ~Links(p, i)'
      BY <3>1 DEF Links, Linking
    <3>3. dir[call[p].name] = None
      BY <1>1, <3>1 DEF DirInv
    <3>4. Cardinality(NamesOf(i)') = Cardinality(NamesOf(i)) + One(inum[p] = i)
      <4>1. PICK n \in Names : n = call[p].name
        BY <2>6 DEF CreateDone
      <4>2. OnlyName(n) /\ dir[n] = None /\ dir'[n] = inum[p]
        BY <1>1, <2>6, <3>3, <4>1 DEF CreateDone, OnlyName, TypeOK
      <4> QED
        BY <4>2, NameAdded DEF One
    <3>5. dinode'[i].nlink = dinode[i].nlink + One(inum[p] = i)
      <4>1. CASE inum[p] = i
        <5>1. dinode[i].nlink = 0 /\ dinode'[i].nlink = 1
          <6>1. dinode[i].nlink = 0
            BY <2>6, <3>1, <4>1, NewHasNoLinks DEF CreateDone
          <6> QED
            BY <2>6, <4>1, <6>1 DEF CreateDone, LinksDone
        <5> QED
          BY <4>1, <5>1 DEF One
      <4>2. CASE inum[p] # i
        BY <1>1, <2>6, <4>2 DEF CreateDone, LinksDone, OnlyInum, One
      <4> QED
        BY <4>1, <4>2
    <3>6. PICK k \in Int : k = One(inum[p] = i)
      BY DEF One
    <3>7. dinode'[i].nlink = dinode[i].nlink + k - One(Links(p, i)) + One(Links(p, i)')
      BY <1>1, <3>2, <3>5, <3>6 DEF One
    <3>8. Cardinality(NamesOf(i)') = Cardinality(NamesOf(i)) + k
      BY <3>4, <3>6
    <3> QED
      BY <3>7, <3>8, LinksBalance DEF Goal
  <2>7. CASE LinkDone(p)
    <3>1. Stage(p) = "link" /\ Stage(p)' = "nameiparent" /\ ip'[p] = ip[p] /\ dir' = dir /\ ip[p] # None
      BY <2>7, Nones DEF LinkDone, Now, Stage, Putting
    <3>2. ~Links(p, i) /\ (Links(p, i)' <=> inode[ip[p]].inum = i)
      BY <1>5, <3>1 DEF Links, Linking
    <3>3. dinode'[i].nlink = dinode[i].nlink + One(inode[ip[p]].inum = i)
      <4>1. ~CreateDone(p) /\ ~UnlinkedDone(p)
        BY <2>7 DEF LinkDone, CreateDone, UnlinkedDone
      <4>2. inode[ip[p]].inum # i => dinode'[i].nlink = dinode[i].nlink
        BY <1>5, <4>1
      <4>3. inode[ip[p]].inum = i => dinode'[i].nlink = dinode[i].nlink + 1
        <5> SUFFICES ASSUME inode[ip[p]].inum = i PROVE dinode'[i].nlink = dinode[i].nlink + 1
          OBVIOUS
        <5>1. inode[ip[p]].valid /\ inode[ip[p]].ref > 0 /\ ip[p] \in Entries
          BY <2>7, <3>1, InTable, Parts DEF LinkDone, ReadInv
        <5>2. inode[ip[p]].nlink = dinode[i].nlink
          BY <1>1, <5>1, LinkCounts, Parts
        <5> QED
          BY <2>7, <5>2 DEF LinkDone, LinksDone
      <4> QED
        BY <1>1, <4>2, <4>3 DEF One
    <3>4. dinode'[i].nlink = dinode[i].nlink - One(Links(p, i)) + One(Links(p, i)')
      BY <1>1, <3>2, <3>3 DEF One
    <3> QED
      BY <1>3, <3>1, <3>4 DEF Goal
  <2>8. CASE DirlinkDone(p)
    <3>1. Stage(p) = "dirlink" /\ ip'[p] = None /\ dinode' = dinode /\ ip[p] # None
      BY <2>8, Nones DEF DirlinkDone, Now, Stage, Putting
    <3>2. ~Links(p, i)' /\ (Links(p, i) <=> inode[ip[p]].inum = i)
      BY <3>1 DEF Links, Linking
    <3>3. Cardinality(NamesOf(i)') = Cardinality(NamesOf(i)) + One(inode[ip[p]].inum = i)
      <4>1. PICK n \in Names : n = call[p].new
        BY <2>8 DEF DirlinkDone
      <4>2. OnlyName(n) /\ dir[n] = None /\ dir'[n] = inode[ip[p]].inum
        BY <1>1, <2>8, <4>1 DEF DirlinkDone, OnlyName, TypeOK
      <4> QED
        BY <4>2, NameAdded DEF One
    <3>4. PICK k \in Int : k = One(inode[ip[p]].inum = i)
      BY DEF One
    <3>5. dinode'[i].nlink = dinode[i].nlink + k - One(Links(p, i)) + One(Links(p, i)')
      BY <1>1, <3>1, <3>2, <3>4 DEF One
    <3>6. Cardinality(NamesOf(i)') = Cardinality(NamesOf(i)) + k
      BY <3>3, <3>4
    <3> QED
      BY <3>5, <3>6, LinksBalance DEF Goal
  <2>9. CASE UnlinkDone(p)
    <3>1. /\ Stage(p) = "unlink" /\ Stage(p)' = "unlinked"
          /\ ip'[p] = ip[p] /\ dinode' = dinode /\ ip[p] # None
      BY <2>9, Nones DEF UnlinkDone, Now, Stage, Putting
    <3>2. ~Links(p, i) /\ (Links(p, i)' <=> inode[ip[p]].inum = i)
      BY <1>5, <3>1 DEF Links, Linking
    <3>3. Cardinality(NamesOf(i)') = Cardinality(NamesOf(i)) - One(inode[ip[p]].inum = i)
      <4>1. PICK n \in Names : n = call[p].name
        BY <2>9 DEF UnlinkDone
      <4>2. OnlyName(n) /\ dir[n] = inode[ip[p]].inum /\ dir'[n] = None
        BY <1>1, <2>9, <4>1 DEF UnlinkDone, OnlyName, TypeOK
      <4> QED
        BY <4>2, NameRemoved DEF One
    <3>4. PICK k \in Int : k = 0 - One(inode[ip[p]].inum = i)
      BY DEF One
    <3>5. dinode'[i].nlink = dinode[i].nlink + k - One(Links(p, i)) + One(Links(p, i)')
      BY <1>1, <3>1, <3>2, <3>4 DEF One
    <3>6. Cardinality(NamesOf(i)') = Cardinality(NamesOf(i)) + k
      BY <1>2, <3>3, <3>4 DEF One
    <3> QED
      BY <3>5, <3>6, LinksBalance DEF Goal
  <2>10. CASE UnlinkedDone(p)
    <3>1. Stage(p) = "unlinked" /\ ip'[p] = None /\ dir' = dir /\ ip[p] # None
      BY <2>10, Nones DEF UnlinkedDone, Now, Stage, Putting
    <3>2. ~Links(p, i)' /\ (Links(p, i) <=> inode[ip[p]].inum = i)
      BY <3>1 DEF Links, Linking
    <3>3. dinode'[i].nlink = dinode[i].nlink - One(inode[ip[p]].inum = i)
      <4>1. ~CreateDone(p) /\ ~LinkDone(p)
        BY <2>10 DEF LinkDone, CreateDone, UnlinkedDone
      <4>2. inode[ip[p]].inum # i => dinode'[i].nlink = dinode[i].nlink
        BY <1>5, <4>1
      <4>3. inode[ip[p]].inum = i => dinode'[i].nlink = dinode[i].nlink - 1
        <5> SUFFICES ASSUME inode[ip[p]].inum = i PROVE dinode'[i].nlink = dinode[i].nlink - 1
          OBVIOUS
        <5>1. inode[ip[p]].valid /\ inode[ip[p]].ref > 0 /\ ip[p] \in Entries
          BY <2>10, <3>1, InTable DEF UnlinkedDone
        <5>2. inode[ip[p]].nlink = dinode[i].nlink
          BY <1>1, <5>1, LinkCounts, Parts
        <5> QED
          BY <2>10, <5>2 DEF UnlinkedDone, LinksDone
      <4> QED
        BY <1>1, <4>2, <4>3 DEF One
    <3>4. dinode'[i].nlink = dinode[i].nlink - One(Links(p, i)) + One(Links(p, i)')
      BY <1>1, <3>2, <3>3 DEF One
    <3> QED
      BY <1>3, <3>1, <3>4 DEF Goal
  <2> QED
    BY <1>9, <2>1, <2>2, <2>3, <2>4, <2>5, <2>6, <2>7, <2>8, <2>9, <2>10 DEF InodeStep, Unrefs
<1>10. ASSUME FileStep(p) PROVE Goal
  <2>1. dir' = dir /\ dinode' = dinode
    BY <1>10, LeftAlone
  <2>2. Stage(p) \notin Linking /\ Stage(p)' \notin Linking
    <3>1. CASE \E f \in Files : OpensDone(p, f) \/ TakesDone(p, f)
      BY <3>1 DEF OpensDone, TakesDone, Now, Stage, Linking, Putting
    <3>2. CASE \E f \in Files, l \in {"user", "exit"} : GivesUpDone(p, f, l)
      BY <3>2 DEF GivesUpDone, Now, Stage, Linking, Putting
    <3>3. CASE \E q \in Procs : ForkDone(p, q)
      BY <3>3 DEF ForkDone, Now, Stage, Linking, Putting
    <3> QED
      BY <1>10, <3>1, <3>2, <3>3 DEF FileStep
  <2> QED
    BY <1>4, <1>7, <2>1, <2>2
<1>11. ASSUME LocalStep(p) PROVE Goal
  <2>1. dir' = dir /\ dinode' = dinode
    BY <1>11, LeftAlone
  <2>2. Links(p, i)' <=> Links(p, i)
    <3>1. CASE \E k \in CallType : CallDone(p, k)
      BY <1>6, <3>1 DEF CallDone, Now
    <3>2. CASE \E f \in Files, l \in Shared : ReadsDone(p, f, l)
      BY <1>7, <3>2 DEF ReadsDone, Now, Stage, Linking, Putting, Shared
    <3>3. CASE IlockDone(p) \/ ToFreeDone(p)
      BY <1>6, <3>3 DEF IlockDone, ToFreeDone, Now, Stage, Putting, Opening, Shared
    <3>4. CASE LockDirDone(p) \/ LinkBadDone(p)
      BY <1>6, <3>4 DEF LockDirDone, LinkBadDone, Now, Stage, Putting, Linking
    <3>5. CASE NotFoundDone(p) \/ AccessedDone(p) \/ OpenFailsDone(p)
      BY <1>7, <3>5 DEF NotFoundDone, AccessedDone, OpenFailsDone, Now, Stage, Putting, Linking
    <3>6. CASE ExitsDone(p) \/ DeadDone(p) \/ BornDone(p)
      BY <1>6, <3>6 DEF ExitsDone, DeadDone, BornDone, Now
    <3> QED
      BY <1>11, <3>1, <3>2, <3>3, <3>4, <3>5, <3>6 DEF LocalStep
  <2> QED
    BY <1>4, <2>1, <2>2
<1> QED
  BY <1>8, <1>9, <1>10, <1>11, StepIs DEF Goal

(* A valid entry knows the links. *)
LEMMA NextValidLinks ==
  ASSUME Inv, NEW p \in Procs, Step(p), NEW i \in Inums, NEW e \in Entries,
         inode'[e].ref > 0, inode'[e].inum = i, inode'[e].valid
  PROVE  inode'[e].nlink = dinode'[i].nlink
<1>1. TypeOK /\ LinksAreNames /\ inode[e].ref \in Nat
  BY Parts DEF TypeOK
<1>2. inode[e].ref > 0
  <2> SUFFICES ASSUME inode[e].ref = 0 PROVE FALSE
    BY <1>1
  <2>1. Gets(p, e)
    BY RefStep
  <2>2. PICK j \in Inums : IgetDone(j, e)
    BY <2>1, IgetUsed DEF Gets
  <2> QED
    BY <2>2 DEF IgetDone
<1>3. inode[e].inum = i
  BY <1>2, InodesKept DEF InodeKept
<1>4. inode[e].valid => inode[e].nlink = dinode[i].nlink
  BY <1>1, <1>2, <1>3, LinkCounts
<1>5. ASSUME inode'[e].valid = inode[e].valid, inode'[e].nlink = inode[e].nlink,
             dinode'[i].nlink = dinode[i].nlink
      PROVE  inode'[e].nlink = dinode'[i].nlink
  BY <1>4, <1>5
<1>6. CASE InodeStep(p)
  <2>1. ASSUME NEW d \in Entries, Gets(p, d) PROVE inode'[e].nlink = dinode'[i].nlink
    <3>1. PICK j \in Inums : IgetDone(j, d) /\ dinode' = dinode
      BY <2>1, IgetUsed DEF Gets
    <3>2. inode'[e].valid = inode[e].valid /\ inode'[e].nlink = inode[e].nlink
      BY <1>2, <3>1 DEF IgetDone, OnlyEntry
    <3> QED
      BY <1>5, <3>1, <3>2
  <2>2. CASE FreeInodeDone(p) \/ \E j \in Inums : AllocDone(p, j)
    <3>1. inode' = inode /\ ~CreateDone(p) /\ ~LinkDone(p) /\ ~UnlinkedDone(p)
      BY <2>2 DEF FreeInodeDone, AllocDone, CreateDone, LinkDone, UnlinkedDone
    <3>2. dinode'[i].nlink = dinode[i].nlink
      BY <3>1, LinksStep
    <3> QED
      BY <1>5, <3>1, <3>2
  <2>3. CASE ReadInodeDone(p)
    <3>1. ReadDone(ip[p]) /\ dinode' = dinode
      BY <2>3 DEF ReadInodeDone
    <3> QED
      BY <1>3, <1>5, <3>1 DEF ReadDone, OnlyEntry
  <2>4. CASE Unrefs(p)
    <3>1. UnrefDone(put[p]) /\ dinode' = dinode /\ put[p] \in Entries
      BY <2>4 DEF Unrefs, IputDone, UnrefFreedDone, UnrefPutDone
    <3>2. CASE e = put[p]
      <4>1. inode'[e].ref = inode[e].ref - 1
        BY <3>1, <3>2 DEF UnrefDone
      <4>2. inode[e].ref > 1
        BY <1>1, <4>1
      <4> QED
        BY <1>5, <3>1, <3>2, <4>2 DEF UnrefDone
    <3>3. CASE e # put[p]
      BY <1>5, <3>1, <3>3 DEF UnrefDone, OnlyEntry
    <3> QED
      BY <3>2, <3>3
  <2>5. CASE FreedPutDone(p)
    <3>1. FreedDone(put[p]) /\ dinode' = dinode
      BY <2>5 DEF FreedPutDone
    <3> QED
      BY <1>5, <3>1 DEF FreedDone, OnlyEntry
  <2>6. CASE CreateDone(p) \/ LinkDone(p) \/ UnlinkedDone(p)
    <3>1. PICK k : LinksDone(ip[p], k)
      BY <2>6 DEF CreateDone, LinkDone, UnlinkedDone
    <3>2. ip[p] \in Entries /\ inode[ip[p]].ref > 0
      BY <2>6, InTable, Nones DEF CreateDone, LinkDone, UnlinkedDone
    <3>3. CASE e = ip[p]
      BY <1>3, <3>1, <3>3 DEF LinksDone
    <3>4. CASE e # ip[p]
      <4>1. inode[ip[p]].inum # i
        BY <1>2, <1>3, <3>2, <3>4, OneEntry
      <4> QED
        BY <1>5, <3>1, <3>4, <4>1 DEF LinksDone, OnlyEntry, OnlyInum
    <3> QED
      BY <3>3, <3>4
  <2>7. CASE DirlinkDone(p) \/ UnlinkDone(p)
    BY <1>5, <2>7 DEF DirlinkDone, UnlinkDone
  <2> QED
    BY <1>6, <2>1, <2>2, <2>3, <2>4, <2>5, <2>6, <2>7 DEF InodeStep, Gets, Unrefs
<1> QED
  BY <1>5, <1>6, StepIs, LeftAlone DEF Stopped

(* What changes in the directory. *)
LEMMA DirChanges ==
  ASSUME Inv, NEW p \in Procs, Step(p), NEW n \in Names
  PROVE  \/ dir'[n] = dir[n]
         \/ CreateDone(p) /\ n = call[p].name /\ dir[n] = None /\ dir'[n] = inum[p]
         \/ DirlinkDone(p) /\ n = call[p].new /\ dir[n] = None /\ dir'[n] = inode[ip[p]].inum
         \/ UnlinkDone(p) /\ n = call[p].name /\ dir[n] = inode[ip[p]].inum /\ dir'[n] = None
<1>1. dir \in [Names -> Inums \cup {None}] /\ DirInv(p)
  BY Parts DEF TypeOK
<1>2. CASE dir' = dir
  BY <1>2
<1>3. CASE CreateDone(p)
  <2>1. Stage(p) = "create"
    BY <1>3 DEF CreateDone, Stage, Putting
  <2> QED
    BY <1>1, <1>3, <2>1 DEF CreateDone, DirInv
<1>4. CASE DirlinkDone(p)
  BY <1>1, <1>4 DEF DirlinkDone
<1>5. CASE UnlinkDone(p)
  BY <1>1, <1>5 DEF UnlinkDone
<1>6. CASE InodeStep(p)
  <2>1. CASE \/ \E e \in Entries : FoundDone(p, e) \/ IallocIgetDone(p, e) \/ DirlinkFailsDone(p, e)
             \/ \E i \in Inums : AllocDone(p, i)
             \/ ReadInodeDone(p) \/ IputDone(p) \/ FreeInodeDone(p) \/ FreedPutDone(p) \/ UnrefFreedDone(p)
             \/ LinkDone(p) \/ UnlinkedDone(p)
    BY <1>2, <2>1 DEF FoundDone, IallocIgetDone, DirlinkFailsDone, AllocDone, ReadInodeDone, IputDone,
         UnrefPutDone, FreeInodeDone, FreedPutDone, UnrefFreedDone, LinkDone, UnlinkedDone
  <2> QED
    BY <1>3, <1>4, <1>5, <1>6, <2>1 DEF InodeStep
<1> QED
  BY <1>2, <1>6, StepIs, LeftAlone DEF Stopped

(* Names are of inodes in use. *)
LEMMA NextNamesUsed ==
  ASSUME Inv, NEW p \in Procs, Step(p), NEW i \in Inums, NEW n \in Names, dir'[n] = i
  PROVE  dinode'[i].used
<1>1. TypeOK /\ LinksAreNames /\ DirInv(p) /\ i # None
  BY Parts, Nones
<1>2. CASE dir[n] = i
  <2>1. dinode[i].used
    BY <1>1, <1>2, LinkCounts
  <2>2. ~(FreeInodeDone(p) /\ i = inode[put[p]].inum)
    <3> SUFFICES ASSUME FreeInodeDone(p), i = inode[put[p]].inum PROVE FALSE
      OBVIOUS
    <3>1. pc[p] = "free"
      BY DEF FreeInodeDone
    <3>2. NamesOf(i) = {}
      BY <3>1, FreeingIs
    <3> QED
      BY <1>2, <3>2 DEF NamesOf
  <2> QED
    BY <2>1, <2>2, UsedKept
<1>3. ASSUME ~FreeInodeDone(p), ip[p] # None, i = inode[ip[p]].inum
      PROVE  dinode'[i].used
  BY <1>3, Working, UsedKept
<1>4. CASE CreateDone(p) /\ i = inum[p]
  BY <1>3, <1>4, Nones DEF CreateDone, FreeInodeDone
<1>5. CASE DirlinkDone(p) /\ i = inode[ip[p]].inum
  BY <1>3, <1>5, Nones DEF DirlinkDone, FreeInodeDone
<1> QED
  BY <1>1, <1>2, <1>4, <1>5, DirChanges

(* An inode whose last reference in memory is dropped has a name, or *)
(* iput() frees it or leaves an orphan. *)
LEMMA DroppedIs ==
  ASSUME Inv, NEW p \in Procs, Step(p), NEW e \in Entries, Drops(p, e), NEW i \in Inums,
         inode[e].inum = i, dinode[i].used
  PROVE  \/ NamesOf(i)' # {}
         \/ i \in orphans'
         \/ \E q \in Procs : inum'[q] = i
<1>1. TypeOK /\ LinksAreNames /\ DirInv(p) /\ ReadInv(p) /\ FreeInv(p) /\ CallInv(p)
  BY Parts
<1>2. put[p] = e /\ inode[e].ref = 1 /\ e # None
  BY Nones DEF Drops
<1>3. NamesOf(i)' = NamesOf(i)
  BY DEF Drops, IputDone, UnrefFreedDone, UnrefPutDone, NamesOf
<1>4. ASSUME inode[e].valid, inode[e].nlink # 0 PROVE NamesOf(i) # {}
  <2>1. dinode[i].nlink # 0
    BY <1>1, <1>2, <1>4, LinkCounts
  <2>2. Unnamed(i) = {}
    <3> SUFFICES ASSUME NEW q \in Unnamed(i) PROVE FALSE
      OBVIOUS
    <3>1. q \in Procs /\ ip[q] # None /\ inode[ip[q]].inum = i
      BY DEF Unnamed
    <3>2. ip[q] \in Entries /\ inode[ip[q]].ref > 0
      BY <3>1, InTable
    <3>3. ip[q] = e
      BY <1>2, <3>1, <3>2, OneEntry
    <3> QED
      BY <3>1, <3>3, DropsLast
  <2> QED
    BY <1>1, <2>1, <2>2, LinkCounts
<1>5. CASE IputDone(p)
  <2>1. pc[p] = "iput" /\ ~LastReference(e)
    BY <1>2, <1>5 DEF IputDone
  <2>2. CASE then[p] = "bad"
    <3>1. dir[call[p].new] = i
      BY <1>1, <1>2, <2>1, <2>2 DEF DirInv, Putting
    <3>2. call[p].new \in Names
      <4>1. Stage(p) = "bad"
        BY <2>1, <2>2 DEF Stage, Putting
      <4> QED
        BY <1>1, <4>1 DEF CallInv, TypeOK
    <3> QED
      BY <1>3, <3>1, <3>2 DEF NamesOf
  <2>3. CASE then[p] # "bad"
    BY <1>1, <1>2, <1>3, <1>4, <2>1, <2>3 DEF ReadInv, LastReference
  <2> QED
    BY <2>2, <2>3
<1>6. CASE UnrefFreedDone(p)
  <2>1. pc[p] = "unref" /\ panic = "no" /\ ~unchecked /\ orphans' = orphans \cup Orphans /\ inum'[p] = inum[p]
    BY <1>6 DEF UnrefFreedDone, UnrefPutDone, Now
  <2>2. inode[e].valid \/ \E q \in Procs : inum[q] = i
    BY <1>1, <1>2, <2>1 DEF FreeInv, Freeing
  <2>3. ASSUME NEW q \in Procs, inum[q] = i PROVE inum'[q] = i
    BY <2>1, <2>3, LocalsStep DEF OthersStay
  <2>4. CASE inode[e].valid /\ inode[e].nlink = 0
    <3>1. e \in InUse(i) /\ LastReference(e) /\ At(p, "unref")
      BY <1>2, <2>1, <2>4 DEF InUse, LastReference, At
    <3>2. i \in Orphans
      BY <1>2, <3>1 DEF Orphans
    <3> QED
      BY <2>1, <3>2
  <2> QED
    BY <1>3, <1>4, <2>2, <2>3, <2>4
<1> QED
  BY <1>5, <1>6 DEF Drops

LEMMA NewlyUsed ==
  ASSUME Inv, NEW p \in Procs, Step(p), NEW i \in Inums, dinode'[i].used
  PROVE  dinode[i].used \/ AllocDone(p, i)
<1>1. CASE dinode' = dinode
  BY <1>1
<1>2. CASE InodeStep(p)
  <2>1. ASSUME NEW k, LinksDone(ip[p], k) PROVE dinode[i].used
    BY <2>1 DEF LinksDone, OnlyInum
  <2>2. CASE CreateDone(p) \/ LinkDone(p) \/ UnlinkedDone(p)
    BY <2>1, <2>2 DEF CreateDone, LinkDone, UnlinkedDone
  <2>3. ASSUME NEW j \in Inums, AllocDone(p, j) PROVE dinode[i].used \/ AllocDone(p, i)
    BY <2>3 DEF AllocDone, DinodeDone, OnlyInum
  <2>4. CASE FreeInodeDone(p)
    BY <2>4 DEF FreeInodeDone, DinodeDone, OnlyInum
  <2>5. CASE \/ \E e \in Entries : FoundDone(p, e) \/ IallocIgetDone(p, e) \/ DirlinkFailsDone(p, e)
             \/ ReadInodeDone(p) \/ IputDone(p) \/ FreedPutDone(p) \/ UnrefFreedDone(p)
             \/ DirlinkDone(p) \/ UnlinkDone(p)
    BY <1>1, <2>5 DEF FoundDone, IallocIgetDone, DirlinkFailsDone, ReadInodeDone, IputDone,
         UnrefPutDone, FreedPutDone, UnrefFreedDone, DirlinkDone, UnlinkDone
  <2> QED
    BY <1>2, <2>2, <2>3, <2>4, <2>5 DEF InodeStep
<1> QED
  BY <1>1, <1>2, StepIs, LeftAlone DEF Stopped

(* The number ialloc() has found is known until the inode is open, or      *)
(* open() has failed. *)
LEMMA InumKept ==
  ASSUME Inv, NEW p \in Procs, Step(p), NEW q \in Procs, inum[q] # None
  PROVE  \/ inum'[q] = inum[q]
         \/ q = p /\ pc[p] = "open" /\ ip[p] # None /\ inode' = inode
<1>1. CASE q # p
  BY <1>1, LocalsStep DEF OthersStay
<1>2. CASE InodeStep(p)
  BY <1>1, <1>2 DEF InodeStep, FoundDone, IallocIgetDone, DirlinkFailsDone, AllocDone, ReadInodeDone,
       IputDone, UnrefPutDone, FreeInodeDone, FreedPutDone, UnrefFreedDone, CreateDone, LinkDone,
       DirlinkDone, UnlinkDone, UnlinkedDone, Now
<1>3. CASE FileStep(p)
  BY <1>1, <1>3, Nones DEF FileStep, OpensDone, TakesDone, GivesUpDone, ForkDone, Now
<1>4. CASE LocalStep(p)
  BY <1>1, <1>4, Nones DEF LocalStep, CallDone, ReadsDone, IlockDone, LockDirDone, LinkBadDone,
       NotFoundDone, ToFreeDone, OpenFailsDone, AccessedDone, ExitsDone, DeadDone, BornDone, Now
<1>5. CASE Stopped
  BY <1>5 DEF Stopped
<1> QED
  BY <1>2, <1>3, <1>4, <1>5, StepIs

(* No inode on the disk is lost. *)
LEMMA NextNotLost ==
  ASSUME Inv, NEW p \in Procs, Step(p), NEW i \in Inums, dinode'[i].used
  PROVE  \/ NamesOf(i)' # {} \/ InUse(i)' # {}
         \/ i \in orphans' \/ \E q \in Procs : inum'[q] = i
<1>1. TypeOK /\ LinksAreNames /\ i # None /\ None \notin Entries
  BY Parts, Nones
<1>2. CASE AllocDone(p, i)
  BY <1>2 DEF AllocDone, Now
<1>3. CASE dinode[i].used
  <2>1. \/ NamesOf(i) # {} \/ InUse(i) # {}
        \/ i \in orphans \/ \E q \in Procs : inum[q] = i
    BY <1>1, <1>3 DEF LinksAreNames
  <2>2. ASSUME NEW e \in Entries, inode'[e].ref > 0, inode'[e].inum = i
        PROVE  InUse(i)' # {}
    BY <2>2 DEF InUse
  <2>3. CASE NamesOf(i) # {}
    <3>1. PICK n \in Names : dir[n] = i
      BY <2>3 DEF NamesOf
    <3>2. dir'[n] = i \/ (UnlinkDone(p) /\ inode[ip[p]].inum = i)
      BY <1>1, <3>1, DirChanges
    <3>3. dir'[n] = i => NamesOf(i)' # {}
      BY DEF NamesOf
    <3>4. ASSUME UnlinkDone(p), inode[ip[p]].inum = i PROVE InUse(i)' # {}
      <4>1. ip[p] \in Entries /\ ip[p] # None
        BY <1>1, <3>4 DEF UnlinkDone
      <4>2. inode'[ip[p]].ref > 0 /\ inode'[ip[p]].inum = i
        BY <3>4, <4>1, IpKept
      <4> QED
        BY <2>2, <4>1, <4>2
    <3> QED
      BY <3>2, <3>3, <3>4
  <2>4. CASE InUse(i) # {}
    <3>1. PICK e \in Entries : inode[e].ref > 0 /\ inode[e].inum = i
      BY <2>4 DEF InUse
    <3>2. Drops(p, e) \/ (inode'[e].ref > 0 /\ inode'[e].inum = i)
      BY <3>1, InodesKept DEF InodeKept
    <3> QED
      BY <1>3, <2>2, <3>1, <3>2, DroppedIs
  <2>5. CASE i \in orphans
    BY <2>5, OrphansStep
  <2>6. CASE \E q \in Procs : inum[q] = i
    <3>1. PICK q \in Procs : inum[q] = i
      BY <2>6
    <3>2. inum'[q] = i \/ (q = p /\ ip[p] # None /\ inode' = inode)
      BY <1>1, <3>1, InumKept
    <3>3. ASSUME q = p, ip[p] # None PROVE InUse(i)' # {}
      <4>1. inode[ip[p]].inum = i
        BY <1>1, <3>1, <3>3, Parts DEF HeldInv
      <4>2. ip[p] \in Entries /\ inode'[ip[p]].ref > 0 /\ inode'[ip[p]].inum = i
        BY <3>3, <4>1, IpKept
      <4> QED
        BY <2>2, <4>2
    <3> QED
      BY <3>2, <3>3
  <2> QED
    BY <2>1, <2>3, <2>4, <2>5, <2>6
<1> QED
  BY <1>2, <1>3, NewlyUsed

LEMMA NextLinks ==
  ASSUME Inv, NEW p \in Procs, Step(p)
  PROVE  LinksAreNames'
<1> SUFFICES ASSUME NEW i \in Inums
             PROVE  /\ dinode'[i].nlink = Cardinality(NamesOf(i)') + Cardinality(Unnamed(i)')
                    /\ \A e \in InUse(i)' : inode'[e].valid => inode'[e].nlink = dinode'[i].nlink
                    /\ NamesOf(i)' # {} => dinode'[i].used
                    /\ dinode'[i].used => \/ NamesOf(i)' # {} \/ InUse(i)' # {}
                                          \/ i \in orphans' \/ \E q \in Procs : inum'[q] = i
  BY DEF LinksAreNames
<1>1. \A e \in InUse(i)' : inode'[e].valid => inode'[e].nlink = dinode'[i].nlink
  BY NextValidLinks DEF InUse
<1>2. NamesOf(i)' # {} => dinode'[i].used
  BY NextNamesUsed DEF NamesOf
<1> QED
  BY <1>1, <1>2, NextLinkCount, NextNotLost

-----------------------------------------------------------------------------
(* What is known of the directory, of a new inode and of one being freed.  *)

(* The directory stays as it is while another process has its lock. *)
LEMMA DirStays ==
  ASSUME Inv, NEW p \in Procs, Step(p), NEW q \in Procs, q # p, HasDirlock(q)
  PROVE  dir' = dir
<1>1. ~HasDirlock(p)
  BY OneLocks
<1>2. ~CreateDone(p) /\ ~DirlinkDone(p) /\ ~UnlinkDone(p)
  BY <1>1 DEF HasDirlock, Stage, Putting, CreateDone, DirlinkDone, UnlinkDone
<1>3. \A n \in Names : dir'[n] = dir[n]
  BY <1>2, DirChanges
<1>4. dir \in [Names -> Inums \cup {None}] /\ dir' \in [Names -> Inums \cup {None}]
  BY Parts, DirStep DEF TypeOK
<1> QED
  BY <1>3, <1>4

(* Nobody frees the inode a process has just found free. *)
LEMMA NewStaysUsed ==
  ASSUME Inv, NEW p \in Procs, Step(p), NEW q \in Procs, q # p, Stage(q) \in {"iget", "create"}
  PROVE  inum[q] \in Inums /\ dinode'[inum[q]].used
<1>1. /\ inum[q] \in Inums /\ dinode[inum[q]].used
      /\ CallInv(q) /\ HeldInv(q) /\ AllocInv(q) /\ FreeInv(p)
  BY Parts DEF TypeOK, CallInv, DirInv
<1>2. ASSUME FreeInodeDone(p), inum[q] = inode[put[p]].inum
      PROVE  FALSE
  <2>1. pc[p] = "free"
    BY <1>2 DEF FreeInodeDone
  <2>2. put[p] \in Entries /\ inode[put[p]].ref > 0 /\ \A r \in Procs : ip[r] # put[p]
    BY <2>1, FreeingIs
  <2>3. CASE Stage(q) = "iget"
    <3>1. put[p] \in InUse(inum[q])
      BY <1>2, <2>2 DEF InUse
    <3>2. LastPut(put[p])
      BY <1>1, <2>3, <3>1 DEF AllocInv
    <3> QED
      BY <2>1, <2>2, <3>2, LastPutIs
  <2>4. CASE Stage(q) = "create"
    <3>1. ip[q] # None /\ inum[q] # None
      BY <1>1, <2>4, Nones DEF CallInv, Opening
    <3>2. ip[q] \in Entries /\ inode[ip[q]].ref > 0 /\ inode[ip[q]].inum = inum[q]
      BY <1>1, <3>1, InTable DEF HeldInv
    <3> QED
      BY <1>2, <2>2, <3>2, OneEntry
  <2> QED
    BY <2>3, <2>4
<1> QED
  BY <1>1, <1>2, UsedKept

LEMMA NextDirInv ==
  ASSUME Inv, NEW p \in Procs, Step(p), NEW q \in Procs
  PROVE  DirInv(q)'
<1>1. TypeOK /\ CallInv(p) /\ CallInv(q) /\ DirInv(p) /\ DirInv(q) /\ FreeInv(p)
  BY Parts
<1>2. CASE q # p
  <2>1. /\ pc'[q] = pc[q] /\ then'[q] = then[q] /\ call'[q] = call[q]
        /\ ip'[q] = ip[q] /\ put'[q] = put[q] /\ inum'[q] = inum[q]
    BY <1>2, LocalsStep DEF OthersStay
  <2>2. Stage(q)' = Stage(q)
    BY <2>1 DEF Stage
  <2>3. ASSUME Stage(q) \in {"iget", "create"}
        PROVE  dir'[call[q].name] = None /\ NamesOf(inum[q])' = {} /\ dinode'[inum[q]].used
    <3>1. dir' = dir
      BY <1>2, <2>3, DirStays DEF HasDirlock
    <3> QED
      BY <1>1, <1>2, <2>1, <2>3, <3>1, NewStaysUsed DEF DirInv, NamesOf
  <2>4. ASSUME Stage(q) = "unlink"
        PROVE  dir'[call[q].name] = inode'[ip[q]].inum
    <3>1. dir' = dir
      BY <1>2, <2>4, DirStays DEF HasDirlock
    <3>2. ip[q] # None
      BY <1>1, <2>4, Nones DEF CallInv, Opening
    <3> QED
      BY <1>1, <2>4, <3>1, <3>2, IpKept DEF DirInv
  <2>5. ASSUME pc[q] \in Putting, then[q] = "bad"
        PROVE  dir'[call[q].new] = inode'[put[q]].inum
    <3>1. dir' = dir
      BY <1>2, <2>5, DirStays DEF HasDirlock, Stage
    <3>2. put[q] # None
      BY <1>1, <2>5 DEF CallInv
    <3>3. inode'[put[q]].inum = inode[put[q]].inum
      BY <1>2, <3>2, PutKept
    <3>4. dir[call[q].new] = inode[put[q]].inum
      BY <1>1, <2>5 DEF DirInv
    <3> QED
      BY <3>1, <3>3, <3>4
  <2> QED
    BY <2>1, <2>2, <2>3, <2>4, <2>5 DEF DirInv, NamesOf
<1> USE DEF Stage, Now, Opening, Shared, Putting
<1>3. ASSUME UNCHANGED <<dir, dinode, inode>>, Stopped PROVE DirInv(p)'
  BY <1>1, <1>3 DEF Stopped, DirInv, NamesOf
<1>4. ASSUME InodeStep(p) PROVE DirInv(p)'
  <2>1. ASSUME NEW e \in Entries, FoundDone(p, e) \/ IallocIgetDone(p, e) \/ DirlinkFailsDone(p, e)
        PROVE  DirInv(p)'
    BY <1>1, <2>1 DEF FoundDone, IallocIgetDone, DirlinkFailsDone, IgetDone, DirInv, NamesOf
  <2>2. ASSUME NEW i \in Inums, AllocDone(p, i) PROVE DirInv(p)'
    <3>1. NamesOf(i) = {}
      BY <2>2, FreeHasNoLinks DEF AllocDone
    <3> QED
      BY <1>1, <2>2, <3>1 DEF AllocDone, DinodeDone, DirInv, NamesOf
  <2>3. CASE ReadInodeDone(p)
    BY <1>1, <2>3 DEF ReadInodeDone, ReadDone, DirInv, NamesOf
  <2>4. CASE IputDone(p) \/ UnrefFreedDone(p)
    BY <1>1, <2>4 DEF IputDone, UnrefFreedDone, UnrefPutDone, DirInv
  <2>5. CASE FreeInodeDone(p) \/ FreedPutDone(p)
    BY <1>1, <2>5 DEF FreeInodeDone, FreedPutDone, DirInv, FreeInv, Freeing, CallInv
  <2>6. CASE CreateDone(p) \/ LinkDone(p) \/ UnlinkDone(p)
    BY <1>1, <2>6 DEF CreateDone, LinkDone, UnlinkDone, DirInv
  <2>7. CASE DirlinkDone(p) \/ UnlinkedDone(p)
    BY <1>1, <2>7 DEF DirlinkDone, UnlinkedDone, DirInv
  <2> QED
    BY <1>4, <2>1, <2>2, <2>3, <2>4, <2>5, <2>6, <2>7 DEF InodeStep
<1>5. ASSUME FileStep(p) PROVE DirInv(p)'
  <2>1. CASE \E f \in Files : OpensDone(p, f) \/ TakesDone(p, f)
    BY <1>1, <2>1 DEF OpensDone, TakesDone, DirInv
  <2>2. CASE \E f \in Files, l \in {"user", "exit"} : GivesUpDone(p, f, l)
    BY <1>1, <2>2 DEF GivesUpDone, DirInv
  <2>3. CASE \E r \in Procs : ForkDone(p, r)
    BY <1>1, <2>3 DEF ForkDone, DirInv
  <2> QED
    BY <1>5, <2>1, <2>2, <2>3 DEF FileStep
<1>6. ASSUME LocalStep(p) PROVE DirInv(p)'
  <2>1. CASE \E k \in CallType : CallDone(p, k)
    BY <1>1, <2>1 DEF CallDone, DirInv
  <2>2. CASE \E f \in Files, l \in Shared : ReadsDone(p, f, l)
    BY <1>1, <2>2 DEF ReadsDone, DirInv
  <2>3. CASE IlockDone(p)
    BY <1>1, <2>3 DEF IlockDone, DirInv, NamesOf
  <2>4. CASE ToFreeDone(p)
    BY <1>1, <2>4 DEF ToFreeDone, DirInv, NamesOf
  <2>5. CASE LockDirDone(p) \/ LinkBadDone(p) \/ NotFoundDone(p)
    BY <1>1, <2>5 DEF LockDirDone, LinkBadDone, NotFoundDone, DirInv
  <2>6. CASE OpenFailsDone(p) \/ AccessedDone(p)
    BY <1>1, <2>6 DEF OpenFailsDone, AccessedDone, DirInv
  <2>7. CASE ExitsDone(p) \/ DeadDone(p) \/ BornDone(p)
    BY <1>1, <2>7 DEF ExitsDone, DeadDone, BornDone, DirInv
  <2> QED
    BY <1>6, <2>1, <2>2, <2>3, <2>4, <2>5, <2>6, <2>7 DEF LocalStep
<1> QED
  BY <1>2, <1>3, <1>4, <1>5, <1>6, StepIs DEF Stopped

(* Where the inode a process works on comes from, the one it drops, and    *)
(* the one a file refers to.                                               *)
LEMMA IpComes ==
  ASSUME Inv, NEW p \in Procs, Step(p), NEW e \in Entries, ip'[p] = e
  PROVE  \/ ip[p] = e /\ call'[p] = call[p]
         \/ FoundDone(p, e) \/ IallocIgetDone(p, e)
         \/ \E f \in Files : file[f].ref > 0 /\ file[f].ip = e /\ call'[p].op = "none"
<1> USE Nones DEF Now
<1>1. CASE InodeStep(p)
  <2>1. ASSUME NEW d \in Entries, FoundDone(p, d) \/ IallocIgetDone(p, d) PROVE d = e
    BY <2>1 DEF FoundDone, IallocIgetDone
  <2>2. ASSUME NEW d \in Entries, DirlinkFailsDone(p, d) PROVE ip[p] = e /\ call'[p] = call[p]
    BY <2>2 DEF DirlinkFailsDone
  <2>3. ASSUME NEW i \in Inums, AllocDone(p, i) PROVE FALSE
    BY <2>3 DEF AllocDone
  <2>4. CASE ReadInodeDone(p) \/ IputDone(p) \/ FreeInodeDone(p) \/ FreedPutDone(p) \/ UnrefFreedDone(p)
    BY <2>4 DEF ReadInodeDone, IputDone, FreeInodeDone, FreedPutDone, UnrefFreedDone, UnrefPutDone
  <2>5. CASE CreateDone(p) \/ LinkDone(p) \/ DirlinkDone(p) \/ UnlinkDone(p) \/ UnlinkedDone(p)
    BY <2>5 DEF CreateDone, LinkDone, DirlinkDone, UnlinkDone, UnlinkedDone
  <2> QED
    BY <1>1, <2>1, <2>2, <2>3, <2>4, <2>5 DEF InodeStep
<1>2. CASE FileStep(p)
  <2>1. \A q \in Procs : ~ForkDone(p, q)
    BY DEF ForkDone
  <2> QED
    BY <1>2, <2>1 DEF FileStep, OpensDone, TakesDone, GivesUpDone
<1>3. CASE LocalStep(p)
  <2>1. CASE \E f \in Files, l \in Shared : ReadsDone(p, f, l)
    BY <2>1 DEF ReadsDone
  <2>2. CASE IlockDone(p) \/ LockDirDone(p) \/ LinkBadDone(p) \/ NotFoundDone(p) \/ ToFreeDone(p)
    BY <2>2 DEF IlockDone, LockDirDone, LinkBadDone, NotFoundDone, ToFreeDone
  <2>3. CASE \/ \E k \in CallType : CallDone(p, k)
             \/ OpenFailsDone(p) \/ AccessedDone(p) \/ ExitsDone(p) \/ DeadDone(p) \/ BornDone(p)
    BY <2>3 DEF CallDone, OpenFailsDone, AccessedDone, ExitsDone, DeadDone, BornDone
  <2> QED
    BY <1>3, <2>1, <2>2, <2>3 DEF LocalStep
<1> QED
  BY <1>1, <1>2, <1>3, StepIs DEF Stopped

LEMMA PutComes ==
  ASSUME Inv, NEW p \in Procs, Step(p), NEW e \in Entries, put'[p] = e
  PROVE  \/ put[p] = e
         \/ DirlinkFailsDone(p, e)
         \/ ip[p] = e /\ call[p].op # "none" /\ pc[p] # "ilock" /\ pc'[p] = "iput"
         \/ pc'[p] = "iput" /\ \E f \in Files : file[f].ref = 1 /\ file[f].ip = e
<1> USE Nones DEF Now
<1>1. CASE InodeStep(p)
  <2>1. ASSUME NEW d \in Entries, FoundDone(p, d) \/ IallocIgetDone(p, d) PROVE FALSE
    BY <2>1 DEF FoundDone, IallocIgetDone
  <2>2. ASSUME NEW d \in Entries, DirlinkFailsDone(p, d) PROVE d = e
    BY <2>2 DEF DirlinkFailsDone
  <2>3. ASSUME NEW i \in Inums, AllocDone(p, i) PROVE FALSE
    BY <2>3 DEF AllocDone
  <2>4. CASE ReadInodeDone(p) \/ IputDone(p) \/ FreeInodeDone(p) \/ FreedPutDone(p) \/ UnrefFreedDone(p)
    BY <2>4 DEF ReadInodeDone, IputDone, FreeInodeDone, FreedPutDone, UnrefFreedDone, UnrefPutDone
  <2>5. CASE CreateDone(p) \/ LinkDone(p) \/ DirlinkDone(p) \/ UnlinkDone(p) \/ UnlinkedDone(p)
    BY <2>5 DEF CreateDone, LinkDone, DirlinkDone, UnlinkDone, UnlinkedDone
  <2> QED
    BY <1>1, <2>1, <2>2, <2>3, <2>4, <2>5 DEF InodeStep
<1>2. CASE FileStep(p)
  <2>1. \A q \in Procs : ~ForkDone(p, q)
    BY DEF ForkDone
  <2>2. ASSUME NEW f \in Files, NEW l \in {"user", "exit"}, GivesUpDone(p, f, l)
        PROVE  pc'[p] = "iput" /\ file[f].ref = 1 /\ file[f].ip = e
    BY <2>2 DEF GivesUpDone
  <2> QED
    BY <1>2, <2>1, <2>2 DEF FileStep, OpensDone, TakesDone
<1>3. CASE LocalStep(p)
  <2>1. CASE \E f \in Files, l \in Shared : ReadsDone(p, f, l)
    BY <2>1 DEF ReadsDone
  <2>2. CASE IlockDone(p) \/ LockDirDone(p) \/ LinkBadDone(p) \/ NotFoundDone(p) \/ ToFreeDone(p)
    BY <2>2 DEF IlockDone, LockDirDone, LinkBadDone, NotFoundDone, ToFreeDone
  <2>3. CASE \/ \E k \in CallType : CallDone(p, k)
             \/ OpenFailsDone(p) \/ AccessedDone(p) \/ ExitsDone(p) \/ DeadDone(p) \/ BornDone(p)
    BY <2>3 DEF CallDone, OpenFailsDone, AccessedDone, ExitsDone, DeadDone, BornDone
  <2> QED
    BY <1>3, <2>1, <2>2, <2>3 DEF LocalStep
<1> QED
  BY <1>1, <1>2, <1>3, StepIs DEF Stopped

LEMMA FileComes ==
  ASSUME Inv, NEW p \in Procs, Step(p), NEW e \in Entries, NEW f \in Files,
         file'[f].ref > 0, file'[f].ip = e
  PROVE  \/ f \in FilesOf(e)
         \/ ip[p] = e /\ call[p].op # "none" /\ pc[p] = "open"
<1>1. CASE file' = file
  BY <1>1 DEF FilesOf
<1>2. CASE FileStep(p)
  <2>1. file[f].ref \in Nat /\ TypeOK /\ Balanced
    BY Parts DEF TypeOK
  <2>2. ASSUME NEW g \in Files, OpensDone(p, g) PROVE f \in FilesOf(e) \/ (ip[p] = e /\ call[p].op # "none" /\ pc[p] = "open")
    BY <2>2 DEF OpensDone, OpenDone, OnlyFile, FilesOf
  <2>3. ASSUME NEW g \in Files, TakesDone(p, g) PROVE f \in FilesOf(e)
    BY <2>3 DEF TakesDone, DupDone, OnlyFile, FilesOf
  <2>4. ASSUME NEW g \in Files, NEW l \in {"user", "exit"}, GivesUpDone(p, g, l) PROVE f \in FilesOf(e)
    <3>1. g = f => file[f].ref > 0 /\ file'[f].ip = file[f].ip
      BY <2>4, Nones DEF GivesUpDone
    <3>2. g # f => file'[f] = file[f]
      BY <2>4 DEF GivesUpDone, OnlyFile
    <3> QED
      BY <3>1, <3>2 DEF FilesOf
  <2>5. ASSUME NEW r \in Procs, ForkDone(p, r) PROVE f \in FilesOf(e)
    <3>1. file'[f].ref = file[f].ref + Holds(p, f) /\ file'[f].ip = file[f].ip
      BY <2>5, ForkDoes DEF ForkDone
    <3>2. Holds(p, f) \in Nat /\ (Holds(p, f) > 0 => file[f].ref > 0)
      BY <2>1, HoldsType, FileCounts
    <3> QED
      BY <2>1, <3>1, <3>2 DEF FilesOf
  <2> QED
    BY <1>2, <2>2, <2>3, <2>4, <2>5 DEF FileStep
<1> QED
  BY <1>1, <1>2, StepIs, LeftAlone DEF Stopped

(* While q is in the directory, nobody else finds an inode there. *)
LEMMA NobodyGets ==
  ASSUME Inv, NEW p \in Procs, NEW q \in Procs, q # p, HasDirlock(q), NEW e \in Entries
  PROVE  ~Gets(p, e)
<1>1. dirlock = q
  BY Parts DEF LockInv
<1> QED
  BY <1>1 DEF Gets, FoundDone, IallocIgetDone, DirlinkFailsDone

(* What is unused has no entry, but one that is being dropped. *)
LEMMA NewIsFree ==
  ASSUME Inv, NEW p \in Procs, Step(p), NEW i \in Inums, AllocDone(p, i), NEW e \in InUse(i)
  PROVE  LastPut(e)'
<1>1. ~dinode[i].used /\ inode' = inode
  BY DEF AllocDone
<1>2. e \in Entries /\ inode[e].ref > 0 /\ inode[e].inum = i
  BY DEF InUse
<1>3. LastPut(e)
  BY <1>1, <1>2, Parts DEF EntryInv
<1>4. ~Gets(p, e)
  BY DEF AllocDone, Gets, FoundDone, IallocIgetDone, DirlinkFailsDone, Now
<1> QED
  BY <1>1, <1>2, <1>3, <1>4, LastPutKept

(* An entry that no other process works on, and no file refers to. *)
Alone(p, e) == /\ FilesOf(e) = {} /\ Calls(e) = {p}
               /\ \A q \in Puts(e) : pc[q] \in {"freed", "unref"}

LEMMA AloneKept ==
  ASSUME Inv, NEW p \in Procs, Step(p), NEW q \in Procs, q # p, Stage(q) = "create"
  PROVE  Alone(q, ip[q])'
<1> DEFINE e == ip[q]
<1>1. /\ pc'[q] = pc[q] /\ then'[q] = then[q] /\ call'[q] = call[q]
      /\ ip'[q] = ip[q] /\ put'[q] = put[q] /\ inum'[q] = inum[q]
  BY LocalsStep DEF OthersStay
<1>2. TypeOK /\ CallInv(p) /\ CallInv(q) /\ AllocInv(q)
  BY Parts
<1>3. e \in Entries /\ call[q].op = "create" /\ HasDirlock(q)
  BY <1>2, InTable, Nones DEF CallInv, Opening, HasDirlock
<1>4. FilesOf(e) = {} /\ Calls(e) = {q} /\ \A r \in Puts(e) : pc[r] \in {"freed", "unref"}
  BY <1>2 DEF AllocInv
<1>5. ~(ip[p] = e /\ call[p].op # "none")
  BY <1>4 DEF Calls
<1>6. \A f \in Files : ~(file[f].ref > 0 /\ file[f].ip = e)
  BY <1>4 DEF FilesOf
<1>7. ~FoundDone(p, e) /\ ~IallocIgetDone(p, e) /\ ~DirlinkFailsDone(p, e)
  BY <1>3, NobodyGets DEF Gets
<1>8. FilesOf(e)' = {}
  <2> SUFFICES ASSUME NEW f \in Files, file'[f].ref > 0, file'[f].ip = e PROVE FALSE
    BY <1>1 DEF FilesOf
  <2> QED
    BY <1>3, <1>4, <1>5, FileComes
<1>9. ~(ip'[p] = e /\ call'[p].op # "none")
  <2> SUFFICES ASSUME ip'[p] = e, call'[p].op # "none" PROVE FALSE
    OBVIOUS
  <2> QED
    BY <1>3, <1>5, <1>7, IpComes
<1>10. Calls(e)' = {q}
  <2>1. \A r \in Procs : r # p => ip'[r] = ip[r] /\ call'[r] = call[r]
    BY LocalsStep DEF OthersStay
  <2> QED
    BY <1>1, <1>4, <1>9, <2>1 DEF Calls
<1>11. put'[p] = e => pc'[p] \in {"freed", "unref"}
  <2> SUFFICES ASSUME put'[p] = e PROVE pc'[p] \in {"freed", "unref"}
    OBVIOUS
  <2>1. put[p] = e
    <3>1. \A f \in Files : ~(file[f].ref = 1 /\ file[f].ip = e)
      BY <1>6
    <3> QED
      BY <1>3, <1>5, <1>7, <3>1, PutComes
  <2>2. pc[p] \in {"freed", "unref"}
    BY <1>4, <2>1 DEF Puts
  <2>3. Stopped \/ FreedPutDone(p) \/ UnrefFreedDone(p)
    BY <2>2, FreeingSteps
  <2> QED
    BY <1>3, <2>2, <2>3, Nones DEF Stopped, FreedPutDone, UnrefFreedDone, UnrefPutDone, Now
<1>12. \A r \in Puts(e)' : pc'[r] \in {"freed", "unref"}
  <2>1. \A r \in Procs : r # p => put'[r] = put[r] /\ pc'[r] = pc[r]
    BY LocalsStep DEF OthersStay
  <2> QED
    BY <1>1, <1>4, <1>11, <2>1 DEF Puts
<1> QED
  BY <1>1, <1>8, <1>10, <1>12 DEF Alone

(* The entry ialloc() gets has no other user. *)
LEMMA IallocGetsAlone ==
  ASSUME Inv, NEW p \in Procs, Step(p), NEW e \in Entries, IallocIgetDone(p, e)
  PROVE  Alone(p, e)'
<1>1. /\ pc[p] = "iget" /\ ip[p] = None /\ put[p] = None /\ inum[p] \in Inums
      /\ ip'[p] = e /\ put'[p] = None /\ call'[p] = call[p] /\ call[p].op = "create"
      /\ file' = file /\ IgetDone(inum[p], e)
  BY DEF IallocIgetDone, Now
<1>2. TypeOK /\ InodeRefs /\ AllocInv(p) /\ inode[e].ref \in Nat
  BY Parts DEF TypeOK
<1>3. FilesOf(e) = {} /\ Calls(e) = {} /\ \A q \in Puts(e) : pc[q] \in {"freed", "unref"}
  <2>1. CASE inode[e].ref = 0
    BY <1>2, <2>1, EntryCounts
  <2>2. CASE inode[e].ref > 0
    <3>1. e \in InUse(inum[p])
      BY <1>1, <2>2 DEF IgetDone, InUse
    <3>2. LastPut(e)
      BY <1>1, <1>2, <3>1 DEF AllocInv, Stage, Putting
    <3> QED
      BY <3>2, LastPutIs DEF Puts
  <2> QED
    BY <1>2, <2>1, <2>2
<1>4. \A q \in Procs : q # p => /\ pc'[q] = pc[q] /\ put'[q] = put[q]
                                /\ ip'[q] = ip[q] /\ call'[q] = call[q]
  BY LocalsStep DEF OthersStay
<1>5. e # None
  BY Nones
<1>6. FilesOf(e)' = {}
  BY <1>1, <1>3 DEF FilesOf
<1>7. Calls(e)' = {p}
  BY <1>1, <1>3, <1>4 DEF Calls
<1>8. \A q \in Puts(e)' : pc'[q] \in {"freed", "unref"}
  BY <1>1, <1>3, <1>4, <1>5 DEF Puts
<1> QED
  BY <1>6, <1>7, <1>8 DEF Alone

(* How p comes to be about to get, or to create, the inode. *)
LEMMA Creating ==
  ASSUME Inv, NEW p \in Procs, Step(p)
  PROVE  /\ Stage(p)' = "iget" => Stopped \/ \E i \in Inums : AllocDone(p, i)
         /\ Stage(p)' = "create" => \/ \E e \in Entries : IallocIgetDone(p, e)
                                    \/ /\ Stage(p) = "create"
                                       /\ ip'[p] = ip[p] /\ put[p] = None /\ put'[p] = None
                                       /\ call'[p] = call[p] /\ file' = file
                                    \/ Stopped
<1> USE DEF Stage, Now, Opening, Shared, Putting
<1>1. CASE InodeStep(p)
  <2>1. ASSUME NEW e \in Entries, FoundDone(p, e) \/ DirlinkFailsDone(p, e)
        PROVE  Stage(p)' \notin {"iget", "create"}
    BY <2>1 DEF FoundDone, DirlinkFailsDone
  <2>2. ASSUME NEW e \in Entries, IallocIgetDone(p, e) PROVE Stage(p)' = "create"
    BY <2>2 DEF IallocIgetDone
  <2>3. ASSUME NEW i \in Inums, AllocDone(p, i) PROVE Stage(p)' = "iget"
    BY <2>3 DEF AllocDone
  <2>4. CASE ReadInodeDone(p)
    <3>1. /\ Stage(p)' = Stage(p) /\ Stage(p) # "iget"
          /\ ip'[p] = ip[p] /\ put[p] = None /\ put'[p] = None
          /\ call'[p] = call[p] /\ file' = file
      BY <2>4 DEF ReadInodeDone
    <3> QED
      BY <3>1
  <2>5. CASE IputDone(p) \/ FreeInodeDone(p) \/ FreedPutDone(p) \/ UnrefFreedDone(p)
    <3>1. CallInv(p)
      BY Parts
    <3>2. Stage(p)' \notin {"iget", "create"}
      BY <2>5, <3>1 DEF IputDone, FreeInodeDone, FreedPutDone, UnrefFreedDone, UnrefPutDone, CallInv
    <3> QED
      BY <3>2
  <2>6. CASE CreateDone(p) \/ LinkDone(p) \/ DirlinkDone(p) \/ UnlinkDone(p) \/ UnlinkedDone(p)
    <3>1. Stage(p)' \notin {"iget", "create"}
      BY <2>6 DEF CreateDone, LinkDone, DirlinkDone, UnlinkDone, UnlinkedDone
    <3> QED
      BY <3>1
  <2> QED
    BY <1>1, <2>1, <2>2, <2>3, <2>4, <2>5, <2>6 DEF InodeStep
<1>2. CASE FileStep(p)
  <2>1. Stage(p)' \notin {"iget", "create"}
    BY <1>2 DEF FileStep, OpensDone, TakesDone, GivesUpDone, ForkDone
  <2> QED
    BY <2>1
<1>3. CASE LocalStep(p)
  <2>1. CASE IlockDone(p)
    <3>1. /\ Stage(p)' = Stage(p) /\ Stage(p) # "iget"
          /\ ip'[p] = ip[p] /\ put[p] = None /\ put'[p] = None
          /\ call'[p] = call[p] /\ file' = file
      BY <2>1 DEF IlockDone
    <3> QED
      BY <3>1
  <2>2. CASE \/ \E f \in Files, l \in Shared : ReadsDone(p, f, l)
             \/ \E k \in CallType : CallDone(p, k)
    <3>1. Stage(p)' \notin {"iget", "create"}
      BY <2>2 DEF ReadsDone, CallDone
    <3> QED
      BY <3>1
  <2>3. CASE LockDirDone(p) \/ LinkBadDone(p) \/ NotFoundDone(p) \/ ToFreeDone(p)
    <3>1. Stage(p)' \notin {"iget", "create"}
      BY <2>3 DEF LockDirDone, LinkBadDone, NotFoundDone, ToFreeDone
    <3> QED
      BY <3>1
  <2>4. CASE OpenFailsDone(p) \/ AccessedDone(p) \/ ExitsDone(p) \/ DeadDone(p) \/ BornDone(p)
    <3>1. Stage(p)' \notin {"iget", "create"}
      BY <2>4 DEF OpenFailsDone, AccessedDone, ExitsDone, DeadDone, BornDone
    <3> QED
      BY <3>1
  <2> QED
    BY <1>3, <2>1, <2>2, <2>3, <2>4 DEF LocalStep
<1> QED
  BY <1>1, <1>2, <1>3, StepIs

LEMMA NextAllocInv ==
  ASSUME Inv, NEW p \in Procs, Step(p), NEW q \in Procs
  PROVE  AllocInv(q)'
<1>1. TypeOK /\ CallInv(p) /\ CallInv(q) /\ AllocInv(p) /\ AllocInv(q)
  BY Parts
<1>2. CASE Stopped
  <2>1. AllocInv(q)' <=> AllocInv(q)
    <3>1. UNCHANGED <<pc, then, call, ip, put, inum, inode, file>>
      BY <1>2 DEF Stopped
    <3>2. Stage(q)' = Stage(q) /\ FilesOf(ip[q])' = FilesOf(ip[q]) /\ Calls(ip[q])' = Calls(ip[q])
      BY <3>1 DEF Stage, FilesOf, Calls
    <3>3. Puts(ip[q])' = Puts(ip[q]) /\ InUse(inum[q])' = InUse(inum[q])
      BY <3>1 DEF Puts, InUse
    <3>4. \A e \in Entries : LastPut(e)' <=> LastPut(e)
      BY <3>1 DEF LastPut
    <3> QED
      BY <3>1, <3>2, <3>3, <3>4 DEF AllocInv, InUse
  <2> QED
    BY <1>1, <2>1
<1>3. ASSUME Stage(q)' = "iget", ~Stopped PROVE \A e \in InUse(inum[q])' : LastPut(e)'
  <2>1. CASE q # p
    <3>1. Stage(q) = "iget" /\ inum'[q] = inum[q] /\ HasDirlock(q)
      BY <1>3, <2>1, LocalsStep DEF OthersStay, Stage, HasDirlock
    <3> SUFFICES ASSUME NEW e \in Entries, inode'[e].ref > 0, inode'[e].inum = inum[q]
                 PROVE  LastPut(e)'
      BY <3>1 DEF InUse
    <3>2. ~Gets(p, e)
      BY <2>1, <3>1, NobodyGets
    <3>3. inode[e].ref \in Nat
      BY <1>1 DEF TypeOK
    <3>4. inode[e].ref > 0
      BY <3>2, <3>3, RefStep
    <3>5. inode[e].inum = inum[q]
      BY <3>4, InodesKept DEF InodeKept
    <3> QED
      BY <1>1, <3>1, <3>2, <3>4, <3>5, LastPutKept DEF AllocInv, InUse
  <2>2. CASE q = p
    <3>1. PICK i \in Inums : AllocDone(p, i)
      BY <1>3, <2>2, Creating
    <3>2. inum'[p] = i /\ inode' = inode
      BY <3>1 DEF AllocDone, Now
    <3> QED
      BY <2>2, <3>1, <3>2, NewIsFree DEF InUse
  <2> QED
    BY <2>1, <2>2
<1>4. ASSUME Stage(q)' = "create", ~Stopped PROVE Alone(q, ip[q])'
  <2>1. CASE q # p
    <3>1. Stage(q) = "create"
      BY <1>4, <2>1, LocalsStep DEF OthersStay, Stage
    <3> QED
      BY <2>1, <3>1, AloneKept
  <2>2. CASE q = p
    <3>1. ASSUME NEW e \in Entries, IallocIgetDone(p, e) PROVE Alone(p, ip[p])'
      <4>1. ip'[p] = e
        BY <3>1 DEF IallocIgetDone, Now
      <4>2. Alone(p, e)'
        BY <3>1, IallocGetsAlone
      <4> QED
        BY <4>1, <4>2 DEF Alone, FilesOf, Calls, Puts
    <3>2. ASSUME /\ Stage(p) = "create"
                 /\ ip'[p] = ip[p] /\ put[p] = None /\ put'[p] = None
                 /\ call'[p] = call[p] /\ file' = file
          PROVE  Alone(p, ip[p])'
      <4>1. \A r \in Procs : r # p => /\ pc'[r] = pc[r] /\ put'[r] = put[r]
                                      /\ ip'[r] = ip[r] /\ call'[r] = call[r]
        BY LocalsStep DEF OthersStay
      <4>2. ip[p] \in Entries /\ ip[p] # None
        BY <1>1, <3>2, InTable, Nones DEF CallInv, Opening
      <4>3. FilesOf(ip[p]) = {} /\ Calls(ip[p]) = {p} /\ \A r \in Puts(ip[p]) : pc[r] \in {"freed", "unref"}
        BY <1>1, <3>2 DEF AllocInv
      <4>4. FilesOf(ip[p])' = {}
        BY <3>2, <4>3 DEF FilesOf
      <4>5. Calls(ip[p])' = {p}
        BY <3>2, <4>1, <4>3 DEF Calls
      <4>6. \A r \in Puts(ip[p])' : pc'[r] \in {"freed", "unref"}
        BY <3>2, <4>1, <4>2, <4>3 DEF Puts
      <4> QED
        BY <4>4, <4>5, <4>6 DEF Alone
    <3> QED
      BY <1>4, <2>2, <3>1, <3>2, Creating
  <2> QED
    BY <2>1, <2>2
<1> QED
  BY <1>2, <1>3, <1>4 DEF AllocInv, Alone, FilesOf, Calls, Puts

(* How p comes to be freeing an inode, and what it does at ilock(). *)
LEMMA FreeingComes ==
  ASSUME Inv, NEW p \in Procs, Step(p), pc'[p] \in Freeing
  PROVE  Stopped \/ ToFreeDone(p) \/ FreeInodeDone(p) \/ FreedPutDone(p)
<1> USE DEF Freeing, Now
<1>1. CASE InodeStep(p)
  <2>1. ~(\E e \in Entries : FoundDone(p, e) \/ IallocIgetDone(p, e) \/ DirlinkFailsDone(p, e))
    BY DEF FoundDone, IallocIgetDone, DirlinkFailsDone
  <2>2. ~(\E i \in Inums : AllocDone(p, i)) /\ ~ReadInodeDone(p)
    BY DEF AllocDone, ReadInodeDone, Opening, Shared
  <2>3. ~IputDone(p) /\ ~UnrefFreedDone(p)
    BY DEF IputDone, UnrefFreedDone, UnrefPutDone
  <2>4. ~CreateDone(p) /\ ~LinkDone(p) /\ ~DirlinkDone(p) /\ ~UnlinkDone(p) /\ ~UnlinkedDone(p)
    BY DEF CreateDone, LinkDone, DirlinkDone, UnlinkDone, UnlinkedDone
  <2> QED
    BY <1>1, <2>1, <2>2, <2>3, <2>4 DEF InodeStep
<1>2. ~FileStep(p)
  BY DEF FileStep, OpensDone, TakesDone, GivesUpDone, ForkDone
<1>3. CASE LocalStep(p)
  <2>1. ~(\E f \in Files, l \in Shared : ReadsDone(p, f, l)) /\ ~(\E k \in CallType : CallDone(p, k))
    BY DEF ReadsDone, CallDone
  <2>2. ~IlockDone(p)
    BY DEF IlockDone, Opening, Shared
  <2>3. ~LockDirDone(p) /\ ~LinkBadDone(p) /\ ~NotFoundDone(p)
    BY DEF LockDirDone, LinkBadDone, NotFoundDone
  <2>4. ~OpenFailsDone(p) /\ ~AccessedDone(p) /\ ~ExitsDone(p) /\ ~DeadDone(p) /\ ~BornDone(p)
    BY DEF OpenFailsDone, AccessedDone, ExitsDone, DeadDone, BornDone
  <2> QED
    BY <1>3, <2>1, <2>2, <2>3, <2>4 DEF LocalStep
<1> QED
  BY <1>1, <1>2, <1>3, StepIs

LEMMA IlockSteps ==
  ASSUME Inv, NEW p \in Procs, Step(p), pc[p] = "ilock"
  PROVE  Stopped \/ IlockDone(p)
<1>1. ~InodeStep(p)
  BY DEF InodeStep, FoundDone, IallocIgetDone, DirlinkFailsDone, AllocDone, ReadInodeDone,
       IputDone, FreeInodeDone, FreedPutDone, UnrefFreedDone, CreateDone, LinkDone,
       DirlinkDone, UnlinkDone, UnlinkedDone
<1>2. ~FileStep(p)
  BY DEF FileStep, OpensDone, TakesDone, GivesUpDone, ForkDone
<1>3. LocalStep(p) => IlockDone(p)
  BY DEF LocalStep, CallDone, ReadsDone, LockDirDone, LinkBadDone,
       NotFoundDone, ToFreeDone, OpenFailsDone, AccessedDone, ExitsDone, DeadDone, BornDone
<1> QED
  BY <1>1, <1>2, <1>3, StepIs

(* Nobody gets, through the directory or from ialloc(), what is freed. *)
LEMMA FreeingNotFound ==
  ASSUME Inv, NEW p \in Procs, NEW q \in Procs, pc[q] \in {"free", "freed"}
  PROVE  /\ ~FoundDone(p, put[q]) /\ ~DirlinkFailsDone(p, put[q])
         /\ pc[q] = "free" => ~IallocIgetDone(p, put[q])
<1>1. /\ put[q] \in Entries /\ inode[put[q]].ref > 0 /\ NamesOf(inode[put[q]].inum) = {}
  BY FreeingIs
<1>2. ~FoundDone(p, put[q]) /\ ~DirlinkFailsDone(p, put[q])
  BY <1>1 DEF FoundDone, DirlinkFailsDone, IgetDone, NamesOf
<1>3. ASSUME pc[q] = "free", IallocIgetDone(p, put[q]) PROVE FALSE
  <2>1. pc[p] = "iget" /\ put[q] \in InUse(inum[p])
    BY <1>1, <1>3 DEF IallocIgetDone, IgetDone, InUse
  <2>2. LastPut(put[q])
    BY <2>1, Parts DEF AllocInv, Stage, Putting
  <2> QED
    BY <1>1, <1>3, <2>2, LastPutIs
<1> QED
  BY <1>2, <1>3

(* The last reference is not to a name, for the directory is locked. *)
LEMMA ToFreeIs ==
  ASSUME Inv, NEW p \in Procs, ToFreeDone(p)
  PROVE  then[p] # "bad"
<1>1. /\ pc[p] = "iput" /\ put[p] \in Entries /\ inode[put[p]].ref = 1
      /\ inode[put[p]].valid /\ inode[put[p]].nlink = 0
  BY DEF ToFreeDone, LastReference
<1>2. /\ TypeOK /\ LinksAreNames /\ CallInv(p) /\ DirInv(p)
  BY Parts
<1>3. inode[put[p]].inum \in Inums
  BY <1>1, InUseOnDisk
<1> SUFFICES ASSUME then[p] = "bad" PROVE FALSE
  OBVIOUS
<1>4. call[p].new # None
  BY <1>1, <1>2 DEF CallInv, Stage, Putting
<1>5. call[p].new \in Names
  BY <1>2, <1>4 DEF TypeOK
<1>6. dir[call[p].new] = inode[put[p]].inum
  BY <1>1, <1>2 DEF DirInv, Putting
<1>7. dinode[inode[put[p]].inum].nlink > 0
  BY <1>2, <1>3, <1>5, <1>6, LinkCounts
<1>8. inode[put[p]].nlink = dinode[inode[put[p]].inum].nlink
  BY <1>1, <1>2, <1>3, LinkCounts
<1> QED
  BY <1>1, <1>7, <1>8

(* Each clause of FreeInv, for a process q that is freeing e while another *)
(* takes a step.                                                           *)
LEMMA OnlyOneFrees ==
  ASSUME Inv, NEW p \in Procs, Step(p), NEW q \in Procs, q # p, pc[q] \in Freeing, put[q] # None,
         put'[p] = put[q], pc'[p] \in Freeing
  PROVE  FALSE
<1>1. TypeOK /\ InodeRefs /\ FreeInv(q) /\ put[q] \in Entries
  BY Parts DEF TypeOK
<1>2. Stopped \/ ToFreeDone(p) \/ FreeInodeDone(p) \/ FreedPutDone(p)
  BY FreeingComes
<1>3. put[p] = put[q] /\ (pc[p] \in Freeing \/ ToFreeDone(p))
  BY <1>2 DEF Stopped, ToFreeDone, FreeInodeDone, FreedPutDone, Now, Freeing
<1>4. ~ToFreeDone(p)
  <2> SUFFICES ASSUME ToFreeDone(p) PROVE FALSE
    OBVIOUS
  <2>1. inode[put[q]].ref = 1
    BY <1>3 DEF ToFreeDone, LastReference
  <2>2. Puts(put[q]) = {p}
    BY <1>1, <1>3, <2>1, EntryCounts
  <2> QED
    BY <2>2 DEF Puts
<1> QED
  BY <1>1, <1>3, <1>4 DEF FreeInv

LEMMA FreeStays ==
  ASSUME Inv, NEW p \in Procs, Step(p), NEW q \in Procs, q # p, pc[q] = "free"
  PROVE  /\ inode'[put[q]].ref = 1
         /\ dinode'[inode[put[q]].inum].used
<1> DEFINE e == put[q]
<1>1. /\ e \in Entries /\ inode[e].ref = 1 /\ inode[e].inum \in Inums
      /\ dinode[inode[e].inum].used
  BY FreeingIs, Parts DEF FreeInv, Freeing
<1>2. put[p] # e
  BY FreeingIs DEF Puts
<1>3. ~Gets(p, e)
  BY FreeingNotFound DEF Gets
<1>4. inode'[e].ref = 1
  BY <1>1, <1>2, <1>3, RefStep
<1>5. ~(FreeInodeDone(p) /\ inode[e].inum = inode[put[p]].inum)
  <2> SUFFICES ASSUME FreeInodeDone(p), inode[e].inum = inode[put[p]].inum PROVE FALSE
    OBVIOUS
  <2>1. put[p] \in Entries /\ inode[put[p]].ref > 0
    BY FreeingIs DEF FreeInodeDone
  <2> QED
    BY <1>1, <1>2, <2>1, OneEntry
<1> QED
  BY <1>1, <1>4, <1>5, UsedKept

LEMMA FreeHasNoLink ==
  ASSUME Inv, NEW p \in Procs, Step(p), NEW q \in Procs, q # p, pc[q] \in {"free", "freed"}
  PROVE  inode'[put[q]].valid /\ inode'[put[q]].nlink = 0
<1> DEFINE e == put[q]
           i == inode[e].inum
<1>1. /\ e \in Entries /\ e # None /\ inode[e].ref > 0 /\ i \in Inums /\ dinode[i].nlink = 0
      /\ inode[e].valid
  BY FreeingIs, Parts, Nones DEF FreeInv, Freeing
<1>2. inode'[e].ref > 0 /\ inode'[e].inum = i /\ inode'[e].valid
  BY <1>1, PutKept
<1>3. ip[p] = e => pc[p] = "ilock"
  BY FreeingIs
<1>4. ASSUME ip[p] \in Entries, inode[ip[p]].inum = i PROVE pc[p] = "ilock"
  <2>1. inode[ip[p]].ref > 0
    BY <1>4, Nones, InTable
  <2> QED
    BY <1>1, <1>3, <1>4, <2>1, OneEntry
<1>5. ~(CreateDone(p) /\ i = inum[p])
  BY <1>4 DEF CreateDone
<1>6. ~(LinkDone(p) /\ i = inode[ip[p]].inum)
  BY <1>4 DEF LinkDone
<1>7. ~(UnlinkedDone(p) /\ i = inode[ip[p]].inum)
  BY <1>4 DEF UnlinkedDone
<1>8. dinode'[i].nlink = 0
  BY <1>1, <1>5, <1>6, <1>7, LinksStep
<1>9. inode'[e].nlink = dinode'[i].nlink
  BY <1>1, <1>2, NextValidLinks
<1> QED
  BY <1>2, <1>8, <1>9

LEMMA FreedStaysAlone ==
  ASSUME Inv, NEW p \in Procs, Step(p), NEW q \in Procs, q # p, pc[q] = "freed"
  PROVE  /\ FilesOf(put[q])' = {} /\ Puts(put[q])' = {q}
         /\ \A r \in Procs : ip'[r] = put[q] => pc'[r] = "ilock" /\ then'[r] = "create"
<1> DEFINE e == put[q]
<1>1. /\ \A r \in Procs : r # p => /\ pc'[r] = pc[r] /\ then'[r] = then[r]
                                   /\ put'[r] = put[r] /\ ip'[r] = ip[r]
  BY LocalsStep DEF OthersStay
<1>2. /\ e \in Entries /\ FilesOf(e) = {} /\ Puts(e) = {q}
      /\ \A r \in Procs : ip[r] = e => pc[r] = "ilock" /\ then[r] = "create"
  BY FreeingIs
<1>3. put'[q] = e /\ put[p] # e
  BY <1>1, <1>2 DEF Puts
<1>4. ~FoundDone(p, e) /\ ~DirlinkFailsDone(p, e)
  BY FreeingNotFound
<1>5. \A f \in Files : ~(file[f].ref > 0 /\ file[f].ip = e)
  BY <1>2 DEF FilesOf
<1>6. FilesOf(e)' = {}
  <2> SUFFICES ASSUME NEW f \in Files, file'[f].ref > 0, file'[f].ip = e PROVE FALSE
    BY <1>3 DEF FilesOf
  <2> QED
    BY <1>2, FileComes
<1>7. put'[p] # e
  <2> SUFFICES ASSUME put'[p] = e PROVE FALSE
    OBVIOUS
  <2>1. \A f \in Files : ~(file[f].ref = 1 /\ file[f].ip = e)
    BY <1>5
  <2> QED
    BY <1>2, <1>3, <1>4, <2>1, PutComes
<1>8. Puts(e)' = {q}
  BY <1>1, <1>2, <1>3, <1>7 DEF Puts
<1>9. ASSUME ip'[p] = e PROVE pc'[p] = "ilock" /\ then'[p] = "create"
  <2>1. ip[p] = e \/ IallocIgetDone(p, e)
    BY <1>2, <1>4, <1>5, <1>9, IpComes
  <2>2. CASE IallocIgetDone(p, e)
    BY <2>2 DEF IallocIgetDone, Now
  <2>3. CASE ip[p] = e
    <3>1. pc[p] = "ilock" /\ then[p] = "create"
      BY <1>2, <2>3
    <3>2. lock[e] = q
      <4>1. HasLock(q) /\ Locked(q) = e
        BY DEF HasLock, Locked, Putting
      <4> QED
        BY <1>2, <4>1, OneLocks
    <3>3. ~IlockDone(p)
      BY <2>3, <3>2, Nones DEF IlockDone
    <3>4. Stopped
      BY <3>1, <3>3, IlockSteps
    <3> QED
      BY <3>1, <3>4 DEF Stopped
  <2> QED
    BY <2>1, <2>2, <2>3
<1> QED
  BY <1>1, <1>2, <1>6, <1>8, <1>9

LEMMA FreedStaysFound ==
  ASSUME Inv, NEW p \in Procs, Step(p), NEW q \in Procs, q # p, pc[q] \in {"freed", "unref"},
         dinode'[inode[put[q]].inum].used
  PROVE  \/ pc[q] = "unref" /\ inode'[put[q]].valid
         \/ \E r \in Procs : inum'[r] = inode[put[q]].inum
<1> DEFINE e == put[q]
           i == inode[e].inum
<1>1. TypeOK /\ CallInv(q) /\ FreeInv(q)
  BY Parts
<1>2. put[q] # None
  BY <1>1 DEF CallInv, Putting
<1>3. e \in Entries /\ inode[e].ref > 0 /\ (inode[e].valid => inode'[e].valid)
  BY <1>2, PutKept
<1>4. i \in Inums /\ i # None
  BY <1>1, <1>3, Parts DEF EntryInv, TypeOK
<1>5. CASE AllocDone(p, i)
  <2>1. inum'[p] = i
    BY <1>5 DEF AllocDone, Now
  <2> QED
    BY <2>1
<1>6. CASE dinode[i].used
  <2>1. \/ pc[q] = "unref" /\ inode[e].valid
        \/ \E r \in Procs : inum[r] = i
    BY <1>1, <1>6 DEF FreeInv, Freeing
  <2>2. CASE \E r \in Procs : inum[r] = i
    <3>1. PICK r \in Procs : inum[r] = i
      BY <2>2
    <3>2. CASE inum'[r] = i
      BY <3>2
    <3>3. CASE r = p /\ pc[p] = "open" /\ ip[p] # None
      <4>1. HeldInv(p) /\ ReadInv(p)
        BY Parts
      <4>2. ip[p] \in Entries /\ inode[ip[p]].ref > 0
        BY <3>3, InTable
      <4>3. inode[ip[p]].inum = i
        BY <1>4, <3>1, <3>3, <4>1 DEF HeldInv
      <4>4. ip[p] = e
        BY <1>3, <4>2, <4>3, OneEntry
      <4>5. inode[e].valid
        BY <3>3, <4>1, <4>4 DEF ReadInv
      <4>6. pc[q] # "freed"
        BY <3>3, <4>4, FreeingIs
      <4> QED
        BY <1>3, <4>5, <4>6
    <3> QED
      BY <1>4, <3>1, <3>2, <3>3, InumKept
  <2> QED
    BY <1>3, <2>1, <2>2
<1> QED
  BY <1>4, <1>5, <1>6, NewlyUsed

LEMMA NextFreeInv ==
  ASSUME Inv, NEW p \in Procs, Step(p), NEW q \in Procs
  PROVE  FreeInv(q)'
<1>1. TypeOK /\ InodeRefs /\ CallInv(q) /\ CallInv(p) /\ FreeInv(q) /\ FreeInv(p)
  BY Parts
<1>2. \A r \in Procs : r # p => /\ pc'[r] = pc[r] /\ then'[r] = then[r] /\ call'[r] = call[r]
                                /\ ip'[r] = ip[r] /\ put'[r] = put[r] /\ inum'[r] = inum[r]
  BY LocalsStep DEF OthersStay
<1>3. CASE Stopped
  <2>1. FreeInv(q)' <=> FreeInv(q)
    BY <1>3 DEF Stopped, FreeInv, FilesOf, Puts
  <2> QED
    BY <1>1, <2>1
<1>4. CASE q # p
  <2> SUFFICES ASSUME pc[q] \in Freeing
               PROVE  FreeInv(q)'
    BY <1>2, <1>4 DEF FreeInv
  <2>1. /\ pc'[q] = pc[q] /\ then'[q] = then[q] /\ put'[q] = put[q] /\ then[q] # "bad"
    BY <1>1, <1>2, <1>4 DEF FreeInv
  <2>2. put[q] # None
    BY <1>1 DEF CallInv, Freeing, Putting
  <2>3. inode'[put[q]].inum = inode[put[q]].inum
    BY <1>4, <2>2, PutKept
  <2>4. \A r \in Procs : put'[r] = put[q] /\ pc'[r] \in Freeing => r = q
    BY <1>1, <1>2, <1>4, <2>2, OnlyOneFrees DEF FreeInv
  <2>5. pc[q] = "free" => inode'[put[q]].ref = 1 /\ dinode'[inode'[put[q]].inum].used
    BY <1>4, <2>3, FreeStays
  <2>6. pc[q] \in {"free", "freed"} => inode'[put[q]].valid /\ inode'[put[q]].nlink = 0
    BY <1>4, FreeHasNoLink
  <2>7. pc[q] = "freed" => /\ FilesOf(put[q])' = {} /\ Puts(put[q])' = {q}
                           /\ \A r \in Procs : ip'[r] = put[q] => pc'[r] = "ilock" /\ then'[r] = "create"
    BY <1>4, FreedStaysAlone
  <2>8. pc[q] \in {"freed", "unref"} /\ dinode'[inode'[put[q]].inum].used =>
          \/ pc[q] = "unref" /\ inode'[put[q]].valid
          \/ \E r \in Procs : inum'[r] = inode'[put[q]].inum
    BY <1>4, <2>3, FreedStaysFound
  <2> QED
    BY <2>1, <2>4, <2>5, <2>6, <2>7, <2>8 DEF FreeInv
<1>5. CASE ToFreeDone(p) /\ q = p
  <2> DEFINE e == put[p]
  <2>1. /\ pc[p] = "iput" /\ e \in Entries /\ inode[e].ref = 1 /\ inode[e].valid /\ inode[e].nlink = 0
        /\ pc'[p] = "free" /\ then'[p] = then[p] /\ put'[p] = e
        /\ inode' = inode /\ dinode' = dinode
    BY <1>5 DEF ToFreeDone, LastReference, Now
  <2>2. then[p] # "bad"
    BY <1>5, ToFreeIs
  <2>3. Puts(e) = {p}
    BY <1>1, <2>1, EntryCounts
  <2>4. \A r \in Procs : put'[r] = e => r = p
    BY <1>2, <2>3 DEF Puts
  <2>5. dinode[inode[e].inum].used
    BY <2>1, InUseOnDisk
  <2> QED
    BY <1>5, <2>1, <2>2, <2>4, <2>5 DEF FreeInv
<1>6. CASE FreeInodeDone(p) /\ q = p
  <2> DEFINE e == put[p]
  <2>1. /\ pc[p] = "free" /\ pc'[p] = "freed" /\ then'[p] = then[p] /\ put'[p] = e /\ ip'[p] = ip[p]
        /\ inode' = inode /\ file' = file /\ e \in Entries
        /\ ~dinode'[inode[e].inum].used
    BY <1>6 DEF FreeInodeDone, DinodeDone, Now
  <2>2. /\ FilesOf(e) = {} /\ Puts(e) = {p} /\ \A r \in Procs : ip[r] # e
    BY <2>1, FreeingIs
  <2>3. then[p] # "bad" /\ inode[e].valid /\ inode[e].nlink = 0
    BY <1>1, <2>1 DEF FreeInv, Freeing
  <2>4. \A r \in Procs : put'[r] = e <=> r = p
    BY <1>2, <2>1, <2>2 DEF Puts
  <2>5. \A r \in Procs : ip'[r] # e
    BY <1>2, <2>1, <2>2
  <2>6. FilesOf(put[p])' = {} /\ Puts(put[p])' = {p}
    BY <2>1, <2>2, <2>4 DEF FilesOf, Puts
  <2> QED
    BY <1>6, <2>1, <2>3, <2>4, <2>5, <2>6 DEF FreeInv
<1>7. CASE FreedPutDone(p) /\ q = p
  <2> DEFINE e == put[p]
  <2>1. /\ pc[p] = "freed" /\ pc'[p] = "unref" /\ then'[p] = then[p] /\ put'[p] = e
        /\ inum'[p] = inum[p] /\ dinode' = dinode /\ inode'[e].inum = inode[e].inum
    BY <1>7 DEF FreedPutDone, FreedDone, Now
  <2>2. Puts(e) = {p}
    BY <2>1, FreeingIs
  <2>3. then[p] # "bad" /\ (dinode[inode[e].inum].used => \E r \in Procs : inum[r] = inode[e].inum)
    BY <1>1, <2>1 DEF FreeInv, Freeing
  <2>4. \A r \in Procs : put'[r] = e => r = p
    BY <1>2, <2>2 DEF Puts
  <2>5. \A r \in Procs : inum'[r] = inum[r]
    BY <1>2, <2>1
  <2> QED
    BY <1>7, <2>1, <2>3, <2>4, <2>5 DEF FreeInv
<1> QED
  BY <1>3, <1>4, <1>5, <1>6, <1>7, FreeingComes DEF FreeInv

-----------------------------------------------------------------------------
(* The invariant.                                                          *)

LEMMA EmptySet ==
  ASSUME NEW S, S = {}
  PROVE  Cardinality(S) = 0
BY FS_EmptySet

LEMMA InitInv == Init => Inv /\ ~unchecked
<1> SUFFICES ASSUME Init PROVE Inv /\ ~unchecked
  OBVIOUS
<1>1. TypeOK
  BY DEF Init, TypeOK, Stale, NoCall, PCs, Ops
<1>2. /\ \A p \in Procs : /\ pc[p] = "user" /\ then[p] = "user" /\ call[p].op = "none"
                          /\ ip[p] = None /\ put[p] = None /\ inum[p] = None /\ vma[p] = None
                          /\ Stage(p) = "user"
      /\ \A p \in Procs, f \in Files : Holds(p, f) = 0
      /\ \A e \in Entries : inode[e].ref = 0 /\ lock[e] = None
      /\ \A f \in Files : file[f].ref = 0 /\ file[f].ip = None
      /\ \A i \in Inums : ~dinode[i].used /\ dinode[i].nlink = 0
      /\ \A n \in Names : dir[n] = None
      /\ dirlock = None /\ panic = "no"
  BY Nones DEF Init, Stale, NoCall, Stage, Putting, Holds
<1>3. ASSUME NEW p \in Procs
      PROVE  /\ CallInv(p) /\ HeldInv(p) /\ LockInv(p) /\ DirInv(p)
             /\ ReadInv(p) /\ AllocInv(p) /\ FreeInv(p)
  <2> USE DEF Opening, Shared, Putting, Freeing
  <2>1. CallInv(p)
    BY <1>2 DEF CallInv
  <2>2. HeldInv(p) /\ DirInv(p) /\ ReadInv(p) /\ AllocInv(p) /\ FreeInv(p)
    BY <1>2 DEF HeldInv, DirInv, ReadInv, AllocInv, FreeInv
  <2>3. LockInv(p)
    BY <1>2, Nones DEF LockInv, HasLock, HasDirlock
  <2> QED
    BY <2>1, <2>2, <2>3
<1>4. \A f \in Files : FileInv(f)
  BY <1>2 DEF FileInv
<1>5. \A e \in Entries : EntryInv(e)
  BY <1>2 DEF EntryInv
<1>6. Fine
  BY <1>2 DEF Fine
<1>7. ASSUME NEW f \in Files PROVE file[f].ref = Cardinality(References(f))
  <2>1. \A p \in Procs : 1..Holds(p, f) = {}
    BY <1>2
  <2>2. References(f) = {}
    BY <2>1 DEF References
  <2> QED
    BY <1>2, <2>2, EmptySet
<1>8. ASSUME NEW e \in Entries
      PROVE  inode[e].ref = Cardinality(FilesOf(e)) + Cardinality(Calls(e)) + Cardinality(Puts(e))
  <2>1. FilesOf(e) = {} /\ Calls(e) = {} /\ Puts(e) = {}
    BY <1>2, Nones DEF FilesOf, Calls, Puts
  <2> QED
    BY <1>2, <2>1, EmptySet
<1>9. ASSUME NEW i \in Inums
      PROVE  dinode[i].nlink = Cardinality(NamesOf(i)) + Cardinality(Unnamed(i)) /\ NamesOf(i) = {} /\ InUse(i) = {}
  <2>1. NamesOf(i) = {} /\ Unnamed(i) = {} /\ InUse(i) = {}
    BY <1>2, Nones DEF NamesOf, Unnamed, InUse
  <2> QED
    BY <1>2, <2>1, EmptySet
<1>10. Balanced /\ InodeRefs /\ LinksAreNames
  BY <1>2, <1>7, <1>8, <1>9 DEF Balanced, InodeRefs, LinksAreNames
<1> QED
  BY <1>1, <1>3, <1>4, <1>5, <1>6, <1>10 DEF Inv, Sound, Init

LEMMA StepInv ==
  ASSUME Inv, NEW p \in Procs, Step(p)
  PROVE  Inv'
<1>1. TypeOK' /\ Fine' /\ Balanced' /\ InodeRefs' /\ LinksAreNames'
  BY NextType, NextFine, NextBalanced, NextInodeRefs, NextLinks
<1>2. \A q \in Procs : CallInv(q)' /\ HeldInv(q)' /\ LockInv(q)' /\ DirInv(q)'
  BY NextCallInv, NextHeldInv, NextLockInv, NextDirInv
<1>3. \A q \in Procs : ReadInv(q)' /\ AllocInv(q)' /\ FreeInv(q)'
  BY NextReadInv, NextAllocInv, NextFreeInv
<1>4. \A f \in Files : FileInv(f)'
  BY NextFileInv
<1>5. \A e \in Entries : EntryInv(e)'
  BY NextEntryInv
<1> QED
  BY <1>1, <1>2, <1>3, <1>4, <1>5 DEF Inv, Sound

LEMMA SameInv ==
  ASSUME Inv, UNCHANGED vars
  PROVE  Inv'
<1> USE DEF vars, fs, locks, held, locals
<1>1. TypeOK' <=> TypeOK
  BY DEF TypeOK
<1>2. \A q \in Procs : CallInv(q)' <=> CallInv(q)
  BY DEF CallInv, Stage
<1>3. \A q \in Procs : HeldInv(q)' <=> HeldInv(q)
  BY DEF HeldInv, Stage, Holds
<1>4. \A q \in Procs : LockInv(q)' <=> LockInv(q)
  BY DEF LockInv, HasLock, HasDirlock, Locked, Stage
<1>5. \A q \in Procs : (DirInv(q)' <=> DirInv(q)) /\ (ReadInv(q)' <=> ReadInv(q))
  BY DEF DirInv, ReadInv, Stage, NamesOf
<1>6. \A q \in Procs : AllocInv(q)' <=> AllocInv(q)
  BY DEF AllocInv, Stage, InUse, LastPut, FilesOf, Calls, Puts
<1>7. \A q \in Procs : FreeInv(q)' <=> FreeInv(q)
  BY DEF FreeInv, FilesOf, Puts
<1>8. /\ \A f \in Files : FileInv(f)' <=> FileInv(f)
      /\ \A e \in Entries : EntryInv(e)' <=> EntryInv(e)
  BY DEF FileInv, EntryInv, LastPut
<1>9. (Fine' <=> Fine) /\ (Balanced' <=> Balanced)
  BY DEF Fine, Balanced, References, Holds
<1>10. InodeRefs' <=> InodeRefs
  BY DEF InodeRefs, FilesOf, Calls, Puts, InUse
<1>11. LinksAreNames' <=> LinksAreNames
  BY DEF LinksAreNames, NamesOf, Unnamed, InUse
<1> QED
  BY <1>1, <1>2, <1>3, <1>4, <1>5, <1>6, <1>7, <1>8, <1>9, <1>10, <1>11 DEF Inv, Sound

-----------------------------------------------------------------------------
(* The steps that end the model.                                           *)

(* A file is closed by p, whether p has it or not. *)
LEMMA ClosesAgain ==
  ASSUME Inv, NEW p \in Procs, NEW f \in Files, Idle(p), file[f].ref # 0,
         fileclose(p, f, "user"),
         UNCHANGED <<fs, inode, locks, held, call, ip, inum, panic>>, UNCHANGED orphans,
         unchecked' = TRUE
  PROVE  TypeOK' /\ InodeRefs' /\ LinksAreNames'
<1>1. /\ TypeOK /\ InodeRefs /\ LinksAreNames /\ file[f].ref \in Nat /\ file[f].ref > 0
      /\ pc[p] = "user" /\ ip[p] = None /\ put[p] = None /\ call[p].op = "none"
  BY Parts, Resting DEF Idle, At, TypeOK
<1>2. CloseDone(p, f, "user") /\ file[f].ip \in Entries
  BY <1>1, CloseDoes, FileInTable
<1>3. /\ dir' = dir /\ dinode' = dinode /\ inode' = inode /\ lock' = lock /\ dirlock' = dirlock
      /\ ofile' = ofile /\ vma' = vma /\ gone' = gone /\ alive' = alive /\ call' = call
      /\ ip' = ip /\ inum' = inum
  BY DEF fs, locks, held
<1>4. TypeOK'
  <2>1. /\ file' \in [Files -> FileType] /\ pc' \in [Procs -> PCs] /\ then' \in [Procs -> PCs]
        /\ put' \in [Procs -> Entries \cup {None}]
    <3>1. file' \in [Files -> FileType]
      BY <1>2 DEF CloseDone, OnlyFile
    <3>2. "user" \in PCs /\ "iput" \in PCs
      BY DEF PCs, Putting
    <3>3. pc \in [Procs -> PCs] /\ then \in [Procs -> PCs] /\ put \in [Procs -> Entries \cup {None}]
      BY <1>1 DEF TypeOK
    <3>4. CASE file[f].ref > 1
      BY <3>1, <3>2, <3>3, <3>4 DEF fileclose, Goto
    <3>5. CASE ~(file[f].ref > 1)
      BY <1>2, <3>1, <3>2, <3>3, <3>5 DEF fileclose, IputThen, Goto
    <3> QED
      BY <3>4, <3>5
  <2> QED
    BY <1>1, <1>3, <2>1 DEF TypeOK, FileType
<1>5. \A q \in Procs : q # p => pc'[q] = pc[q] /\ then'[q] = then[q] /\ put'[q] = put[q]
  BY <1>1 DEF fileclose, IputThen, Goto, TypeOK
<1>6. ASSUME NEW e \in Entries
      PROVE  inode[e].ref = Cardinality(FilesOf(e)') + Cardinality(Calls(e)') + Cardinality(Puts(e)')
  <2>1. /\ inode[e].ref = Cardinality(FilesOf(e)) + Cardinality(Calls(e)) + Cardinality(Puts(e))
        /\ Calls(e)' = Calls(e)
    BY <1>1, <1>3 DEF InodeRefs, Calls
  <2>2. /\ Cardinality(Calls(e)) \in Nat /\ Cardinality(Puts(e)) \in Nat
        /\ Cardinality(Puts(e)') = Cardinality(Puts(e)) - One(put[p] = e) + One(put'[p] = e)
    <3>1. /\ Calls(e) \in SUBSET Procs /\ Puts(e) \in SUBSET Procs /\ Puts(e)' \in SUBSET Procs
          /\ IsFiniteSet(Procs)
      BY Finite DEF Calls, Puts
    <3>2. \A q \in Procs \ {p} : q \in Puts(e) <=> q \in Puts(e)'
      BY <1>5 DEF Puts
    <3>3. /\ Cardinality(Puts(e)) \in Nat
          /\ Cardinality(Puts(e)') = Cardinality(Puts(e)) - One(p \in Puts(e)) + One(p \in Puts(e)')
      BY <3>1, <3>2, CountChanges
    <3>4. (p \in Puts(e) <=> put[p] = e) /\ (p \in Puts(e)' <=> put'[p] = e)
      BY DEF Puts
    <3> QED
      BY <3>1, <3>3, <3>4, Counted DEF One
  <2>3. /\ Cardinality(FilesOf(e)) \in Nat
        /\ Cardinality(FilesOf(e)') = Cardinality(FilesOf(e))
             - One(file[f].ref > 0 /\ file[f].ip = e) + One(file'[f].ref > 0 /\ file'[f].ip = e)
    BY <1>2, FilesOfChange DEF CloseDone
  <2>4. CASE file[f].ref > 1
    BY <1>1, <1>2, <2>1, <2>2, <2>3, <2>4, Nones DEF CloseDone, One
  <2>5. CASE file[f].ref = 1
    BY <1>1, <1>2, <2>1, <2>2, <2>3, <2>5, Nones DEF CloseDone, One
  <2> QED
    BY <1>1, <2>4, <2>5
<1>7. InodeRefs'
  <2>1. \A e \in Entries : inode[e].ref > 0 => InUse(inode[e].inum)' = {e}
    BY <1>1, <1>3 DEF InodeRefs, InUse
  <2> QED
    BY <1>3, <1>6, <2>1 DEF InodeRefs
<1>8. LinksAreNames'
  <2>1. \A i : Unnamed(i)' = Unnamed(i)
    BY <1>1, <1>3, <1>5 DEF Unnamed
  <2>2. \A i : NamesOf(i)' = NamesOf(i) /\ InUse(i)' = InUse(i)
    BY <1>3 DEF NamesOf, InUse
  <2> QED
    BY <1>1, <1>3, <2>1, <2>2 DEF LinksAreNames
<1> QED
  BY <1>4, <1>7, <1>8

LEMMA UncheckedInv ==
  ASSUME Inv, NEW p \in Procs, Unchecked(p), unchecked' = TRUE, UNCHANGED orphans
  PROVE  IInv'
<1>1. TypeOK /\ InodeRefs /\ LinksAreNames
  BY Parts
<1>2. ASSUME UNCHANGED <<dir, dinode, inode, lock, dirlock, ofile, vma, alive>>,
             UNCHANGED <<pc, then, call, ip, put, inum>>,
             file' \in [Files -> FileType], gone' \in [Procs -> SUBSET Files],
             \A g \in Files : file'[g].ip = file[g].ip /\ (file'[g].ref > 0 <=> file[g].ref > 0)
      PROVE  TypeOK' /\ InodeRefs' /\ LinksAreNames'
  <2>1. TypeOK'
    BY <1>1, <1>2 DEF TypeOK, FileType
  <2>2. \A e \in Entries : FilesOf(e)' = FilesOf(e) /\ Calls(e)' = Calls(e) /\ Puts(e)' = Puts(e)
    BY <1>2 DEF FilesOf, Calls, Puts
  <2>3. \A i : NamesOf(i)' = NamesOf(i) /\ InUse(i)' = InUse(i) /\ Unnamed(i)' = Unnamed(i)
    BY <1>2 DEF NamesOf, InUse, Unnamed
  <2>4. InodeRefs'
    BY <1>1, <1>2, <2>2, <2>3 DEF InodeRefs
  <2>5. LinksAreNames'
    BY <1>1, <1>2, <2>3 DEF LinksAreNames
  <2> QED
    BY <2>1, <2>4, <2>5
<1>3. ASSUME UNCHANGED <<fs, inode, locks, file, held, pc, then, locals>>
      PROVE  TypeOK' /\ InodeRefs' /\ LinksAreNames'
  BY <1>1, <1>2, <1>3 DEF fs, locks, held, locals, TypeOK, FileType
<1>4. ASSUME NEW f \in Files, MunmapAgain(p, f)
      PROVE  TypeOK' /\ InodeRefs' /\ LinksAreNames'
  <2>1. CASE file[f].ref = 0
    BY <1>3, <1>4, <2>1 DEF MunmapAgain, Panic
  <2>2. CASE file[f].ref # 0
    BY <1>4, <2>2, ClosesAgain DEF MunmapAgain
  <2> QED
    BY <2>1, <2>2
<1>5. ASSUME NEW f \in Files, FaultGone(p, f) \/ MmapClosed(p)
      PROVE  TypeOK' /\ InodeRefs' /\ LinksAreNames'
  BY <1>3, <1>5 DEF FaultGone, MmapClosed, Panic
<1>6. ASSUME NEW f \in Files, MmapEmpty(p, f)
      PROVE  TypeOK' /\ InodeRefs' /\ LinksAreNames'
  <2>1. /\ ofile[p][f] \in Nat /\ file \in [Files -> FileType] /\ gone \in [Procs -> SUBSET Files]
    BY <1>1 DEF TypeOK, FileType
  <2>2. Holds(p, f) > 0
    BY <1>6, <2>1 DEF MmapEmpty, Holds
  <2>3. file[f].ref > 0
    BY <1>1, <2>2, Parts, FileCounts
  <2>4. DupDone(f)
    BY <1>1, <1>6, DupDoes DEF MmapEmpty
  <2>5. /\ file' \in [Files -> FileType] /\ gone' \in [Procs -> SUBSET Files]
        /\ \A g \in Files : file'[g].ip = file[g].ip /\ (file'[g].ref > 0 <=> file[g].ref > 0)
    BY <1>6, <2>1, <2>3, <2>4 DEF MmapEmpty, DupDone, OnlyFile, FileType
  <2> QED
    BY <1>2, <1>6, <2>5 DEF MmapEmpty, fs, locks, locals
<1>7. TypeOK' /\ InodeRefs' /\ LinksAreNames'
  BY <1>3, <1>4, <1>5, <1>6 DEF Unchecked, MmapClosed, Panic
<1> QED
  BY <1>7 DEF IInv, NoPanic, FileRefs

LEMMA CheckedInv == ~unchecked => (IInv <=> Inv)
BY DEF IInv, Inv, NoPanic, FileRefs, Fine, Balanced

LEMMA SameOnDisk ==
  ASSUME NEW p \in Procs, Unchecked(p)
  PROVE  dinode' = dinode
BY DEF Unchecked, MunmapAgain, FaultGone, MmapEmpty, MmapClosed, Panic, fs

(* Nothing happens after such a step. *)
LEMMA UncheckedEnds ==
  ASSUME unchecked, Next
  PROVE  FALSE
<1>1. \A l : \A p \in Procs : ~At(p, l)
  BY DEF At
<1>2. \A p \in Procs : ~Idle(p)
  BY <1>1 DEF Idle
<1>3. PICK p \in Procs : FsStep(p) \/ UserStep(p) \/ UnrefFreed(p) \/ Unchecked(p)
  BY DEF Next
<1>4. ~FsStep(p) /\ ~UnrefFreed(p)
  BY <1>1 DEF FsStep, LockDir, Found, NotFound, Ilock, ReadInode, Iput, FreeInode, Freed,
              Ialloc, IallocIget, Create, Open, OpenFails, Link, Dirlink, DirlinkFails, LinkBad,
              Unlink, Unlinked, Accessed, Unmapped, ExitClose, UnrefFreed
<1>5. ~UserStep(p) /\ ~Unchecked(p)
  BY <1>1, <1>2 DEF UserStep, Call, Close, Dup, Access, Mmap, Munmap, Exit, Born, Fork,
                    Unchecked, MunmapAgain, FaultGone, MmapEmpty, MmapClosed
<1> QED
  BY <1>3, <1>4, <1>5

LEMMA NextInv == IInv /\ [Next]_vars => IInv'
<1> SUFFICES ASSUME IInv, [Next]_vars PROVE IInv'
  OBVIOUS
<1>1. CASE unchecked /\ UNCHANGED vars
  <2> USE <1>1 DEF vars, fs, locks, held, locals
  <2>1. TypeOK' /\ unchecked'
    BY DEF IInv, TypeOK
  <2>2. InodeRefs'
    BY DEF IInv, InodeRefs, FilesOf, Calls, Puts, InUse
  <2>3. LinksAreNames'
    BY DEF IInv, LinksAreNames, NamesOf, Unnamed, InUse
  <2> QED
    BY <2>1, <2>2, <2>3 DEF IInv, NoPanic, FileRefs
<1>2. CASE ~unchecked
  <2>1. Inv
    BY <1>2, CheckedInv
  <2>2. ASSUME NEW p \in Procs, Step(p) PROVE IInv'
    <3>1. Inv' /\ ~unchecked'
      BY <1>2, <2>1, <2>2, StepInv DEF Step
    <3> QED
      BY <3>1 DEF IInv, Inv, NoPanic, FileRefs, Fine, Balanced
  <2>3. CASE UNCHANGED vars
    <3>1. ~unchecked'
      BY <1>2, <2>3 DEF vars
    <3>2. Inv'
      BY <2>1, <2>3, SameInv
    <3> QED
      BY <3>1, <3>2 DEF IInv, Inv, NoPanic, FileRefs, Fine, Balanced
  <2> QED
    BY <2>1, <2>2, <2>3, NextIs, UncheckedInv
<1> QED
  BY <1>1, <1>2, UncheckedEnds

(* The inductive invariant of the file system calls (file.c, fs.c,         *)
(* sysfile.c): what each process has of the tables, wherever it is in its  *)
(* call, and the four properties below.  When mmap() or munmap() has gone  *)
(* Unchecked (sysproc.c), what it says of inodes and names is left.        *)
THEOREM Invariance == Spec => []IInv
<1>1. Init => IInv
  BY InitInv, CheckedInv
<1>2. IInv /\ [Next]_vars => IInv'
  BY NextInv
<1> QED
  BY <1>1, <1>2, PTL DEF Spec

(* The directory, the tables of inodes and of files and the locals of the  *)
(* calls have their types. *)
THEOREM TypeCorrect == Spec => []TypeOK
<1>1. IInv => TypeOK
  BY DEF IInv
<1> QED
  BY <1>1, Invariance, PTL

(* The kernel does not panic but for want of inodes: ilock() finds a type, *)
(* unlink() finds a link to take off, and the acquiresleep() that iput()   *)
(* does with a spin lock held never finds the lock taken, until mmap() or  *)
(* munmap() goes Unchecked (sysproc.c): a file that is closed once more    *)
(* makes fileclose() or ilock() panic.                                     *)
THEOREM NeverPanics == Spec => []NoPanic
<1>1. IInv => NoPanic
  BY DEF IInv
<1> QED
  BY <1>1, Invariance, PTL

(* ftable.file[f].ref is the number of descriptors and mapped areas of f,  *)
(* whatever the calls, forks and exits of the processes, until mmap() or   *)
(* munmap() goes Unchecked: no file is freed that somebody holds, and none *)
(* that nobody holds stays.  Areas of size 0 count nothing: munmap() has   *)
(* given their reference up, fork() takes none and exit() drops none.      *)
THEOREM FilesAreCounted == Spec => []FileRefs
<1>1. IInv => FileRefs
  BY DEF IInv
<1> QED
  BY <1>1, Invariance, PTL

(* itable.inode[e].ref is the number of files, calls and iput()s that      *)
(* refer to e, and iget() never makes a second entry for an inode.         *)
THEOREM InodesAreCounted == Spec => []InodeRefs
<1>1. IInv => InodeRefs
  BY DEF IInv
<1> QED
  BY <1>1, Invariance, PTL

(* The link count on disk is that of the names, but while link() and       *)
(* unlink() are about to change them; a name is that of an inode in use,   *)
(* and an inode in use without a name is open, being made, or an orphan.   *)
THEOREM LinksAreCounted == Spec => []LinksAreNames
<1>1. IInv => LinksAreNames
  BY DEF IInv
<1> QED
  BY <1>1, Invariance, PTL

-----------------------------------------------------------------------------
(* Two more things that follow from the invariant.                         *)

(* p waits for a sleep lock that q has, of the directory or of an inode.   *)
Waits(p, q) == \/ pc[p] \in {"namei", "nameiparent"} /\ dirlock = q
               \/ pc[p] = "ilock" /\ lock[ip[p]] = q

WaitsEnd == ~unchecked => \A p, q, r, s \in Procs : ~(Waits(p, q) /\ Waits(q, r) /\ Waits(r, s))

(* Who has an inode's lock waits for nobody, and who has the directory's   *)
(* waits for an inode's at most: the code takes them in this order, and    *)
(* link() gives the inode's up before it takes the directory's (sysfile.c  *)
(* lines 142-146).  So at most two wait one for the other, and no circle   *)
(* of any length is closed, unless mmap() or munmap() has gone Unchecked.  *)
THEOREM NoCircleOfWaits == Spec => []WaitsEnd
<1>1. IInv => WaitsEnd
  <2> SUFFICES ASSUME Inv, NEW p \in Procs, NEW q \in Procs, NEW r \in Procs, NEW s \in Procs,
                      Waits(p, q), Waits(q, r), Waits(r, s)
               PROVE  FALSE
    BY CheckedInv DEF WaitsEnd
  <2>1. ASSUME NEW t \in Procs, NEW u \in Procs, pc[t] = "ilock", lock[ip[t]] = u
        PROVE  HasLock(u)
    <3>1. CallInv(t) /\ TypeOK
      BY Parts
    <3>2. ip[t] \in Entries
      <4>1. then[t] \in Opening \cup Shared \cup {"unlinked"} /\ Stage(t) = then[t]
        BY <2>1, <3>1 DEF CallInv, Stage
      <4> QED
        BY <3>1, <4>1 DEF CallInv, TypeOK
    <3> QED
      BY <2>1, <3>2, Parts DEF LockInv
  <2>2. ASSUME NEW t \in Procs, NEW u \in Procs, Waits(t, u)
        PROVE  /\ HasLock(u) \/ HasDirlock(u)
               /\ ~HasLock(t)
               /\ HasDirlock(t) => pc[t] = "ilock" /\ HasLock(u)
    <3>1. CASE pc[t] = "ilock" /\ lock[ip[t]] = u
      <4>1. HasLock(u)
        BY <2>1, <3>1
      <4>2. ~HasLock(t)
        BY <3>1 DEF HasLock, Opening, Shared
      <4> QED
        BY <3>1, <4>1, <4>2
    <3>2. CASE pc[t] \in {"namei", "nameiparent"} /\ dirlock = u
      <4>1. HasDirlock(u)
        BY <3>2, Parts DEF LockInv
      <4>2. ~HasLock(t) /\ ~HasDirlock(t)
        BY <3>2 DEF HasLock, HasDirlock, Stage, Opening, Shared, Putting
      <4> QED
        BY <4>1, <4>2
    <3> QED
      BY <2>2, <3>1, <3>2 DEF Waits
  <2>3. ~HasLock(q) /\ ~HasLock(r)
    BY <2>2
  <2>4. HasDirlock(q)
    BY <2>2, <2>3
  <2> QED
    BY <2>2, <2>3, <2>4
<1> QED
  BY <1>1, Invariance, PTL

(* What is true of an inode that iput() frees on the disk (fs.c line 347). *)
UnusedWhenFreed == \A i \in Inums : dinode[i].used /\ ~dinode'[i].used =>
  /\ NamesOf(i) = {}
  /\ \A e \in InUse(i) : /\ FilesOf(e) = {} /\ \A q \in Procs : ip[q] # e
                         /\ \E p \in Procs : Puts(e) = {p}

(* An inode is freed on the disk only when it has no name, no file is open *)
(* or mapped on it, no call uses it and one iput() has its last reference. *)
THEOREM FreedWhenUnused == Spec => [][UnusedWhenFreed]_vars
<1>1. IInv /\ [Next]_vars => [UnusedWhenFreed]_vars
  <2> SUFFICES ASSUME Inv, Next, NEW i \in Inums, dinode[i].used, ~dinode'[i].used
               PROVE  /\ NamesOf(i) = {}
                      /\ \A e \in InUse(i) : /\ FilesOf(e) = {} /\ \A q \in Procs : ip[q] # e
                                             /\ \E p \in Procs : Puts(e) = {p}
    BY CheckedInv, UncheckedEnds DEF UnusedWhenFreed
  <2>1. PICK p \in Procs : Step(p)
    BY NextIs, SameOnDisk
  <2>2. FreeInodeDone(p) /\ i = inode[put[p]].inum
    BY <2>1, UsedKept
  <2>3. pc[p] = "free"
    BY <2>2 DEF FreeInodeDone
  <2>4. ASSUME NEW e \in InUse(i) PROVE e = put[p]
    BY <2>2, <2>3, <2>4, FreeingIs, OneEntry DEF InUse
  <2> QED
    BY <2>2, <2>3, <2>4, FreeingIs
<1> QED
  BY <1>1, Invariance, PTL DEF Spec
=============================================================================
