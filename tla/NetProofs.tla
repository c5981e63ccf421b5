------------------------------ MODULE NetProofs ------------------------------
(***************************************************************************)
(* Proofs about Net, for any number of processes, sockets, addresses and   *)
(* mbufs and any sizes of the two rings: each mbuf is freed once, sockets  *)
(* outlive their use, readers sleep only for packets that are not there,   *)
(* no packet is stranded in the ring, and packets go to the mailbox of     *)
(* their address.                                                          *)
(***************************************************************************)
EXTENDS Net, FiniteSetTheorems, SequenceTheorems, TLAPS

(* The sizes of the rings. *)
LEMMA Sizes == /\ RX_RING_SIZE \in Nat /\ RX_RING_SIZE >= 2
               /\ TX_RING_SIZE \in Nat /\ TX_RING_SIZE >= 2
               /\ NMBUF \in Nat /\ RX_RING_SIZE <= NMBUF
BY RingAssumption

(* A sum of two places in a ring comes round once at most. *)
LEMMA ModIs ==
  ASSUME NEW m \in Nat \ {0}, NEW a \in Nat, NEW k \in Nat, NEW r \in 0..(m - 1),
         a = m * k + r
  PROVE  a % m = r
OBVIOUS

LEMMA Round ==
  ASSUME NEW m \in Nat \ {0}, NEW a \in 0..(2 * m - 1)
  PROVE  /\ a % m = IF a < m THEN a ELSE a - m
         /\ a % m \in 0..(m - 1)
<1>1. CASE a < m
  <2>1. a \in 0..(m - 1) /\ a = m * 0 + a
    BY <1>1
  <2> QED
    BY <1>1, <2>1, ModIs
<1>2. CASE ~(a < m)
  <2>1. a - m \in 0..(m - 1) /\ a = m * 1 + (a - m)
    BY <1>2
  <2> QED
    BY <1>2, <2>1, ModIs
<1> QED
  BY <1>1, <1>2

LEMMA NextPlace ==
  ASSUME NEW m \in Nat \ {0}, NEW k \in 0..(m - 1)
  PROVE  /\ (k + 1) % m = IF k + 1 = m THEN 0 ELSE k + 1
         /\ (k + 1) % m \in 0..(m - 1)
         /\ (k + m - 1) % m = IF k = 0 THEN m - 1 ELSE k - 1
         /\ (k + m - 1) % m \in 0..(m - 1)
<1>1. ASSUME NEW a, a = k + 1
      PROVE  a % m = (IF k + 1 = m THEN 0 ELSE k + 1) /\ a % m \in 0..(m - 1)
  <2>1. a \in 0..(2 * m - 1)
    BY <1>1
  <2>2. a % m = (IF a < m THEN a ELSE a - m) /\ a % m \in 0..(m - 1)
    BY <2>1, Round
  <2> QED
    BY <1>1, <2>2
<1>2. ASSUME NEW a, a = k + m - 1
      PROVE  a % m = (IF k = 0 THEN m - 1 ELSE k - 1) /\ a % m \in 0..(m - 1)
  <2>1. a \in 0..(2 * m - 1)
    BY <1>2
  <2>2. a % m = (IF a < m THEN a ELSE a - m) /\ a % m \in 0..(m - 1)
    BY <2>1, Round
  <2> QED
    BY <1>2, <2>2
<1> QED
  BY <1>1, <1>2

(* The places of the two rings. *)
LEMMA NextRX ==
  ASSUME NEW k \in RX
  PROVE  /\ (k + 1) % RX_RING_SIZE = IF k + 1 = RX_RING_SIZE THEN 0 ELSE k + 1
         /\ (k + 1) % RX_RING_SIZE \in RX
         /\ (k + RX_RING_SIZE - 1) % RX_RING_SIZE = IF k = 0 THEN RX_RING_SIZE - 1 ELSE k - 1
         /\ (k + RX_RING_SIZE - 1) % RX_RING_SIZE \in RX
<1>1. RX_RING_SIZE \in Nat \ {0} /\ RX = 0..(RX_RING_SIZE - 1)
  BY Sizes DEF RX
<1> QED
  BY <1>1, NextPlace

LEMMA NextTX ==
  ASSUME NEW k \in TX
  PROVE  /\ (k + 1) % TX_RING_SIZE = IF k + 1 = TX_RING_SIZE THEN 0 ELSE k + 1
         /\ (k + 1) % TX_RING_SIZE \in TX
<1>1. TX_RING_SIZE \in Nat \ {0} /\ TX = 0..(TX_RING_SIZE - 1)
  BY Sizes DEF TX
<1> QED
  BY <1>1, NextPlace

-----------------------------------------------------------------------------
(* The types, one group for each part of the state.                        *)
RxOK == /\ rx_mbufs \in [RX -> Packets \cup {Blank, None}]
        /\ dd \in [RX -> BOOLEAN]
        /\ rdh \in RX /\ rdt \in RX /\ curr \in RX /\ icr \in BOOLEAN
TxOK == /\ tx_mbufs \in [TX -> Frames \cup {None}]
        /\ tdh \in TX /\ tdt \in TX
        /\ frames \in Seq(Frames) /\ overrun \in BOOLEAN
SocksOK == /\ freesocks \subseteq Socks /\ sockets \subseteq Socks
           /\ addr \in [Socks -> Addrs \cup {None}]
           /\ rxq \in [Socks -> Seq(Packets)]
ProcsOK == /\ fds \in [Procs -> SUBSET Socks] /\ killed \in [Procs -> BOOLEAN]
LocksOK == lock \in {None, intr} /\ slock \in [Socks -> Procs \cup {None}]
PCs == {"idle", "recv", "push", "drop", "refill", "tail", "transmit", "unlink", "drain",
        "read", "sleep", "asleep", "copyout"}
PcOK == pc \in [Actors -> PCs]
HandOK == mb \in [Actors -> Packets \cup Frames \cup {None}] /\ si \in [Actors -> Socks \cup {None}]
RestOK == nfree \in Nat /\ panic \in BOOLEAN

LEMMA TypeParts ==
  /\ TypeOK <=> RxOK /\ TxOK /\ SocksOK /\ ProcsOK /\ LocksOK /\ PcOK /\ HandOK /\ RestOK
  /\ TypeOK' <=> RxOK' /\ TxOK' /\ SocksOK' /\ ProcsOK' /\ LocksOK' /\ PcOK' /\ HandOK' /\ RestOK'
BY DEF TypeOK, RxOK, TxOK, SocksOK, ProcsOK, LocksOK, PcOK, PCs, HandOK, RestOK

LEMMA Unchanged ==
  /\ RxOK /\ UNCHANGED rxring => RxOK'
  /\ TxOK /\ UNCHANGED txring => TxOK'
  /\ SocksOK /\ UNCHANGED <<freesocks, socks>> => SocksOK'
  /\ ProcsOK /\ UNCHANGED procs => ProcsOK'
  /\ LocksOK /\ UNCHANGED locks => LocksOK'
  /\ PcOK /\ UNCHANGED pc => PcOK'
  /\ HandOK /\ UNCHANGED <<mb, si>> => HandOK'
  /\ RestOK /\ UNCHANGED <<nfree, panic>> => RestOK'
BY DEF RxOK, TxOK, SocksOK, ProcsOK, LocksOK, PcOK, HandOK, RestOK,
       rxring, txring, socks, procs, locks

LEMMA InitType == Init => TypeOK
<1> SUFFICES ASSUME Init PROVE TypeOK
  OBVIOUS
<1>1. 0 \in RX /\ RX_RING_SIZE - 1 \in RX /\ 0 \in TX /\ NMBUF - RX_RING_SIZE \in Nat
  BY Sizes DEF RX, TX
<1>2. RxOK
  <2>1. rx_mbufs \in [RX -> Packets \cup {Blank, None}] /\ dd \in [RX -> BOOLEAN]
    BY DEF Init
  <2>2. rdh \in RX /\ rdt \in RX /\ curr \in RX /\ icr \in BOOLEAN
    BY <1>1 DEF Init
  <2> QED
    BY <2>1, <2>2 DEF RxOK
<1>3. TxOK
  <2>1. tx_mbufs \in [TX -> Frames \cup {None}] /\ frames = <<>> /\ overrun = FALSE
    BY DEF Init
  <2>2. tdh \in TX /\ tdt \in TX
    BY <1>1 DEF Init
  <2>3. <<>> \in Seq(Frames) /\ FALSE \in BOOLEAN
    OBVIOUS
  <2> QED
    BY <2>1, <2>2, <2>3, Zenon DEF TxOK
<1>4. SocksOK /\ ProcsOK /\ LocksOK
  BY DEF Init, SocksOK, ProcsOK, LocksOK
<1>5. PcOK /\ HandOK /\ RestOK
  BY <1>1 DEF Init, PcOK, PCs, HandOK, RestOK
<1> QED
  BY <1>2, <1>3, <1>4, <1>5, TypeParts

(* Who an actor is. *)
LEMMA Actor == /\ intr \in Actors /\ Procs \subseteq Actors /\ intr \notin Procs
               /\ None \notin Actors /\ None \notin Socks
               /\ \A a \in Actors : a = intr \/ a \in Procs
BY ActorsAssumption DEF Actors

LEMMA NoPacket ==
  /\ None \notin Packets /\ Blank \notin Packets /\ Blank # None
  /\ None \notin Frames
BY ContentAssumption

(* The packet that is being delivered. *)
LEMMA Delivered ==
  ASSUME TypeOK, RingInv, DescInv, pc[intr] \in {"push", "transmit", "drop"}
  PROVE  Received \in Packets /\ curr \in RX /\ dd[curr]
<1>1. curr \in RX /\ dd[curr]
  BY DEF TypeOK, RingInv, Delivering
<1>2. rx_mbufs[curr] # None
  BY <1>1 DEF DescInv
<1> QED
  BY <1>1, <1>2 DEF DescInv, Received

(* The actions whose frame says nothing special. *)
LEMMA Goes ==
  ASSUME TypeOK, NEW a \in Actors
  PROVE  /\ \A l \in PCs : Goto(a, l) => PcOK'
         /\ \A b \in Packets \cup Frames \cup {None} :
              InHand(a, b) => mb' \in [Actors -> Packets \cup Frames \cup {None}]
         /\ \A s \in Socks \cup {None} : WorksOn(a, s) => si' \in [Actors -> Socks \cup {None}]
BY DEF TypeOK, PcOK, PCs, Goto, InHand, WorksOn

-----------------------------------------------------------------------------
(* Each step keeps the types, one step of the proof for each group.        *)
LEMMA NextType == IInv /\ [Next]_vars => TypeOK'
<1> SUFFICES ASSUME IInv, [Next]_vars PROVE TypeOK'
  OBVIOUS
<1>1. TypeOK /\ RxOK /\ TxOK /\ SocksOK /\ ProcsOK /\ LocksOK /\ PcOK /\ HandOK /\ RestOK
  BY TypeParts DEF IInv
<1>2. RxOK'
  <2>1. CASE UNCHANGED rxring
    BY <1>1, <2>1, Unchanged
  <2>2. ASSUME NEW pk \in Packets, Receive(pk) PROVE RxOK'
    BY <1>1, <2>2, NextRX DEF Receive, RxOK
  <2>3. CASE IntrStart
    BY <1>1, <2>3, NextRX DEF IntrStart, RxOK
  <2>4. CASE Push \/ Drop
    BY <1>1, <2>4 DEF Push, Drop, HandOn, RxOK
  <2>5. CASE Refill
    BY <1>1, <2>5, NextRX DEF Refill, RxOK
  <2>6. CASE RecvTail
    BY <1>1, <2>6, NextRX, Sizes DEF RecvTail, RxOK, RX
  <2> QED
    BY <2>1, <2>2, <2>3, <2>4, <2>5, <2>6 DEF vars, Next, Card, IntrStep, ProcStep, Send,
       NetRxOther, NetRxUdp, RefillFails, Panic, RecvDone, Connect, ConnectAgain, Fork, Close,
       Read, Unlink, Drain, Sleep, ReadDone, Write, Kill, Transmit
<1>3. TxOK'
  <2>1. CASE UNCHANGED txring
    BY <1>1, <2>1, Unchanged
  <2>2. CASE Send
    <3>1. frames' \in Seq(Frames)
      <4>1. ~overrun => frames # <<>>
        <5>1. Len(<<>>) = 0
          OBVIOUS
        <5>2. ~overrun => (tdt + TX_RING_SIZE - tdh) % TX_RING_SIZE # 0
          <6>1. tdt \in 0..(TX_RING_SIZE - 1) /\ tdh \in 0..(TX_RING_SIZE - 1) /\ tdt # tdh
            BY <1>1, <2>2 DEF TxOK, Send, TX
          <6>2. ASSUME NEW x, x = tdt + TX_RING_SIZE - tdh
                PROVE  x % TX_RING_SIZE # 0
            <7>1. x \in 0..(2 * TX_RING_SIZE - 1) /\ TX_RING_SIZE \in Nat \ {0}
              BY <6>1, <6>2, Sizes
            <7>2. x % TX_RING_SIZE = IF x < TX_RING_SIZE THEN x ELSE x - TX_RING_SIZE
              BY <7>1, Round
            <7> QED
              BY <6>1, <6>2, <7>2, Sizes
          <6> QED
            BY <6>2
        <5> QED
          BY <5>1, <5>2 DEF IInv, FramesAreKept
      <4> QED
        BY <1>1, <2>2, <4>1, HeadTailProperties DEF TxOK, Send
    <3> QED
      BY <1>1, <2>2, <3>1, NextTX DEF TxOK, Send
  <2>3. ASSUME NEW a \in Actors, Transmit(a) PROVE TxOK'
    <3>1. mb[a] \in Frames
      BY <2>3 DEF Transmit, At, IInv, HandInv
    <3>2. overrun' \in BOOLEAN
      BY <2>3 DEF Transmit
    <3>3. frames' \in Seq(Frames)
      BY <1>1, <2>3, <3>1, AppendProperties DEF Transmit, TxOK
    <3>4. tdt' \in TX /\ tdh' \in TX
      BY <1>1, <2>3, NextTX DEF Transmit, TxOK
    <3>5. tx_mbufs' \in [TX -> Frames \cup {None}]
      BY <1>1, <2>3, <3>1 DEF Transmit, TxOK
    <3> QED
      BY <3>2, <3>3, <3>4, <3>5 DEF TxOK
  <2> QED
    BY <2>1, <2>2, <2>3 DEF vars, Next, Card, IntrStep, ProcStep, Receive, IntrStart, Push, Drop,
       Refill, RecvTail, NetRxOther, NetRxUdp, RefillFails, Panic, RecvDone, Connect,
       ConnectAgain, Fork, Close, Read, Unlink, Drain, Sleep, ReadDone, Write, Kill
<1>4. SocksOK'
  <2>1. CASE UNCHANGED <<freesocks, socks>>
    BY <1>1, <2>1, Unchanged
  <2>2. CASE Push
    <3>1. Received \in Packets /\ si[intr] \in Socks
      BY <1>1, <2>2, Delivered DEF IInv, Push, At, IntrInv, Matching, SocksOK
    <3>2. rxq' = [rxq EXCEPT ![si[intr]] = Append(@, Received)] /\ UNCHANGED <<freesocks, sockets, addr>>
      BY <2>2 DEF Push
    <3> QED
      BY <1>1, <3>1, <3>2, AppendProperties DEF SocksOK
  <2>3. ASSUME NEW p \in Procs, NEW a \in Addrs, Connect(p, a) PROVE SocksOK'
    BY <1>1, <2>3 DEF Connect, SocksOK
  <2>4. ASSUME NEW p \in Procs, Unlink(p) PROVE SocksOK'
    BY <1>1, <2>4 DEF Unlink, SocksOK
  <2>5. ASSUME NEW p \in Procs, Drain(p) PROVE SocksOK'
    <3>1. si[p] \in Socks
      BY <2>5 DEF Drain, At, IInv, CallInv, Closing
    <3>2. <<>> \in Seq(Packets)
      OBVIOUS
    <3> QED
      BY <1>1, <2>5, <3>1, <3>2 DEF Drain, SocksOK
  <2>6. ASSUME NEW p \in Procs, NEW s \in Socks, Read(p, s) PROVE SocksOK'
    <3>1. \/ rxq' = rxq
          \/ rxq[s] # <<>> /\ rxq' = [rxq EXCEPT ![s] = Tail(@)]
      BY <2>6 DEF Read
    <3>2. UNCHANGED <<freesocks, sockets, addr>>
      BY <2>6 DEF Read
    <3>3. rxq[s] # <<>> => Tail(rxq[s]) \in Seq(Packets)
      BY <1>1, HeadTailProperties DEF SocksOK
    <3>4. rxq' \in [Socks -> Seq(Packets)]
      BY <1>1, <3>1, <3>3 DEF SocksOK
    <3> QED
      BY <1>1, <3>2, <3>4 DEF SocksOK
  <2> QED
    BY <2>1, <2>2, <2>3, <2>4, <2>5, <2>6 DEF vars, Next, Card, IntrStep, ProcStep, Receive, Send,
       IntrStart, Drop, Refill, RecvTail, NetRxOther, NetRxUdp, RefillFails, Panic, RecvDone,
       ConnectAgain, Fork, Close, Sleep, ReadDone, Write, Kill, Transmit
<1>5. ProcsOK'
  <2>1. CASE UNCHANGED procs
    BY <1>1, <2>1, Unchanged
  <2>2. ASSUME NEW p \in Procs, NEW a \in Addrs, Connect(p, a) PROVE ProcsOK'
    BY <1>1, <2>2 DEF Connect, ProcsOK, SocksOK
  <2>3. ASSUME NEW p \in Procs, NEW q \in Procs, Fork(p, q) PROVE ProcsOK'
    BY <1>1, <2>3 DEF Fork, ProcsOK
  <2>4. ASSUME NEW p \in Procs, NEW s \in Socks, Close(p, s) PROVE ProcsOK'
    BY <1>1, <2>4 DEF Close, ProcsOK
  <2>5. ASSUME NEW p \in Procs, NEW s \in Socks, Read(p, s) PROVE ProcsOK'
    BY <1>1, <2>5 DEF Read, ProcsOK
  <2>6. ASSUME NEW p \in Procs, Kill(p) PROVE ProcsOK'
    BY <1>1, <2>6 DEF Kill, ProcsOK
  <2> QED
    BY <2>1, <2>2, <2>3, <2>4, <2>5, <2>6 DEF vars, Next, Card, IntrStep, ProcStep, Receive, Send,
       IntrStart, Push, Drop, Refill, RecvTail, NetRxOther, NetRxUdp, RefillFails, Panic,
       RecvDone, ConnectAgain, Unlink, Drain, Sleep, ReadDone, Write, Transmit
<1>6. LocksOK'
  <2>1. CASE UNCHANGED locks
    BY <1>1, <2>1, Unchanged
  <2>2. CASE NetRxUdp \/ Push
    BY <1>1, <2>2 DEF NetRxUdp, Push, LocksOK
  <2>3. ASSUME NEW p \in Procs, NEW s \in Socks, Read(p, s) PROVE LocksOK'
    BY <1>1, <2>3 DEF Read, LocksOK
  <2>4. ASSUME NEW p \in Procs, Sleep(p) PROVE LocksOK'
    BY <1>1, <2>4 DEF Sleep, LocksOK
  <2> QED
    BY <2>1, <2>2, <2>3, <2>4 DEF vars, Next, Card, IntrStep, ProcStep, Receive, Send,
       IntrStart, Drop, Refill, RecvTail, NetRxOther, RefillFails, Panic, RecvDone, Connect,
       ConnectAgain, Fork, Close, Unlink, Drain, ReadDone, Write, Kill, Transmit
<1>7. PcOK'
  <2>1. CASE UNCHANGED pc
    BY <1>1, <2>1, Unchanged
  <2>2. ASSUME NEW a \in Actors, NEW l \in PCs, Goto(a, l) PROVE PcOK'
    BY <1>1, <2>2, Goes
  <2>3. CASE Push
    BY <1>1, <2>3 DEF Push, PcOK, PCs
  <2>4. ASSUME NEW p \in Procs, Kill(p) PROVE PcOK'
    BY <1>1, <2>4, Actor DEF Kill, PcOK, PCs
  <2>5. /\ {"idle", "recv", "push", "drop", "refill", "tail", "transmit", "unlink", "drain",
            "sleep", "asleep", "copyout"} \subseteq PCs
        /\ intr \in Actors /\ Procs \subseteq Actors
    BY Actor DEF PCs
  <2>6. CASE IntrStep
    BY <2>1, <2>2, <2>3, <2>5, <2>6 DEF IntrStep, IntrStart, NetRxOther, NetRxUdp, Drop, Refill,
       RefillFails, Panic, RecvDone, RecvTail
  <2>7. ASSUME NEW p \in Procs, ProcStep(p) PROVE PcOK'
    BY <2>1, <2>2, <2>4, <2>5, <2>7 DEF ProcStep, Connect, ConnectAgain, Panic, Fork, Close,
       Unlink, Drain, Read, Sleep, ReadDone, Write
  <2>8. CASE Card
    BY <2>1, <2>8 DEF Card, Send, Receive
  <2>9. ASSUME NEW a \in Actors, Transmit(a) PROVE PcOK'
    BY <2>2, <2>5, <2>9 DEF Transmit
  <2> QED
    BY <2>1, <2>6, <2>7, <2>8, <2>9 DEF Next, vars
<1>8. mb' \in [Actors -> Packets \cup Frames \cup {None}]
  <2>1. CASE UNCHANGED mb
    BY <1>1, <2>1 DEF HandOK
  <2>2. ASSUME NEW a \in Actors, NEW b \in Packets \cup Frames \cup {None}, InHand(a, b)
        PROVE  mb' \in [Actors -> Packets \cup Frames \cup {None}]
    BY <1>1, <2>2, Goes
  <2>3. CASE NetRxOther
    BY <2>1, <2>2, <2>3, Actor DEF NetRxOther
  <2>4. ASSUME NEW p \in Procs, NEW s \in Socks, Read(p, s)
        PROVE  mb' \in [Actors -> Packets \cup Frames \cup {None}]
    <3>1. rxq[s] # <<>> => Head(rxq[s]) \in Packets
      BY <1>1, HeadTailProperties DEF SocksOK
    <3> QED
      BY <2>1, <2>2, <2>4, <3>1, Actor DEF Read
  <2>5. ASSUME NEW a \in Actors, Transmit(a)
        PROVE  mb' \in [Actors -> Packets \cup Frames \cup {None}]
    BY <2>2, <2>5 DEF Transmit
  <2>6. ASSUME NEW p \in Procs, ReadDone(p) \/ Write(p)
        PROVE  mb' \in [Actors -> Packets \cup Frames \cup {None}]
    BY <2>2, <2>6, Actor DEF ReadDone, Write
  <2> QED
    BY <2>1, <2>3, <2>4, <2>5, <2>6 DEF vars, Next, Card, IntrStep, ProcStep, Receive, Send,
       IntrStart, Push, Drop, Refill, RecvTail, NetRxUdp, RefillFails, Panic, RecvDone,
       Connect, ConnectAgain, Fork, Close, Unlink, Drain, Sleep, Kill
<1>9. si' \in [Actors -> Socks \cup {None}]
  <2>1. CASE UNCHANGED si
    BY <1>1, <2>1 DEF HandOK
  <2>2. ASSUME NEW a \in Actors, NEW s \in Socks \cup {None}, WorksOn(a, s)
        PROVE  si' \in [Actors -> Socks \cup {None}]
    BY <1>1, <2>2, Goes
  <2>3. CASE NetRxUdp \/ Push
    BY <1>1, <2>1, <2>2, <2>3, Actor DEF NetRxUdp, Push, Matching, SocksOK
  <2>4. ASSUME NEW p \in Procs, NEW s \in Socks, Read(p, s) \/ Close(p, s)
        PROVE  si' \in [Actors -> Socks \cup {None}]
    BY <2>1, <2>2, <2>4, Actor DEF Read, Close
  <2>5. ASSUME NEW p \in Procs, Drain(p) PROVE si' \in [Actors -> Socks \cup {None}]
    BY <2>2, <2>5, Actor DEF Drain
  <2> QED
    BY <2>1, <2>3, <2>4, <2>5 DEF vars, Next, Card, IntrStep, ProcStep, Receive, Send, IntrStart,
       NetRxOther, Drop, Refill, RecvTail, RefillFails, Panic, RecvDone, Connect,
       ConnectAgain, Fork, Unlink, Sleep, ReadDone, Write, Kill, Transmit
<1>10. RestOK'
  <2>1. nfree' \in Nat
    <3>1. nfree \in Nat /\ (mbufalloc => nfree' \in Nat) /\ (mbuffree => nfree' \in Nat)
      BY <1>1 DEF RestOK, mbufalloc, mbuffree
    <3>2. ASSUME NEW p \in Procs, Drain(p) PROVE nfree' \in Nat
      <4>1. si[p] \in Socks
        BY <3>2 DEF Drain, At, IInv, CallInv, Closing
      <4>2. Len(rxq[si[p]]) \in Nat
        BY <1>1, <4>1, LenProperties DEF SocksOK
      <4> QED
        BY <3>1, <3>2, <4>2 DEF Drain
    <3>3. ASSUME NEW a \in Actors, Transmit(a) PROVE nfree' \in Nat
      BY <3>1, <3>3 DEF Transmit
    <3> QED
      BY <3>1, <3>2, <3>3 DEF vars, Next, Card, IntrStep, ProcStep, Receive, Send, IntrStart,
       NetRxOther, NetRxUdp, Push, Drop, Refill, RecvTail, RefillFails, Panic, RecvDone, Connect,
       ConnectAgain, Fork, Close, Read, Unlink, Sleep, ReadDone, Write, Kill
  <2>2. panic' = panic \/ panic' = TRUE
    BY DEF vars, Next, Card, IntrStep, ProcStep, Receive, Send, IntrStart, NetRxOther, NetRxUdp,
       Push, Drop, Refill, RecvTail, RefillFails, Panic, RecvDone, Connect, ConnectAgain, Fork,
       Close, Read, Unlink, Drain, Sleep, ReadDone, Write, Kill, Transmit
  <2> QED
    BY <1>1, <2>1, <2>2 DEF RestOK
<1> QED
  BY <1>2, <1>3, <1>4, <1>5, <1>6, <1>7, <1>8, <1>9, <1>10, TypeParts DEF HandOK

-----------------------------------------------------------------------------
(* The sockets: the list, the calls on them, and who holds their locks.    *)
SockInv == CallInv /\ ListInv /\ SleepInv /\ SocketsOutliveUse

(* Steps that leave the sockets, and who works on them, alone.             *)
LEMMA QuietSocks ==
  ASSUME TypeOK, SockInv, UNCHANGED <<freesocks, socks, slock, fds, si>>,
         \A p \in Procs : \/ pc'[p] = pc[p]
                          \/ {pc[p], pc'[p]} \subseteq {"idle", "transmit", "copyout"}
  PROVE  SockInv'
<1> USE DEF SockInv, socks
<1>1. CallInv'
  BY DEF CallInv, Reading, Closing
<1>2. ListInv'
  BY DEF ListInv
<1>3. SleepInv'
  <2>1. \A s \in Socks : slock[s] # None => slock[s] \in Procs
    BY DEF TypeOK
  <2> QED
    BY <2>1 DEF SleepInv
<1>4. SocketsOutliveUse'
  BY DEF SocketsOutliveUse
<1> QED
  BY <1>1, <1>2, <1>3, <1>4

(* The steps of the card, and those of e1000_intr() on its ring.           *)
LEMMA CardSocks ==
  ASSUME IInv, \/ Card \/ IntrStart \/ NetRxOther \/ Drop \/ Refill \/ RefillFails
               \/ RecvDone \/ RecvTail \/ \E a \in Actors : Transmit(a)
  PROVE  SockInv'
<1>1. TypeOK /\ SockInv
  BY DEF IInv, SockInv
<1>2. UNCHANGED <<freesocks, socks, slock, fds, si>>
  BY DEF Card, Send, Receive, IntrStart, NetRxOther, Drop, Refill, RefillFails, Panic, RecvDone,
         RecvTail, Transmit, locks, procs
<1>3. \A p \in Procs : \/ pc'[p] = pc[p]
                       \/ {pc[p], pc'[p]} \subseteq {"idle", "transmit", "copyout"}
  <2>1. pc \in [Actors -> PCs]
    BY <1>1, TypeParts DEF PcOK
  <2>2. CASE \E a \in Actors : Transmit(a)
    BY <2>1, <2>2, Actor DEF Transmit, At, Goto
  <2>3. CASE Card \/ RefillFails
    BY <2>3 DEF Card, Send, Receive, RefillFails, Panic
  <2>4. ASSUME NEW l, Goto(intr, l) PROVE \A p \in Procs : pc'[p] = pc[p]
    BY <2>1, <2>4, Actor DEF Goto
  <2> QED
    BY <2>2, <2>3, <2>4 DEF IntrStart, NetRxOther, Drop, Refill, RecvDone, RecvTail
<1> QED
  BY <1>1, <1>2, <1>3, QuietSocks

(* Those of a process that has a packet in hand or fails.                  *)
LEMMA HandSocks ==
  ASSUME IInv, NEW p \in Procs,
         \/ ReadDone(p) \/ Write(p) \/ \E a \in Addrs : ConnectAgain(p, a)
  PROVE  SockInv'
<1>1. TypeOK /\ SockInv /\ pc \in [Actors -> PCs]
  BY TypeParts DEF IInv, SockInv, PcOK
<1>2. UNCHANGED <<freesocks, socks, slock, fds, si>>
  BY DEF ReadDone, Write, ConnectAgain, Panic, locks, procs
<1>3. \A q \in Procs : \/ pc'[q] = pc[q]
                       \/ {pc[q], pc'[q]} \subseteq {"idle", "transmit", "copyout"}
  BY <1>1, Actor DEF ReadDone, Write, ConnectAgain, Panic, At, Goto
<1> QED
  BY <1>1, <1>2, <1>3, QuietSocks

(* sockrecvudp() finds a socket. *)
LEMMA NetRxUdpSocks == ASSUME IInv, NetRxUdp PROVE SockInv'
<1>1. /\ UNCHANGED <<freesocks, socks, slock, fds>>
      /\ \A p \in Procs : pc'[p] = pc[p] /\ si'[p] = si[p]
      /\ si'[intr] \in {si[intr]} \cup sockets
  BY Actor DEF NetRxUdp, procs, Goto, WorksOn, IInv, TypeOK, Matching
<1>2. CallInv'
  BY <1>1 DEF IInv, CallInv, Reading, Closing, socks
<1>3. ListInv' /\ SleepInv'
  <2>1. \A s \in Socks : slock[s] # None => slock[s] \in Procs
    BY DEF IInv, TypeOK
  <2> QED
    BY <1>1, <2>1 DEF IInv, ListInv, SleepInv, socks
<1>4. SocketsOutliveUse'
  <2>1. ASSUME NEW s \in Socks
        PROVE  s \in sockets \/ ((\A a \in Actors : si'[a] # s) <=> \A a \in Actors : si[a] # s)
    <3>1. si[intr] = None
      BY DEF IInv, IntrInv, NetRxUdp, At
    <3> QED
      BY <1>1, <3>1, Actor
  <2> QED
    BY <1>1, <2>1 DEF IInv, SocketsOutliveUse, socks
<1> QED
  BY <1>2, <1>3, <1>4 DEF SockInv

(* mbufq_pushtail(), and the readers of the socket wake. *)
LEMMA PushSocks == ASSUME IInv, Push PROVE SockInv'
<1> DEFINE s0 == si[intr]
<1>1. s0 \in sockets /\ s0 \in Socks /\ slock[s0] = None
  BY DEF Push, At, IInv, IntrInv, Matching, TypeOK
<1>2. /\ UNCHANGED <<freesocks, sockets, addr, slock, fds>>
      /\ \A p \in Procs : /\ si'[p] = si[p]
                          /\ pc'[p] = IF pc[p] = "asleep" /\ si[p] = s0 THEN "read" ELSE pc[p]
      /\ si'[intr] = None
      /\ \A s \in Socks \ {s0} : rxq'[s] = rxq[s]
  BY Actor DEF Push, procs, WorksOn, IInv, TypeOK
<1> HIDE DEF s0
<1>3. CallInv'
  BY <1>2 DEF IInv, CallInv, Reading, Closing
<1>4. ListInv'
  BY <1>1, <1>2 DEF IInv, ListInv
<1>5. SleepInv'
  <2>1. \A s \in Socks : slock[s] # None => slock[s] \in Procs
    BY DEF IInv, TypeOK
  <2>2. \A p \in Procs : pc[p] \in {"sleep", "asleep"} => si[p] \in Socks
    BY DEF IInv, TypeOK, CallInv, Reading
  <2>3. \A s \in Socks : slock'[s] # None => pc'[slock'[s]] = "sleep" /\ si'[slock'[s]] = s
    BY <1>2, <2>1 DEF IInv, SleepInv
  <2>4. ASSUME NEW p \in Procs
        PROVE  /\ pc'[p] = "sleep" => slock'[si'[p]] = p
               /\ pc'[p] \in {"sleep", "asleep"} => rxq'[si'[p]] = <<>>
    <3>1. pc'[p] = "sleep" => slock'[si'[p]] = p /\ si[p] # s0
      BY <1>1, <1>2, Actor DEF IInv, SleepInv
    <3>2. pc'[p] \in {"sleep", "asleep"} => pc[p] \in {"sleep", "asleep"} /\ si[p] # s0
      BY <1>2, <3>1
    <3> QED
      BY <1>2, <2>2, <3>1, <3>2 DEF IInv, SleepInv
  <2> QED
    BY <2>3, <2>4 DEF SleepInv
<1>6. SocketsOutliveUse'
  <2>1. ASSUME NEW s \in Socks
        PROVE  s \in sockets \/ ((\A a \in Actors : si'[a] # s) <=> \A a \in Actors : si[a] # s)
    BY <1>1, <1>2, Actor DEF s0
  <2> QED
    BY <1>2, <2>1 DEF IInv, SocketsOutliveUse
<1> QED
  BY <1>3, <1>4, <1>5, <1>6 DEF SockInv

(* connect() *)
LEMMA ConnectSocks ==
  ASSUME IInv, NEW p \in Procs, NEW a \in Addrs, Connect(p, a) PROVE SockInv'
<1>1. PICK s \in freesocks : /\ freesocks' = freesocks \ {s}
                             /\ sockets' = sockets \cup {s}
                             /\ addr' = [addr EXCEPT ![s] = a]
                             /\ fds' = [fds EXCEPT ![p] = @ \cup {s}]
  BY DEF Connect
<1>2. UNCHANGED <<rxq, slock, pc, si>> /\ pc[p] = "idle" /\ Matching(a) = {}
  BY DEF Connect, locks, At
<1>3. /\ s \in Socks /\ s \notin sockets /\ \A q \in Procs : s \notin fds[q]
      /\ \A b \in Actors : si[b] # s
  BY DEF IInv, TypeOK, SocketsOutliveUse
<1>4. /\ \A q \in Procs : fds'[q] = IF q = p THEN fds[q] \cup {s} ELSE fds[q]
      /\ \A t \in Socks : addr'[t] = IF t = s THEN a ELSE addr[t]
      /\ sockets \subseteq Socks
  BY <1>1, <1>3 DEF IInv, TypeOK
<1>5. CallInv'
  <2>1. \A q \in Procs : si[q] # s
    BY <1>3, Actor
  <2> QED
    BY <1>1, <1>2, <1>3, <1>4, <2>1 DEF IInv, CallInv, Reading, Closing
<1>6. ListInv'
  <2>1. \A t \in sockets : addr[t] # a
    BY <1>2 DEF Matching
  <2> QED
    BY <1>1, <1>2, <1>3, <1>4, <2>1 DEF IInv, ListInv
<1>7. SleepInv'
  BY <1>2 DEF IInv, SleepInv
<1>8. SocketsOutliveUse'
  BY <1>1, <1>2, <1>3, <1>4 DEF IInv, SocketsOutliveUse
<1> QED
  BY <1>5, <1>6, <1>7, <1>8 DEF SockInv

(* fork() *)
LEMMA ForkSocks ==
  ASSUME IInv, NEW p \in Procs, NEW q \in Procs, Fork(p, q) PROVE SockInv'
<1>1. /\ UNCHANGED <<freesocks, sockets, addr, rxq, slock, pc, si>>
      /\ fds' = [fds EXCEPT ![q] = fds[p]] /\ fds[q] = {} /\ pc[q] = "idle"
  BY DEF Fork, locks, socks, At
<1>2. \A r \in Procs : fds'[r] = IF r = q THEN fds[p] ELSE fds[r]
  BY <1>1 DEF IInv, TypeOK
<1>3. CallInv'
  BY <1>1, <1>2 DEF IInv, CallInv, Reading, Closing
<1>4. ListInv' /\ SleepInv'
  BY <1>1 DEF IInv, ListInv, SleepInv
<1>5. SocketsOutliveUse'
  BY <1>1, <1>2 DEF IInv, SocketsOutliveUse
<1> QED
  BY <1>3, <1>4, <1>5 DEF SockInv

(* close(): the last descriptor starts sockclose(). *)
LEMMA CloseSocks ==
  ASSUME IInv, NEW p \in Procs, NEW s \in Socks, Close(p, s) PROVE SockInv'
<1>1. /\ UNCHANGED <<freesocks, sockets, addr, rxq, slock>>
      /\ fds' = [fds EXCEPT ![p] = @ \ {s}] /\ s \in fds[p] /\ pc[p] = "idle"
  BY DEF Close, locks, socks, At
<1>2. /\ \A q \in Procs : fds'[q] = IF q = p THEN fds[q] \ {s} ELSE fds[q]
      /\ s \in sockets /\ si[p] = None
  BY <1>1 DEF IInv, TypeOK, CallInv, Reading, Closing
<1>3. CASE \E q \in Procs \ {p} : s \in fds[q]
  <2>1. UNCHANGED <<pc, si>>
    BY <1>3 DEF Close
  <2>2. CallInv'
    BY <1>1, <1>2, <2>1 DEF IInv, CallInv, Reading, Closing
  <2>3. ListInv' /\ SleepInv'
    BY <1>1, <2>1 DEF IInv, ListInv, SleepInv
  <2>4. SocketsOutliveUse'
    BY <1>1, <1>2, <1>3, <2>1 DEF IInv, SocketsOutliveUse
  <2> QED
    BY <2>2, <2>3, <2>4 DEF SockInv
<1>4. CASE \A q \in Procs \ {p} : s \notin fds[q]
  <2>1. Goto(p, "unlink") /\ WorksOn(p, s)
    BY <1>4 DEF Close
  <2>2. /\ \A b \in Actors : /\ pc'[b] = IF b = p THEN "unlink" ELSE pc[b]
                             /\ si'[b] = IF b = p THEN s ELSE si[b]
    BY <2>1 DEF Goto, WorksOn, IInv, TypeOK
  <2>3. \A q \in Procs : si[q] # s
    <3>1. ASSUME NEW q \in Procs, si[q] = s PROVE FALSE
      <4>1. s \notin fds[q] /\ s # None
        BY <1>1, <1>2, <1>4, <3>1, Actor
      <4>2. pc[q] \in Closing
        BY <3>1, <4>1 DEF IInv, CallInv
      <4> QED
        BY <1>1, <3>1, <4>2 DEF IInv, CallInv
    <3> QED
      BY <3>1
  <2>4. CallInv'
    <3> SUFFICES ASSUME NEW q \in Procs
                 PROVE  /\ pc'[q] \notin {"recv", "push", "drop", "refill", "tail"}
                        /\ pc'[q] \in Reading => si'[q] \in fds'[q]
                        /\ pc'[q] \in Closing =>
                             /\ si'[q] \in Socks
                             /\ \A r \in Procs : /\ si'[q] \notin fds'[r]
                                                 /\ si'[r] = si'[q] => r = q
                        /\ pc'[q] = "unlink" => si'[q] \in sockets'
                        /\ pc'[q] = "drain" => si'[q] \notin sockets'
                        /\ pc'[q] \notin Reading \cup Closing => si'[q] = None
                        /\ fds'[q] \subseteq sockets'
      BY DEF CallInv
    <3>1. CASE q = p
      BY <1>1, <1>2, <1>4, <2>2, <2>3, <3>1, Actor DEF IInv, CallInv, Reading, Closing
    <3>2. CASE q # p
      BY <1>1, <1>2, <2>2, <2>3, <3>2, Actor DEF IInv, CallInv, Closing
    <3> QED
      BY <3>1, <3>2
  <2>5. ListInv'
    BY <1>1, <2>2, Actor DEF IInv, ListInv
  <2>6. SleepInv'
    <3>1. \A t \in Socks : slock[t] # None => slock[t] \in Procs
      BY DEF IInv, TypeOK
    <3> QED
      BY <1>1, <2>2, <3>1, Actor DEF IInv, SleepInv
  <2>7. SocketsOutliveUse'
    BY <1>1, <1>2, <2>2, Actor DEF IInv, SocketsOutliveUse
  <2> QED
    BY <2>4, <2>5, <2>6, <2>7 DEF SockInv
<1> QED
  BY <1>3, <1>4

(* sockclose() takes the socket from the list. *)
LEMMA UnlinkSocks == ASSUME IInv, NEW p \in Procs, Unlink(p) PROVE SockInv'
<1>1. /\ UNCHANGED <<freesocks, addr, rxq, slock, fds, si>> /\ lock = None /\ pc[p] = "unlink"
      /\ sockets' = sockets \ {si[p]} /\ si[p] \in sockets /\ si[p] \in Socks
      /\ \A a \in Actors : pc'[a] = IF a = p THEN "drain" ELSE pc[a]
  BY Actor DEF Unlink, locks, procs, At, Goto, IInv, TypeOK, CallInv, Closing
<1>2. \A q \in Procs : si[p] \notin fds[q] /\ (si[q] = si[p] => q = p)
  BY <1>1 DEF IInv, CallInv, Closing
<1>3. CallInv'
  <2>1. CallInv
    BY DEF IInv
  <2> QED
    BY <1>1, <1>2, <2>1, Actor DEF CallInv, Reading, Closing
<1>4. ListInv'
  BY <1>1, Actor DEF IInv, ListInv
<1>5. SleepInv'
  <2>1. \A t \in Socks : slock[t] # None => slock[t] \in Procs
    BY DEF IInv, TypeOK
  <2> QED
    BY <1>1, <2>1, Actor DEF IInv, SleepInv
<1>6. SocketsOutliveUse'
  BY <1>1, Actor DEF IInv, SocketsOutliveUse
<1> QED
  BY <1>3, <1>4, <1>5, <1>6 DEF SockInv

(* sockclose() frees the packets and the socket. *)
LEMMA DrainSocks == ASSUME IInv, NEW p \in Procs, Drain(p) PROVE SockInv'
<1> DEFINE s == si[p]
<1>1. /\ UNCHANGED <<sockets, slock, fds>> /\ pc[p] = "drain"
      /\ s \in Socks /\ s \notin sockets
      /\ freesocks' = freesocks \cup {s}
      /\ \A t \in Socks : /\ rxq'[t] = IF t = s THEN <<>> ELSE rxq[t]
                          /\ addr'[t] = IF t = s THEN None ELSE addr[t]
      /\ \A a \in Actors : /\ pc'[a] = IF a = p THEN "idle" ELSE pc[a]
                           /\ si'[a] = IF a = p THEN None ELSE si[a]
  BY Actor DEF Drain, locks, procs, At, Goto, WorksOn, IInv, TypeOK, CallInv, Closing
<1>2. \A q \in Procs : s \notin fds[q] /\ (si[q] = s => q = p)
  BY <1>1 DEF IInv, CallInv, Closing
<1>3. si[intr] # s
  BY <1>1, Actor DEF IInv, IntrInv, Matching
<1> HIDE DEF s
<1>4. CallInv'
  BY <1>1, <1>2, Actor DEF IInv, CallInv, Reading, Closing
<1>5. ListInv'
  <2>1. sockets \subseteq Socks
    BY DEF IInv, TypeOK
  <2> QED
    BY <1>1, <1>2, <2>1, Actor DEF IInv, ListInv, s
<1>6. SleepInv'
  <2>1. \A t \in Socks : slock[t] # None => slock[t] \in Procs
    BY DEF IInv, TypeOK
  <2>2. \A q \in Procs : pc[q] \in {"sleep", "asleep"} => si[q] \in Socks
    BY DEF IInv, TypeOK, CallInv, Reading
  <2> QED
    BY <1>1, <2>1, <2>2, Actor DEF IInv, SleepInv
<1>7. SocketsOutliveUse'
  BY <1>1, <1>2, <1>3, Actor DEF IInv, SocketsOutliveUse, s
<1> QED
  BY <1>4, <1>5, <1>6, <1>7 DEF SockInv

(* sockread(), in any of its three outcomes. *)
LEMMA ReadSocks ==
  ASSUME IInv, NEW p \in Procs, NEW s \in Socks, Read(p, s) PROVE SockInv'
<1>1. /\ UNCHANGED <<freesocks, sockets, addr, fds>> /\ s \in fds[p]
      /\ pc[p] \in {"idle", "read"} /\ slock[s] = None
      /\ si[p] \in {None, s}
  BY DEF Read, At, IInv, CallInv, Reading, Closing
<1>2. s \in sockets /\ \A q \in Procs : pc[q] \in Closing => si[q] # s
  BY <1>1 DEF IInv, CallInv
<1>3. \E l \in {"idle", "copyout", "sleep"} :
        \A b \in Actors : /\ pc'[b] = IF b = p THEN l ELSE pc[b]
                          /\ si'[b] = IF b = p THEN (IF l = "sleep" THEN s ELSE None) ELSE si[b]
  BY Actor DEF Read, Goto, WorksOn, IInv, TypeOK
<1>4. /\ pc'[p] = "sleep" => slock' = [slock EXCEPT ![s] = p] /\ rxq' = rxq /\ rxq[s] = <<>>
      /\ pc'[p] # "sleep" => slock' = slock
      /\ \A t \in Socks \ {s} : rxq'[t] = rxq[t]
      /\ rxq[s] = <<>> => rxq' = rxq
  BY <1>1, Actor DEF Read, Goto, IInv, TypeOK
<1>5. CallInv'
  BY <1>1, <1>2, <1>3, Actor DEF IInv, CallInv, Reading, Closing
<1>6. ListInv'
  BY <1>1, <1>2, <1>3, <1>4, Actor DEF IInv, ListInv
<1>7. SleepInv'
  <2>1. \A t \in Socks : slock[t] # None => slock[t] \in Procs /\ slock[t] # p
    BY <1>1 DEF IInv, TypeOK, SleepInv
  <2>2. \A q \in Procs : pc[q] \in {"sleep", "asleep"} => si[q] \in Socks /\ rxq[si[q]] = <<>>
    BY DEF IInv, TypeOK, CallInv, Reading, SleepInv
  <2>3. \A t \in Socks : slock'[t] = IF t = s /\ pc'[p] = "sleep" THEN p ELSE slock[t]
    BY <1>4 DEF IInv, TypeOK
  <2>4. \A t \in Socks : slock'[t] # None => pc'[slock'[t]] = "sleep" /\ si'[slock'[t]] = t
    BY <1>3, <2>1, <2>3, Actor DEF IInv, SleepInv
  <2>5. ASSUME NEW q \in Procs
        PROVE  /\ pc'[q] = "sleep" => slock'[si'[q]] = q
               /\ pc'[q] \in {"sleep", "asleep"} => rxq'[si'[q]] = <<>>
    <3>1. CASE q = p
      BY <1>3, <1>4, <2>3, <3>1, Actor
    <3>2. CASE q # p
      <4>1. pc'[q] = pc[q] /\ si'[q] = si[q]
        BY <1>3, <3>2, Actor
      <4>2. pc[q] = "sleep" => slock[si[q]] = q /\ q # None
        BY Actor DEF IInv, SleepInv
      <4>3. pc[q] = "sleep" => slock'[si[q]] = q
        BY <1>1, <2>2, <2>3, <4>2
      <4>4. pc[q] \in {"sleep", "asleep"} => rxq'[si[q]] = <<>>
        BY <1>4, <2>2
      <4> QED
        BY <4>1, <4>3, <4>4
    <3> QED
      BY <3>1, <3>2
  <2> QED
    BY <2>4, <2>5 DEF SleepInv
<1>8. SocketsOutliveUse'
  BY <1>1, <1>2, <1>3, Actor DEF IInv, SocketsOutliveUse
<1> QED
  BY <1>5, <1>6, <1>7, <1>8 DEF SockInv

(* sleep() lets go of the lock. *)
LEMMA SleepSocks == ASSUME IInv, NEW p \in Procs, Sleep(p) PROVE SockInv'
<1>1. /\ UNCHANGED <<freesocks, sockets, addr, rxq, fds, si>> /\ pc[p] = "sleep"
      /\ si[p] \in Socks /\ rxq[si[p]] = <<>>
      /\ \A t \in Socks : slock'[t] = IF t = si[p] THEN None ELSE slock[t]
      /\ \A b \in Actors : pc'[b] = IF b = p THEN "asleep" ELSE pc[b]
  BY Actor DEF Sleep, socks, procs, At, Goto, IInv, TypeOK, CallInv, Reading, SleepInv
<1>2. CallInv'
  BY <1>1, Actor DEF IInv, CallInv, Reading, Closing
<1>3. ListInv'
  BY <1>1, Actor DEF IInv, ListInv
<1>4. SleepInv'
  <2>1. \A t \in Socks : slock[t] # None => slock[t] \in Procs
    BY DEF IInv, TypeOK
  <2>2. \A q \in Procs : pc[q] \in {"sleep", "asleep"} => si[q] \in Socks
    BY DEF IInv, TypeOK, CallInv, Reading
  <2> QED
    BY <1>1, <2>1, <2>2, Actor DEF IInv, SleepInv
<1>5. SocketsOutliveUse'
  BY <1>1 DEF IInv, SocketsOutliveUse
<1> QED
  BY <1>2, <1>3, <1>4, <1>5 DEF SockInv

(* kill() *)
LEMMA KillSocks == ASSUME IInv, NEW p \in Procs, Kill(p) PROVE SockInv'
<1>1. /\ UNCHANGED <<freesocks, sockets, addr, rxq, slock, fds, si>>
      /\ pc[p] \in {"read", "sleep", "asleep"}
      /\ \A b \in Actors : pc'[b] = IF b = p /\ pc[b] = "asleep" THEN "read" ELSE pc[b]
  BY Actor DEF Kill, socks, locks, IInv, TypeOK
<1>2. CallInv'
  BY <1>1, Actor DEF IInv, CallInv, Reading, Closing
<1>3. ListInv'
  BY <1>1, Actor DEF IInv, ListInv
<1>4. SleepInv'
  <2>1. \A t \in Socks : slock[t] # None => slock[t] \in Procs
    BY DEF IInv, TypeOK
  <2> QED
    BY <1>1, <2>1, Actor DEF IInv, SleepInv
<1>5. SocketsOutliveUse'
  BY <1>1 DEF IInv, SocketsOutliveUse
<1> QED
  BY <1>2, <1>3, <1>4, <1>5 DEF SockInv

LEMMA NextSocks == IInv /\ [Next]_vars => SockInv'
<1> SUFFICES ASSUME IInv, [Next]_vars PROVE SockInv'
  OBVIOUS
<1>1. CASE UNCHANGED vars
  <2>1. UNCHANGED <<freesocks, socks, slock, fds, si, pc>>
    BY <1>1 DEF vars, locks, procs
  <2> QED
    BY <2>1, QuietSocks DEF IInv, SockInv
<1>2. CASE IntrStep
  BY <1>2, CardSocks, NetRxUdpSocks, PushSocks DEF IntrStep
<1>3. ASSUME NEW p \in Procs, ProcStep(p) PROVE SockInv'
  BY <1>3, HandSocks, ConnectSocks, ForkSocks, CloseSocks, UnlinkSocks, DrainSocks, ReadSocks,
     SleepSocks, KillSocks DEF ProcStep
<1> QED
  BY <1>1, <1>2, <1>3, CardSocks DEF Next

-----------------------------------------------------------------------------
(* The receive ring.                                                       *)

(* How far a place is ahead of another. *)
LEMMA Distance ==
  ASSUME NEW m \in Nat \ {0}, NEW k \in 0..(m - 1), NEW b \in 0..(m - 1)
  PROVE  (k + m - b) % m = IF k >= b THEN k - b ELSE k + m - b
<1>1. ASSUME NEW x, x = k + m - b
      PROVE  x % m = IF k >= b THEN k - b ELSE k + m - b
  <2>1. x \in 0..(2 * m - 1)
    BY <1>1
  <2>2. x % m = IF x < m THEN x ELSE x - m
    BY <2>1, Round
  <2> QED
    BY <1>1, <2>2
<1> QED
  BY <1>1

LEMMA AheadIs ==
  ASSUME NEW k \in RX, NEW b \in RX
  PROVE  (k + RX_RING_SIZE - b) % RX_RING_SIZE = IF k >= b THEN k - b ELSE k + RX_RING_SIZE - b
<1>1. RX_RING_SIZE \in Nat \ {0} /\ RX = 0..(RX_RING_SIZE - 1)
  BY Sizes DEF RX
<1> QED
  BY <1>1, Distance

LEMMA BaseType == TypeOK => Base \in RX
BY NextRX DEF TypeOK, Base

(* The step of e1000_recv() from one state of the handler to another, and  *)
(* the steps of the others, leave the ring alone.                          *)
LEMMA QuietRing ==
  ASSUME TypeOK, RingInv, UNCHANGED <<dd, rdh, rdt, icr, curr>>,
         pc'[intr] = "idle" <=> pc[intr] = "idle",
         pc'[intr] \in Delivering => pc[intr] \in Delivering \/ dd[curr],
         pc'[intr] = "tail" => pc[intr] = "tail" \/ ~dd[curr]
  PROVE  RingInv'
<1>1. Base' = Base
  BY DEF Base
<1>2. /\ \A k \in RX : Ahead(k)' = Ahead(k)
      /\ Ahead(rdh)' = Ahead(rdh) /\ Ahead(rdt)' = Ahead(rdt)
  BY <1>1 DEF Ahead
<1>3. NoPacketIsStranded'
  <2>1. CASE pc'[intr] = "tail" /\ ~dd[curr]
    <3>1. Base = curr /\ curr \in RX /\ rdh \in RX
      BY <2>1 DEF Base, TypeOK
    <3>2. Ahead(curr) = 0 /\ Ahead(rdh) \in Nat
      BY <3>1, AheadIs, Sizes DEF Ahead, RX
    <3>3. Ahead(rdh) = 0
      BY <2>1, <3>1, <3>2 DEF RingInv
    <3>4. \A k \in RX : Ahead(k) \in Nat
      BY <3>1, AheadIs, Sizes DEF Ahead, RX
    <3>5. \A k \in RX : ~dd[k]
      BY <3>3, <3>4 DEF RingInv
    <3> QED
      BY <3>5 DEF NoPacketIsStranded
  <2>2. CASE ~(pc'[intr] = "tail" /\ ~dd[curr])
    BY <2>2 DEF RingInv, NoPacketIsStranded
  <2> QED
    BY <2>1, <2>2
<1> QED
  BY <1>2, <1>3 DEF RingInv

(* A packet arrives, in the descriptor after those that are filled. *)
LEMMA ReceiveRing ==
  ASSUME TypeOK, RingInv, NEW pk \in Packets, Receive(pk)
  PROVE  RingInv' /\ Ahead(rdh)' = Ahead(rdh) + 1
<1>1. /\ rdh # rdt /\ UNCHANGED <<rdt, curr, pc>> /\ icr'
      /\ rdh \in RX /\ rdt \in RX
      /\ rdh' = (rdh + 1) % RX_RING_SIZE
      /\ \A k \in RX : dd'[k] = IF k = rdh THEN TRUE ELSE dd[k]
  BY DEF Receive, TypeOK
<1>2. PICK b \in RX : b = Base /\ b = Base'
  BY <1>1, BaseType DEF Base
<1>3. \A k \in RX : Ahead(k) = (IF k >= b THEN k - b ELSE k + RX_RING_SIZE - b)
  BY <1>2, AheadIs DEF Ahead
<1>4. /\ \A k \in RX : Ahead(k)' = Ahead(k)
      /\ Ahead(rdh)' = (rdh' + RX_RING_SIZE - b) % RX_RING_SIZE /\ Ahead(rdt)' = Ahead(rdt)
  BY <1>1, <1>2 DEF Ahead
<1>5. rdh' \in RX /\ rdh' = IF rdh + 1 = RX_RING_SIZE THEN 0 ELSE rdh + 1
  BY <1>1, NextRX
<1>6. Ahead(rdh)' = IF rdh' >= b THEN rdh' - b ELSE rdh' + RX_RING_SIZE - b
  BY <1>4, <1>5, AheadIs
<1>7. Ahead(rdh) <= Ahead(rdt)
  BY DEF RingInv
<1>8. Ahead(rdh)' = Ahead(rdh) + 1 /\ Ahead(rdh) \in Nat
  BY <1>1, <1>3, <1>5, <1>6, <1>7, Sizes DEF RX
<1>9. Ahead(rdh)' <= Ahead(rdt)'
  BY <1>1, <1>3, <1>4, <1>7, <1>8, Sizes DEF RX
<1>10. \A k \in RX : /\ Ahead(k) < Ahead(rdh) + 1 <=> Ahead(k) < Ahead(rdh) \/ k = rdh
                     /\ Ahead(k) \in Nat
  BY <1>1, <1>3, Sizes DEF RX
<1>11. \A k \in RX : dd'[k] <=> Ahead(k)' < Ahead(rdh)'
  BY <1>1, <1>4, <1>8, <1>10 DEF RingInv
<1>12. (pc'[intr] \in Delivering => dd'[curr']) /\ NoPacketIsStranded'
  BY <1>1 DEF RingInv, NoPacketIsStranded, TypeOK
<1> QED
  BY <1>8, <1>9, <1>11, <1>12 DEF RingInv

(* e1000_intr() starts behind the tail. *)
LEMMA IntrStartRing == ASSUME TypeOK, RingInv, IntrStart PROVE RingInv'
<1>1. /\ UNCHANGED <<dd, rdh, rdt>> /\ pc[intr] = "idle" /\ pc'[intr] = "recv"
      /\ curr' = (rdt + 1) % RX_RING_SIZE
  BY Actor DEF IntrStart, At, Goto, TypeOK
<1>2. Base' = Base
  BY <1>1 DEF Base
<1>3. /\ \A k \in RX : Ahead(k)' = Ahead(k)
      /\ Ahead(rdh)' = Ahead(rdh) /\ Ahead(rdt)' = Ahead(rdt)
  BY <1>1, <1>2 DEF Ahead
<1> QED
  BY <1>1, <1>3 DEF RingInv, NoPacketIsStranded, Delivering

(* A descriptor gets a new mbuf, and the next is looked at. *)
LEMMA RefillRing ==
  ASSUME TypeOK, RingInv, Refill
  PROVE  RingInv' /\ Ahead(rdh)' = Ahead(rdh) - 1
<1>1. /\ UNCHANGED <<rdh, rdt>> /\ pc[intr] = "refill" /\ pc'[intr] = "recv"
      /\ curr \in RX /\ rdh \in RX /\ rdt \in RX /\ dd[curr]
      /\ curr' = (curr + 1) % RX_RING_SIZE
      /\ \A k \in RX : dd'[k] = IF k = curr THEN FALSE ELSE dd[k]
  BY Actor DEF Refill, At, Goto, TypeOK, RingInv, Delivering
<1>2. PICK b, c : b = curr /\ c = curr'
  OBVIOUS
<1>3. /\ b \in RX /\ c \in RX /\ c = IF b + 1 = RX_RING_SIZE THEN 0 ELSE b + 1
  BY <1>1, <1>2, NextRX
<1>4. Base = b /\ Base' = c
  BY <1>1, <1>2 DEF Base
<1>5. /\ \A k \in RX : /\ Ahead(k) = IF k >= b THEN k - b ELSE k + RX_RING_SIZE - b
                       /\ Ahead(k)' = IF k >= c THEN k - c ELSE k + RX_RING_SIZE - c
      /\ Ahead(rdh)' = IF rdh >= c THEN rdh - c ELSE rdh + RX_RING_SIZE - c
      /\ Ahead(rdt)' = IF rdt >= c THEN rdt - c ELSE rdt + RX_RING_SIZE - c
  BY <1>1, <1>3, <1>4, AheadIs DEF Ahead
<1>6. \A k \in RX : /\ Ahead(k) \in Nat /\ (Ahead(k) = 0 <=> k = b)
                    /\ k # b => Ahead(k)' = Ahead(k) - 1
                    /\ k = b => Ahead(k)' = RX_RING_SIZE - 1
                    /\ Ahead(k) < RX_RING_SIZE
  BY <1>3, <1>5, Sizes DEF RX
<1>7. Ahead(b) < Ahead(rdh) /\ Ahead(rdh) <= Ahead(rdt)
  BY <1>1, <1>2 DEF RingInv
<1>8. rdh # b /\ rdt # b
  BY <1>1, <1>3, <1>6, <1>7
<1>9. Ahead(rdh)' = Ahead(rdh) - 1 /\ Ahead(rdt)' = Ahead(rdt) - 1
  BY <1>1, <1>3, <1>5, <1>8, Sizes DEF RX
<1>10. Ahead(rdh)' <= Ahead(rdt)'
  BY <1>1, <1>6, <1>7, <1>9
<1>11. \A k \in RX : dd'[k] <=> Ahead(k)' < Ahead(rdh)'
  <2> TAKE k \in RX
  <2>1. CASE k = b
    <3>1. ~dd'[k]
      BY <1>1, <1>2, <2>1
    <3>2. ~(Ahead(k)' < Ahead(rdh)')
      BY <1>1, <1>6, <1>9, <2>1, Sizes
    <3> QED
      BY <3>1, <3>2
  <2>2. CASE k # b
    <3>1. dd'[k] <=> Ahead(k) < Ahead(rdh)
      BY <1>1, <1>2, <2>2 DEF RingInv
    <3> QED
      BY <1>1, <1>6, <1>9, <2>2, <3>1
  <2> QED
    BY <2>1, <2>2
<1> QED
  BY <1>1, <1>9, <1>10, <1>11 DEF RingInv, NoPacketIsStranded, Delivering

(* The tail moves to the last descriptor that was refilled. *)
LEMMA RecvTailRing == ASSUME TypeOK, RingInv, RecvTail PROVE RingInv'
<1>1. /\ UNCHANGED <<dd, rdh, icr>> /\ pc[intr] = "tail" /\ pc'[intr] = "idle"
      /\ curr \in RX /\ rdh \in RX
      /\ rdt' = (curr + RX_RING_SIZE - 1) % RX_RING_SIZE
  BY Actor DEF RecvTail, At, Goto, TypeOK
<1>2. PICK b, t : b = curr /\ t = rdt'
  OBVIOUS
<1>3. b \in RX /\ t \in RX /\ t = IF b = 0 THEN RX_RING_SIZE - 1 ELSE b - 1
  BY <1>1, <1>2, NextRX
<1>4. (t + 1) % RX_RING_SIZE = b
  BY <1>3, NextRX, Sizes DEF RX
<1>5. Base = b /\ Base' = b
  BY <1>1, <1>2, <1>4 DEF Base
<1>6. /\ \A k \in RX : Ahead(k)' = Ahead(k) /\ Ahead(k) \in 0..(RX_RING_SIZE - 1)
      /\ Ahead(rdh)' = Ahead(rdh)
      /\ Ahead(rdt)' = RX_RING_SIZE - 1
  <2>1. /\ \A k \in RX : Ahead(k) = IF k >= b THEN k - b ELSE k + RX_RING_SIZE - b
        /\ Ahead(rdt)' = IF t >= b THEN t - b ELSE t + RX_RING_SIZE - b
    BY <1>2, <1>3, <1>5, AheadIs DEF Ahead
  <2>2. (\A k \in RX : Ahead(k)' = Ahead(k)) /\ Ahead(rdh)' = Ahead(rdh)
    BY <1>1, <1>5 DEF Ahead
  <2>3. (\A k \in RX : Ahead(k) \in 0..(RX_RING_SIZE - 1)) /\ Ahead(rdt)' = RX_RING_SIZE - 1
    BY <1>3, <2>1, Sizes DEF RX
  <2> QED
    BY <2>2, <2>3
<1>7. Ahead(rdh)' <= Ahead(rdt)'
  BY <1>1, <1>6, Sizes
<1> QED
  BY <1>1, <1>6, <1>7 DEF RingInv, NoPacketIsStranded, Delivering

(* The processes leave the ring and its handler alone. *)
LEMMA ProcsKeepRing ==
  ASSUME IInv, NEW p \in Procs, ProcStep(p) \/ Transmit(p)
  PROVE  UNCHANGED <<rxring, lock>> /\ pc'[intr] = pc[intr] /\ si'[intr] = si[intr]
<1>1. intr # p /\ pc[intr] # "asleep" /\ pc \in [Actors -> PCs] /\ si \in [Actors -> Socks \cup {None}]
  BY Actor, TypeParts DEF IInv, IntrInv, Reading, PcOK, HandOK
<1>2. /\ \A l : Goto(p, l) => pc'[intr] = pc[intr]
      /\ \A s : WorksOn(p, s) => si'[intr] = si[intr]
  BY <1>1, Actor DEF Goto, WorksOn
<1>3. UNCHANGED <<rxring, lock>>
  BY DEF ProcStep, Connect, ConnectAgain, Panic, Fork, Close, Read,
     Unlink, Drain, Sleep, ReadDone, Write, Kill, Transmit, locks
<1>4. pc'[intr] = pc[intr]
  BY <1>1, <1>2, Actor DEF ProcStep, Connect, ConnectAgain, Panic, Fork, Close, Read,
     Unlink, Drain, Sleep, ReadDone, Write, Kill, Transmit
<1>5. si'[intr] = si[intr]
  BY <1>2 DEF ProcStep, Connect, ConnectAgain, Panic, Fork, Close, Read,
     Unlink, Drain, Sleep, ReadDone, Write, Kill, Transmit
<1> QED
  BY <1>3, <1>4, <1>5

LEMMA NextRing == IInv /\ [Next]_vars => RingInv'
<1> SUFFICES ASSUME IInv, [Next]_vars PROVE RingInv'
  OBVIOUS
<1>1. TypeOK /\ RingInv
  BY DEF IInv
<1>2. CASE UNCHANGED <<dd, rdh, rdt, icr, curr>> /\ pc'[intr] = pc[intr]
  BY <1>1, <1>2, QuietRing
<1>3. CASE NetRxOther \/ NetRxUdp \/ Push \/ Drop \/ RecvDone \/ Transmit(intr)
  <2>1. UNCHANGED <<dd, rdh, rdt, icr, curr>>
    BY <1>3 DEF NetRxOther, NetRxUdp, Push, Drop, RecvDone, Transmit, rxring
  <2>2. /\ pc[intr] # "idle" /\ pc'[intr] # "idle"
        /\ pc'[intr] \in Delivering => pc[intr] \in Delivering \/ dd[curr]
        /\ pc'[intr] = "tail" => ~dd[curr]
    BY <1>1, <1>3, Actor DEF NetRxOther, NetRxUdp, Push, Drop, RecvDone, Transmit, At, Goto,
       Delivering, TypeOK
  <2> QED
    BY <1>1, <2>1, <2>2, QuietRing
<1>4. ASSUME NEW p \in Procs, ProcStep(p) \/ Transmit(p)
      PROVE  UNCHANGED rxring /\ pc'[intr] = pc[intr]
  BY <1>4, ProcsKeepRing
<1>5. CASE Send \/ RefillFails \/ UNCHANGED vars
  <2>1. UNCHANGED rxring /\ pc'[intr] = pc[intr]
    BY <1>5 DEF Send, RefillFails, Panic, vars
  <2> QED
    BY <1>2, <2>1 DEF rxring
<1> QED
  BY <1>1, <1>2, <1>3, <1>4, <1>5, ReceiveRing, IntrStartRing, RefillRing, RecvTailRing, Actor
     DEF Next, Card, IntrStep, rxring

-----------------------------------------------------------------------------
(* Which descriptors have an mbuf. *)
LEMMA NextDesc == IInv /\ [Next]_vars => DescInv'
<1> SUFFICES ASSUME IInv, [Next]_vars PROVE DescInv'
  OBVIOUS
<1>1. TypeOK /\ RingInv /\ DescInv /\ curr \in RX
  BY DEF IInv, TypeOK
<1>2. CASE UNCHANGED <<rx_mbufs, dd, curr>> /\ pc'[intr] = pc[intr]
  BY <1>1, <1>2 DEF DescInv, Received
<1>3. ASSUME NEW pk \in Packets, Receive(pk) PROVE DescInv'
  <2>1. /\ UNCHANGED <<curr, pc>> /\ rdh \in RX
        /\ \A k \in RX : /\ rx_mbufs'[k] = IF k = rdh THEN pk ELSE rx_mbufs[k]
                         /\ dd'[k] = IF k = rdh THEN TRUE ELSE dd[k]
    BY <1>1, <1>3 DEF Receive, TypeOK
  <2>2. ~dd[rdh]
    <3>1. Ahead(rdh) \in Nat
      BY <1>1, <2>1, BaseType, AheadIs, Sizes DEF Ahead, RX
    <3> QED
      BY <1>1, <2>1, <3>1 DEF RingInv
  <2>3. pc[intr] \in Delivering => rdh # curr
    BY <1>1, <2>2 DEF RingInv
  <2> QED
    BY <1>1, <2>1, <2>3, NoPacket DEF DescInv, Received, Delivering
<1>4. CASE IntrStart \/ NetRxOther \/ NetRxUdp \/ RecvDone \/ RecvTail \/ Transmit(intr)
  <2>1. UNCHANGED <<rx_mbufs, dd>>
    BY <1>4 DEF IntrStart, NetRxOther, NetRxUdp, RecvDone, RecvTail, Transmit, rxring
  <2>2. /\ pc[intr] # "refill" /\ pc'[intr] # "refill"
        /\ pc'[intr] = "transmit" => Received.to = "other" /\ curr' = curr
    BY <1>1, <1>4, Actor DEF IntrStart, NetRxOther, NetRxUdp, RecvDone, RecvTail, Transmit, At,
       Goto, TypeOK, rxring
  <2> QED
    BY <1>1, <2>1, <2>2 DEF DescInv, Received
<1>5. CASE Push \/ Drop
  <2>1. /\ UNCHANGED <<dd, curr>> /\ pc[intr] # "refill" /\ pc'[intr] = "refill"
        /\ \A k \in RX : rx_mbufs'[k] = IF k = curr THEN None ELSE rx_mbufs[k]
    BY <1>1, <1>5, Actor DEF Push, Drop, HandOn, At, Goto, TypeOK
  <2> QED
    BY <1>1, <2>1 DEF DescInv
<1>6. CASE Refill
  <2>1. /\ pc[intr] = "refill" /\ pc'[intr] = "recv"
        /\ \A k \in RX : /\ rx_mbufs'[k] = IF k = curr THEN Blank ELSE rx_mbufs[k]
                         /\ dd'[k] = IF k = curr THEN FALSE ELSE dd[k]
    BY <1>1, <1>6, Actor DEF Refill, At, Goto, TypeOK
  <2> QED
    BY <1>1, <2>1, NoPacket DEF DescInv
<1>7. ASSUME NEW p \in Procs, ProcStep(p) \/ Transmit(p)
      PROVE  UNCHANGED rxring /\ pc'[intr] = pc[intr]
  BY <1>7, ProcsKeepRing
<1>8. CASE Send \/ RefillFails \/ UNCHANGED vars
  <2>1. UNCHANGED rxring /\ pc'[intr] = pc[intr]
    BY <1>8 DEF Send, RefillFails, Panic, vars
  <2> QED
    BY <1>2, <2>1 DEF rxring
<1> QED
  BY <1>2, <1>3, <1>4, <1>5, <1>6, <1>7, <1>8, Actor DEF Next, Card, IntrStep, rxring

-----------------------------------------------------------------------------
(* The socket e1000_intr() delivers to stays in the list: it keeps the     *)
(* list's lock.                                                            *)
LEMMA NextIntr == IInv /\ [Next]_vars => IntrInv'
<1> SUFFICES ASSUME IInv, [Next]_vars PROVE IntrInv'
  OBVIOUS
<1>1. TypeOK /\ IntrInv /\ pc[intr] \in PCs /\ intr # None
  BY Actor, TypeParts DEF IInv, PcOK
<1>2. CASE /\ UNCHANGED <<lock, sockets, addr>>
           /\ pc'[intr] = pc[intr] /\ si'[intr] = si[intr]
           /\ pc[intr] = "push" => Received' = Received
  BY <1>1, <1>2 DEF IntrInv, Matching
<1>3. ASSUME NEW pk \in Packets, Receive(pk) PROVE IntrInv'
  <2>1. pc[intr] = "push" => Received' = Received
    <3>1. pc[intr] = "push" => dd[curr] /\ curr \in RX
      BY DEF IInv, TypeOK, RingInv, Delivering
    <3>2. rdh \in RX /\ ~dd[rdh]
      <4>1. rdh \in RX
        BY <1>1 DEF TypeOK
      <4>2. Ahead(rdh) \in Nat
        BY <1>1, <4>1, BaseType, AheadIs, Sizes DEF Ahead, RX
      <4> QED
        BY <4>1, <4>2 DEF IInv, RingInv
    <3>3. rx_mbufs' = [rx_mbufs EXCEPT ![rdh] = pk] /\ curr' = curr
      BY <1>3 DEF Receive
    <3> QED
      BY <1>1, <3>1, <3>2, <3>3 DEF Received, TypeOK
  <2>2. UNCHANGED <<lock, sockets, addr, pc, si>>
    BY <1>3 DEF Receive, locks, socks
  <2> QED
    BY <1>2, <2>1, <2>2
<1>4. CASE Send \/ RefillFails \/ UNCHANGED vars
  <2>1. UNCHANGED <<lock, sockets, addr, rxring, pc, si>>
    BY <1>4 DEF Send, RefillFails, Panic, vars, locks, socks
  <2> QED
    BY <1>2, <2>1 DEF rxring, Received
<1>5. CASE NetRxUdp
  BY <1>1, <1>5, Actor
     DEF NetRxUdp, IntrInv, Matching, Received, socks, rxring, At, Goto, WorksOn, TypeOK,
         Reading, Closing
<1>6. CASE Push
  BY <1>1, <1>6, Actor DEF Push, IntrInv, At, WorksOn, TypeOK, Reading, Closing
<1>7. CASE \/ IntrStart \/ NetRxOther \/ Drop \/ Refill \/ RecvDone \/ RecvTail
           \/ Transmit(intr)
  <2>1. UNCHANGED <<lock, sockets, addr, si>>
    BY <1>7 DEF IntrStart, NetRxOther, Drop, Refill, RecvDone, RecvTail, Transmit, locks, socks
  <2>2. /\ pc[intr] # "push"
        /\ pc'[intr] \in {"idle", "recv", "drop", "transmit", "refill", "tail"}
    BY <1>1, <1>7, Actor DEF IntrStart, NetRxOther, Drop, Refill, RecvDone, RecvTail, Transmit,
       At, Goto, TypeOK
  <2> QED
    BY <1>1, <2>1, <2>2 DEF IntrInv, Reading, Closing
<1>8. ASSUME NEW p \in Procs, ProcStep(p) \/ Transmit(p) PROVE IntrInv'
  <2>1. UNCHANGED <<rxring, lock>> /\ pc'[intr] = pc[intr] /\ si'[intr] = si[intr]
    BY <1>8, ProcsKeepRing
  <2>2. Received' = Received
    BY <2>1 DEF rxring, Received
  <2>3. CASE UNCHANGED <<sockets, addr>>
    BY <1>2, <2>1, <2>2, <2>3
  <2>4. CASE Unlink(p) \/ \E a \in Addrs : Connect(p, a)
    <3>1. lock = None
      BY <2>4 DEF Unlink, Connect
    <3> QED
      BY <1>1, <2>1, <3>1 DEF IntrInv
  <2>5. CASE Drain(p)
    <3>1. sockets' = sockets /\ si[p] \notin sockets /\ addr' = [addr EXCEPT ![si[p]] = None]
      BY <2>5 DEF Drain, At, IInv, CallInv
    <3> QED
      BY <1>1, <2>1, <2>2, <3>1 DEF IntrInv, Matching, TypeOK
  <2> QED
    BY <1>8, <2>3, <2>4, <2>5 DEF ProcStep, ConnectAgain, Panic, Fork, Close, Read, Sleep,
       ReadDone, Write, Kill, Transmit, socks
<1> QED
  BY <1>3, <1>4, <1>5, <1>6, <1>7, <1>8, Actor DEF Next, Card, IntrStep

-----------------------------------------------------------------------------
(* Who has an mbuf in hand. *)
LEMMA NextHand == IInv /\ [Next]_vars => HandInv'
<1> SUFFICES ASSUME IInv, [Next]_vars PROVE HandInv'
  OBVIOUS
<1>1. TypeOK /\ HandInv /\ pc \in [Actors -> PCs] /\ mb \in [Actors -> Packets \cup Frames \cup {None}]
  BY TypeParts DEF IInv, PcOK, HandOK
<1> DEFINE Empty == {"idle", "recv", "push", "drop", "refill", "tail", "unlink", "drain",
                     "read", "sleep", "asleep"}
<1>2. CASE mb' = mb /\ \A a \in Actors : pc'[a] = pc[a] \/ {pc[a], pc'[a]} \subseteq Empty
  BY <1>1, <1>2 DEF HandInv
<1>3. ASSUME NEW a \in Actors, NEW l \in Empty, At(a, l), NEW m \in Empty, Goto(a, m), mb' = mb
      PROVE  HandInv'
  BY <1>1, <1>2, <1>3 DEF At, Goto
<1>4. CASE NetRxOther
  BY <1>1, <1>4, NoPacket, Actor DEF NetRxOther, At, Goto, InHand, HandInv
<1>5. ASSUME NEW a \in Actors, Transmit(a) PROVE HandInv'
  BY <1>1, <1>5 DEF Transmit, At, Goto, InHand, HandInv
<1>6. CASE Push
  BY <1>1, <1>2, <1>6 DEF Push, At
<1>7. ASSUME NEW p \in Procs, NEW s \in Socks, Read(p, s) PROVE HandInv'
  <2>1. rxq[s] # <<>> => Head(rxq[s]) \in Packets
    BY <1>1, HeadTailProperties DEF TypeOK
  <2>2. p \in Actors /\ pc[p] \in {"idle", "read"}
    BY <1>7, Actor DEF Read, At
  <2>3. \/ InHand(p, Head(rxq[s])) /\ rxq[s] # <<>> /\ Goto(p, "copyout")
        \/ mb' = mb /\ (Goto(p, "idle") \/ Goto(p, "sleep"))
    BY <1>7 DEF Read
  <2> QED
    BY <1>1, <2>1, <2>2, <2>3, NoPacket DEF Goto, InHand, HandInv
<1>8. ASSUME NEW p \in Procs, ReadDone(p) \/ Write(p) PROVE HandInv'
  BY <1>1, <1>8, NoPacket, Actor DEF ReadDone, Write, At, Goto, InHand, HandInv
<1>9. ASSUME NEW p \in Procs, Kill(p) PROVE HandInv'
  BY <1>1, <1>2, <1>9, Actor DEF Kill
<1>10. CASE UNCHANGED <<pc, mb>>
  BY <1>2, <1>10
<1>11. CASE IntrStart \/ NetRxUdp \/ Drop \/ Refill \/ RecvDone \/ RecvTail
  <2>1. intr \in Actors /\ {"idle", "recv", "push", "drop", "refill", "tail"} \subseteq Empty
    BY Actor
  <2> HIDE DEF Empty
  <2> QED
    BY <1>3, <1>11, <2>1 DEF IntrStart, NetRxUdp, Drop, Refill, RecvDone, RecvTail
<1>12. ASSUME NEW p \in Procs, NEW s \in Socks, Close(p, s) PROVE HandInv'
  <2>1. p \in Actors /\ {"idle", "unlink"} \subseteq Empty
    BY Actor
  <2> HIDE DEF Empty
  <2> QED
    BY <1>3, <1>10, <1>12, <2>1 DEF Close
<1>13. ASSUME NEW p \in Procs, Unlink(p) \/ Drain(p) \/ Sleep(p) PROVE HandInv'
  <2>1. p \in Actors /\ {"idle", "unlink", "drain", "sleep", "asleep"} \subseteq Empty
    BY Actor
  <2> HIDE DEF Empty
  <2> QED
    BY <1>3, <1>13, <2>1 DEF Unlink, Drain, Sleep
<1> HIDE DEF Empty
<1> QED
  BY <1>4, <1>5, <1>6, <1>7, <1>8, <1>9, <1>10, <1>11, <1>12, <1>13
     DEF Next, Card, IntrStep, ProcStep, Receive, Send, RefillFails, Panic, Connect, ConnectAgain,
         Fork, vars

-----------------------------------------------------------------------------
(* The transmit ring. *)

LEMMA PlaceIs ==
  ASSUME NEW h \in TX, NEW k \in 1..TX_RING_SIZE
  PROVE  /\ (h + k - 1) % TX_RING_SIZE
              = IF h + k - 1 < TX_RING_SIZE THEN h + k - 1 ELSE h + k - 1 - TX_RING_SIZE
         /\ (h + k - 1) % TX_RING_SIZE \in TX
<1>1. ASSUME NEW x, x = h + k - 1
      PROVE  /\ x % TX_RING_SIZE = IF x < TX_RING_SIZE THEN x ELSE x - TX_RING_SIZE
             /\ x % TX_RING_SIZE \in TX
  <2>1. x \in 0..(2 * TX_RING_SIZE - 1) /\ TX_RING_SIZE \in Nat \ {0}
    BY <1>1, Sizes DEF TX
  <2>2. TX = 0..(TX_RING_SIZE - 1)
    BY DEF TX
  <2> QED
    BY <2>1, <2>2, Round
<1>2. h \in Nat /\ k \in Nat /\ TX_RING_SIZE \in Nat
  BY Sizes DEF TX
<1> QED
  BY <1>1, <1>2

LEMMA LengthIs ==
  ASSUME NEW t \in TX, NEW h \in TX
  PROVE  (t + TX_RING_SIZE - h) % TX_RING_SIZE = IF t >= h THEN t - h ELSE t + TX_RING_SIZE - h
<1>1. TX_RING_SIZE \in Nat \ {0} /\ TX = 0..(TX_RING_SIZE - 1)
  BY Sizes DEF TX
<1> QED
  BY <1>1, Distance

(* The frame that the card is given is the last it has yet to send. *)
LEMMA TransmitFrames ==
  ASSUME TypeOK, FramesAreKept, NEW a \in Actors, Transmit(a), ~overrun'
  PROVE  FramesAreKept'
<1> DEFINE tail == (tdt + 1) % TX_RING_SIZE
           n == Len(frames)
<1>1. /\ tdh' = tdh /\ tdt' = tail /\ tail # tdh /\ ~overrun
      /\ frames' = Append(frames, mb[a])
      /\ tx_mbufs' = [tx_mbufs EXCEPT ![tdt] = mb[a]]
      /\ tdh \in TX /\ tdt \in TX /\ tail \in TX
      /\ tail = IF tdt + 1 = TX_RING_SIZE THEN 0 ELSE tdt + 1
      /\ frames \in Seq(Frames) /\ n \in Nat
      /\ tx_mbufs \in [TX -> Frames \cup {None}]
  <2>1. /\ tdh' = tdh /\ tdt' = tail /\ overrun' = (overrun \/ tail = tdh)
        /\ frames' = IF overrun' THEN <<>> ELSE Append(frames, mb[a])
        /\ tx_mbufs' = [tx_mbufs EXCEPT ![tdt] = mb[a]]
    BY DEF Transmit
  <2>2. /\ tdh \in TX /\ tdt \in TX
        /\ frames \in Seq(Frames) /\ tx_mbufs \in [TX -> Frames \cup {None}]
    BY DEF TypeOK
  <2>3. tail \in TX /\ tail = IF tdt + 1 = TX_RING_SIZE THEN 0 ELSE tdt + 1
    BY <2>2, NextTX
  <2>4. n \in Nat
    BY <2>2
  <2> HIDE DEF tail
  <2>5. tail # tdh /\ ~overrun
    BY <2>1
  <2>6. frames' = Append(frames, mb[a])
    BY <2>1
  <2> QED
    BY <2>1, <2>2, <2>3, <2>4, <2>5, <2>6
<1>2. /\ n = IF tdt >= tdh THEN tdt - tdh ELSE tdt + TX_RING_SIZE - tdh
      /\ \A k \in 1..n : frames[k] = tx_mbufs[(tdh + k - 1) % TX_RING_SIZE]
  BY <1>1, LengthIs DEF FramesAreKept
<1>3. Len(frames') = n + 1 /\ DOMAIN frames' = 1..(n + 1)
      /\ frames'[n + 1] = mb[a] /\ \A k \in 1..n : frames'[k] = frames[k]
  BY <1>1
<1>4. (tdt' + TX_RING_SIZE - tdh') % TX_RING_SIZE
        = IF tail >= tdh THEN tail - tdh ELSE tail + TX_RING_SIZE - tdh
  BY <1>1, LengthIs
<1> HIDE DEF tail, n
<1>5. n + 1 = IF tail >= tdh THEN tail - tdh ELSE tail + TX_RING_SIZE - tdh
  BY <1>1, <1>2, Sizes DEF TX
<1>6. n + 1 \in 1..TX_RING_SIZE /\ n + 1 < TX_RING_SIZE
  BY <1>1, <1>5, Sizes DEF TX
<1>7. (tdh + (n + 1) - 1) % TX_RING_SIZE = tdt
  <2>1. (tdh + (n + 1) - 1) % TX_RING_SIZE
          = IF tdh + (n + 1) - 1 < TX_RING_SIZE THEN tdh + (n + 1) - 1
            ELSE tdh + (n + 1) - 1 - TX_RING_SIZE
    BY <1>1, <1>6, PlaceIs
  <2> QED
    BY <1>1, <1>2, <2>1, Sizes DEF TX
<1>8. ASSUME NEW k \in 1..n
      PROVE  /\ (tdh + k - 1) % TX_RING_SIZE # tdt
             /\ (tdh + k - 1) % TX_RING_SIZE \in TX
  <2>1. k \in 1..TX_RING_SIZE /\ tdh \in TX
    BY <1>1, <1>6, Sizes
  <2>2. PICK j : j = (tdh + k - 1) % TX_RING_SIZE
    OBVIOUS
  <2>3. j \in TX /\ j = IF tdh + k - 1 < TX_RING_SIZE THEN tdh + k - 1 ELSE tdh + k - 1 - TX_RING_SIZE
    BY <2>1, <2>2, PlaceIs
  <2>4. tdh \in TX /\ tdt \in TX /\ n \in Nat
    BY <1>1
  <2>5. j # tdt
    BY <1>2, <1>6, <2>3, <2>4, Sizes DEF TX
  <2> QED
    BY <2>2, <2>3, <2>5
<1>9. \A k \in DOMAIN frames' : frames'[k] = tx_mbufs'[(tdh + k - 1) % TX_RING_SIZE]
  <2> TAKE k \in DOMAIN frames'
  <2>1. CASE k = n + 1
    BY <1>1, <1>3, <1>7, <2>1
  <2>2. CASE k # n + 1
    <3>1. k \in 1..n
      BY <1>1, <1>3, <2>2 DEF n
    <3> QED
      BY <1>1, <1>2, <1>3, <1>8, <3>1
  <2> QED
    BY <2>1, <2>2
<1> QED
  BY <1>1, <1>3, <1>4, <1>5, <1>9 DEF FramesAreKept

(* The card sends the first of them. *)
LEMMA SendFrames ==
  ASSUME TypeOK, FramesAreKept, Send, ~overrun
  PROVE  FramesAreKept'
<1> DEFINE h == (tdh + 1) % TX_RING_SIZE
           n == Len(frames)
<1>1. /\ tdh' = h /\ tdt' = tdt /\ tdh # tdt
      /\ frames' = Tail(frames) /\ tx_mbufs' = tx_mbufs
      /\ tdh \in TX /\ tdt \in TX /\ h \in TX
      /\ h = IF tdh + 1 = TX_RING_SIZE THEN 0 ELSE tdh + 1
      /\ frames \in Seq(Frames) /\ n \in Nat
  BY NextTX DEF Send, TypeOK
<1>2. /\ n = IF tdt >= tdh THEN tdt - tdh ELSE tdt + TX_RING_SIZE - tdh
      /\ \A k \in 1..n : frames[k] = tx_mbufs[(tdh + k - 1) % TX_RING_SIZE]
  BY <1>1, LengthIs DEF FramesAreKept
<1>3. n >= 1 /\ n < TX_RING_SIZE
  BY <1>1, <1>2, Sizes DEF TX
<1>4. /\ Len(frames') = n - 1 /\ DOMAIN frames' = 1..(n - 1)
      /\ \A k \in 1..(n - 1) : frames'[k] = frames[k + 1]
  <2>1. frames # <<>>
    BY <1>3
  <2>2. frames' \in Seq(Frames) /\ Len(frames') = n - 1
        /\ \A k \in 1..(n - 1) : frames'[k] = frames[k + 1]
    BY <1>1, <2>1, HeadTailProperties
  <2> QED
    BY <2>2
<1>5. (tdt' + TX_RING_SIZE - tdh') % TX_RING_SIZE
        = IF tdt >= h THEN tdt - h ELSE tdt + TX_RING_SIZE - h
  BY <1>1, LengthIs
<1> HIDE DEF h, n
<1>6. n - 1 = IF tdt >= h THEN tdt - h ELSE tdt + TX_RING_SIZE - h
  BY <1>1, <1>2, Sizes DEF TX
<1>7. ASSUME NEW k \in 1..(n - 1)
      PROVE  (tdh + (k + 1) - 1) % TX_RING_SIZE = (h + k - 1) % TX_RING_SIZE
  <2>1. k \in 1..TX_RING_SIZE /\ k + 1 \in 1..TX_RING_SIZE
    BY <1>1, <1>3, Sizes
  <2>2. PICK j : j = k + 1
    OBVIOUS
  <2>3. /\ (tdh + j - 1) % TX_RING_SIZE
            = IF tdh + j - 1 < TX_RING_SIZE THEN tdh + j - 1 ELSE tdh + j - 1 - TX_RING_SIZE
        /\ (h + k - 1) % TX_RING_SIZE
            = IF h + k - 1 < TX_RING_SIZE THEN h + k - 1 ELSE h + k - 1 - TX_RING_SIZE
    BY <1>1, <2>1, <2>2, PlaceIs
  <2>4. (tdh + j - 1) % TX_RING_SIZE = (h + k - 1) % TX_RING_SIZE
    BY <1>1, <2>1, <2>2, <2>3, Sizes DEF TX
  <2> QED
    BY <2>2, <2>4
<1>8. \A k \in DOMAIN frames' : frames'[k] = tx_mbufs'[(h + k - 1) % TX_RING_SIZE]
  <2> TAKE k \in DOMAIN frames'
  <2>1. k \in 1..(n - 1) /\ k + 1 \in 1..n
    BY <1>1, <1>4
  <2> QED
    BY <1>1, <1>2, <1>4, <1>7, <2>1
<1> QED
  BY <1>1, <1>4, <1>5, <1>6, <1>8 DEF FramesAreKept

LEMMA NextFrames == IInv /\ [Next]_vars => FramesAreKept'
<1> SUFFICES ASSUME IInv, [Next]_vars PROVE FramesAreKept'
  OBVIOUS
<1>1. TypeOK /\ FramesAreKept
  BY DEF IInv
<1>2. CASE UNCHANGED txring
  BY <1>1, <1>2 DEF FramesAreKept, txring
<1>3. CASE Send
  <2>1. overrun' = overrun
    BY <1>3 DEF Send
  <2> QED
    BY <1>1, <1>3, <2>1, SendFrames DEF FramesAreKept
<1>4. ASSUME NEW a \in Actors, Transmit(a) PROVE FramesAreKept'
  BY <1>1, <1>4, TransmitFrames DEF FramesAreKept
<1> QED
  BY <1>2, <1>3, <1>4 DEF vars, Next, Card, IntrStep, ProcStep, Receive, IntrStart, Push, Drop,
     Refill, RecvTail, NetRxOther, NetRxUdp, RefillFails, Panic, RecvDone, Connect,
     ConnectAgain, Fork, Close, Read, Unlink, Drain, Sleep, ReadDone, Write, Kill

-----------------------------------------------------------------------------
(* The mbufs.                                                              *)

(* The size of a set when one of its members comes or goes.                *)
LEMMA OneChanges ==
  ASSUME NEW S, IsFiniteSet(S), NEW F \in SUBSET S, NEW G \in SUBSET S, NEW k \in S,
         \A j \in S \ {k} : j \in F <=> j \in G
  PROVE  /\ Cardinality(F) \in Nat
         /\ Cardinality(G) = IF k \in G /\ k \notin F THEN Cardinality(F) + 1
                             ELSE IF k \in F /\ k \notin G THEN Cardinality(F) - 1
                             ELSE Cardinality(F)
<1>1. IsFiniteSet(F) /\ IsFiniteSet(G) /\ Cardinality(F) \in Nat /\ Cardinality(G) \in Nat
  BY FS_Subset, FS_CardinalityType
<1>2. CASE k \notin F /\ k \in G
  <2>1. G = F \cup {k}
    BY <1>2
  <2> QED
    BY <1>1, <1>2, <2>1, FS_AddElement
<1>3. CASE k \in F /\ k \notin G
  <2>1. G = F \ {k}
    BY <1>3
  <2> QED
    BY <1>1, <1>3, <2>1, FS_RemoveElement
<1>4. CASE k \in F <=> k \in G
  <2>1. G = F
    BY <1>4
  <2> QED
    BY <1>1, <1>4, <2>1
<1> QED
  BY <1>2, <1>3, <1>4, <1>1

(* The packets in the queues q of the sockets. *)
Waiting(q) == UNION {{s} \X DOMAIN q[s] : s \in Socks}

LEMMA WaitingIs ==
  ASSUME NEW q \in [Socks -> Seq(Packets)]
  PROVE  /\ IsFiniteSet(Waiting(q)) /\ Cardinality(Waiting(q)) \in Nat
         /\ Waiting(q) \subseteq Socks \X Nat
         /\ \A t \in Socks, n \in Nat : <<t, n>> \in Waiting(q) <=> n \in 1..Len(q[t])
<1> DEFINE Op(s) == {s} \X DOMAIN q[s]
<1>1. \A s \in Socks : DOMAIN q[s] = 1..Len(q[s]) /\ Len(q[s]) \in Nat
  BY LenProperties
<1>2. \A s \in Socks : IsFiniteSet(Op(s))
  <2> TAKE s \in Socks
  <2>1. 1 \in Int /\ Len(q[s]) \in Int
    BY <1>1
  <2>2. IsFiniteSet(1..Len(q[s]))
    BY <2>1, FS_Interval
  <2>3. IsFiniteSet({s})
    BY FS_Singleton
  <2>4. IsFiniteSet({s} \X (1..Len(q[s])))
    BY <2>2, <2>3, FS_Product
  <2> QED
    BY <1>1, <2>4
<1>3. IsFiniteSet({Op(s) : s \in Socks})
  <2> DEFINE Ops == {Op(s) : s \in Socks}
             f == [s \in Socks |-> Op(s)]
  <2>1. f \in Surjection(Socks, Ops)
    <3> HIDE DEF Op
    <3> QED
      BY DEF Surjection
  <2> HIDE DEF f, Ops
  <2>2. IsFiniteSet(Ops)
    BY <2>1, ActorsAssumption, FS_Surjection
  <2> QED
    BY <2>2 DEF Ops
<1>4. IsFiniteSet(Waiting(q))
  BY <1>2, <1>3, FS_UNION DEF Waiting
<1>5. /\ Waiting(q) \subseteq Socks \X Nat
      /\ \A t \in Socks, n \in Nat : <<t, n>> \in Waiting(q) <=> n \in 1..Len(q[t])
  BY <1>1 DEF Waiting
<1> QED
  BY <1>4, <1>5, FS_CardinalityType

LEMMA SamePairs ==
  ASSUME NEW A \in SUBSET (Socks \X Nat), NEW B \in SUBSET (Socks \X Nat),
         \A t \in Socks, n \in Nat : <<t, n>> \in A <=> <<t, n>> \in B
  PROVE  A = B
OBVIOUS

(* A packet is put in a queue, taken from one, or all of one are freed.    *)
LEMMA PutIn ==
  ASSUME NEW q \in [Socks -> Seq(Packets)], NEW r \in [Socks -> Seq(Packets)],
         NEW s \in Socks, NEW x \in Packets, r = [q EXCEPT ![s] = Append(q[s], x)]
  PROVE  Cardinality(Waiting(r)) = Cardinality(Waiting(q)) + 1
<1> DEFINE w == <<s, Len(q[s]) + 1>>
<1>1. /\ q[s] \in Seq(Packets) /\ Len(q[s]) \in Nat /\ Len(r[s]) = Len(q[s]) + 1
      /\ \A t \in Socks \ {s} : r[t] = q[t]
  BY AppendProperties
<1>2. IsFiniteSet(Waiting(q))
  BY WaitingIs
<1>3. Waiting(r) = Waiting(q) \cup {w} /\ w \notin Waiting(q)
  <2>1. /\ Waiting(q) \subseteq Socks \X Nat /\ Waiting(r) \subseteq Socks \X Nat
        /\ \A t \in Socks, n \in Nat : /\ <<t, n>> \in Waiting(q) <=> n \in 1..Len(q[t])
                                       /\ <<t, n>> \in Waiting(r) <=> n \in 1..Len(r[t])
    BY WaitingIs
  <2>2. w \in Socks \X Nat /\ w \notin Waiting(q)
    BY <1>1, <2>1
  <2>3. \A t \in Socks, n \in Nat :
          <<t, n>> \in Waiting(r) <=> <<t, n>> \in Waiting(q) \cup {w}
    <3> TAKE t \in Socks, n \in Nat
    <3>1. CASE t = s
      <4>1. n \in 1..Len(r[t]) <=> n \in 1..Len(q[t]) \/ n = Len(q[s]) + 1
        BY <1>1, <3>1
      <4> QED
        BY <2>1, <3>1, <4>1
    <3>2. CASE t # s
      BY <1>1, <2>1, <3>2
    <3> QED
      BY <3>1, <3>2
  <2> HIDE DEF w
  <2>4. Waiting(r) = Waiting(q) \cup {w}
    <3> DEFINE B == Waiting(q) \cup {w}
    <3>1. /\ B \in SUBSET (Socks \X Nat) /\ Waiting(r) \in SUBSET (Socks \X Nat)
          /\ \A t \in Socks, n \in Nat : <<t, n>> \in Waiting(r) <=> <<t, n>> \in B
      BY <2>1, <2>2, <2>3
    <3> HIDE DEF B
    <3>2. Waiting(r) = B
      BY <3>1, SamePairs
    <3> QED
      BY <3>2 DEF B
  <2> QED
    BY <2>2, <2>4
<1> HIDE DEF w
<1> QED
  BY <1>2, <1>3, FS_AddElement

LEMMA TakenFrom ==
  ASSUME NEW q \in [Socks -> Seq(Packets)], NEW r \in [Socks -> Seq(Packets)],
         NEW s \in Socks, q[s] # <<>>, r = [q EXCEPT ![s] = Tail(q[s])]
  PROVE  Cardinality(Waiting(r)) = Cardinality(Waiting(q)) - 1
<1> DEFINE w == <<s, Len(q[s])>>
<1>1. /\ q[s] \in Seq(Packets) /\ Len(q[s]) \in Nat \ {0} /\ Len(r[s]) = Len(q[s]) - 1
      /\ \A t \in Socks \ {s} : r[t] = q[t]
  BY HeadTailProperties, EmptySeq
<1>2. IsFiniteSet(Waiting(q))
  BY WaitingIs
<1>3. Waiting(r) = Waiting(q) \ {w} /\ w \in Waiting(q)
  <2>1. /\ Waiting(q) \subseteq Socks \X Nat /\ Waiting(r) \subseteq Socks \X Nat
        /\ \A t \in Socks, n \in Nat : /\ <<t, n>> \in Waiting(q) <=> n \in 1..Len(q[t])
                                       /\ <<t, n>> \in Waiting(r) <=> n \in 1..Len(r[t])
    BY WaitingIs
  <2>2. w \in Socks \X Nat /\ w \in Waiting(q)
    BY <1>1, <2>1
  <2>3. \A t \in Socks, n \in Nat :
          <<t, n>> \in Waiting(r) <=> <<t, n>> \in Waiting(q) \ {w}
    <3> TAKE t \in Socks, n \in Nat
    <3>1. CASE t = s
      <4>1. n \in 1..Len(r[t]) <=> n \in 1..Len(q[t]) /\ n # Len(q[s])
        <5>1. Len(r[t]) = Len(q[t]) - 1 /\ Len(q[t]) = Len(q[s]) /\ Len(q[s]) \in Nat \ {0}
          BY <1>1, <3>1
        <5> QED
          BY <5>1
      <4> QED
        BY <2>1, <3>1, <4>1
    <3>2. CASE t # s
      BY <1>1, <2>1, <3>2
    <3> QED
      BY <3>1, <3>2
  <2> HIDE DEF w
  <2>4. Waiting(r) = Waiting(q) \ {w}
    <3> DEFINE B == Waiting(q) \ {w}
    <3>1. /\ B \in SUBSET (Socks \X Nat) /\ Waiting(r) \in SUBSET (Socks \X Nat)
          /\ \A t \in Socks, n \in Nat : <<t, n>> \in Waiting(r) <=> <<t, n>> \in B
      BY <2>1, <2>2, <2>3
    <3> HIDE DEF B
    <3>2. Waiting(r) = B
      BY <3>1, SamePairs
    <3> QED
      BY <3>2 DEF B
  <2> QED
    BY <2>2, <2>4
<1> HIDE DEF w
<1> QED
  BY <1>2, <1>3, FS_RemoveElement

LEMMA AllFreed ==
  ASSUME NEW q \in [Socks -> Seq(Packets)], NEW r \in [Socks -> Seq(Packets)],
         NEW s \in Socks, r = [q EXCEPT ![s] = <<>>]
  PROVE  Cardinality(Waiting(r)) = Cardinality(Waiting(q)) - Len(q[s])
<1> DEFINE W == {s} \X (1..Len(q[s]))
<1>1. /\ q[s] \in Seq(Packets) /\ Len(q[s]) \in Nat /\ Len(r[s]) = 0
      /\ \A t \in Socks \ {s} : r[t] = q[t]
  OBVIOUS
<1>2. IsFiniteSet(Waiting(q)) /\ Cardinality(Waiting(q)) \in Nat
  BY WaitingIs
<1>3. Waiting(r) = Waiting(q) \ W /\ Waiting(q) \cap W = W
  <2>1. /\ Waiting(q) \subseteq Socks \X Nat /\ Waiting(r) \subseteq Socks \X Nat
        /\ \A t \in Socks, n \in Nat : /\ <<t, n>> \in Waiting(q) <=> n \in 1..Len(q[t])
                                       /\ <<t, n>> \in Waiting(r) <=> n \in 1..Len(r[t])
    BY WaitingIs
  <2>2. /\ W \subseteq Socks \X Nat
        /\ \A t \in Socks, n \in Nat : <<t, n>> \in W <=> t = s /\ n \in 1..Len(q[s])
    BY <1>1
  <2> HIDE DEF W
  <2>3. \A t \in Socks, n \in Nat : /\ <<t, n>> \in Waiting(r) <=> <<t, n>> \in Waiting(q) \ W
                                    /\ <<t, n>> \in W <=> <<t, n>> \in Waiting(q) \cap W
    <3> TAKE t \in Socks, n \in Nat
    <3>1. CASE t = s
      <4>1. n \notin 1..Len(r[t])
        BY <1>1, <3>1
      <4> QED
        BY <2>1, <2>2, <3>1, <4>1
    <3>2. CASE t # s
      BY <1>1, <2>1, <2>2, <3>2
    <3> QED
      BY <3>1, <3>2
  <2>4. Waiting(r) = Waiting(q) \ W
    <3> DEFINE B == Waiting(q) \ W
    <3>1. /\ B \in SUBSET (Socks \X Nat) /\ Waiting(r) \in SUBSET (Socks \X Nat)
          /\ \A t \in Socks, n \in Nat : <<t, n>> \in Waiting(r) <=> <<t, n>> \in B
      BY <2>1, <2>2, <2>3
    <3> HIDE DEF B
    <3>2. Waiting(r) = B
      BY <3>1, SamePairs
    <3> QED
      BY <3>2 DEF B
  <2>5. Waiting(q) \cap W = W
    BY <2>1, <2>2, <2>3, SamePairs
  <2> QED
    BY <2>4, <2>5
<1>4. Cardinality(W) = Len(q[s])
  <2>1. 1 \in Int /\ Len(q[s]) \in Int
    BY <1>1
  <2>2. IsFiniteSet(1..Len(q[s]))
    BY <2>1, FS_Interval
  <2>3. Cardinality(1..Len(q[s])) = IF 1 > Len(q[s]) THEN 0 ELSE Len(q[s]) - 1 + 1
    BY <2>1, FS_Interval
  <2>4. IsFiniteSet({s}) /\ Cardinality({s}) = 1
    BY FS_Singleton
  <2>5. Cardinality(W) = 1 * Cardinality(1..Len(q[s]))
    BY <2>2, <2>4, FS_Product
  <2> QED
    BY <1>1, <2>3, <2>5
<1> HIDE DEF W
<1>5. Cardinality(Waiting(q) \ W) = Cardinality(Waiting(q)) - Cardinality(Waiting(q) \cap W)
  BY <1>2, FS_Difference
<1> QED
  BY <1>3, <1>4, <1>5

(* The four parts of InUse, and what is left of them.                      *)
InRx == Cardinality({k \in RX : rx_mbufs[k] # None})
InTx == Cardinality({k \in TX : tx_mbufs[k] # None})
InQ == Cardinality(Queued)
InHands == Cardinality({a \in Actors : mb[a] # None})

LEMMA Rings == IsFiniteSet(RX) /\ IsFiniteSet(TX) /\ IsFiniteSet(Actors)
<1>1. 0 \in Int /\ RX_RING_SIZE - 1 \in Int /\ TX_RING_SIZE - 1 \in Int
  BY Sizes
<1>2. IsFiniteSet(RX)
  BY <1>1, FS_Interval DEF RX
<1>3. IsFiniteSet(TX)
  BY <1>1, FS_Interval DEF TX
<1>4. IsFiniteSet(Actors)
  BY ActorsAssumption, FS_AddElement DEF Actors
<1> QED
  BY <1>2, <1>3, <1>4

LEMMA Parts ==
  ASSUME TypeOK
  PROVE  /\ InRx \in Nat /\ InTx \in Nat /\ InQ \in Nat /\ InHands \in Nat
         /\ EachMbufIsFreedOnce <=> nfree + (InRx + InTx + InQ + InHands) = NMBUF
<1>1. InRx \in Nat
  BY Rings, FS_Subset, FS_CardinalityType DEF InRx
<1>2. InTx \in Nat
  BY Rings, FS_Subset, FS_CardinalityType DEF InTx
<1>3. InQ \in Nat
  BY WaitingIs DEF InQ, Queued, Waiting, TypeOK
<1>4. InHands \in Nat
  BY Rings, FS_Subset, FS_CardinalityType DEF InHands
<1>5. InUse = InRx + InTx + InQ + InHands
  BY DEF InUse, InRx, InTx, InQ, InHands
<1> QED
  BY <1>1, <1>2, <1>3, <1>4, <1>5 DEF EachMbufIsFreedOnce

LEMMA SameParts ==
  /\ rx_mbufs' = rx_mbufs => InRx' = InRx
  /\ tx_mbufs' = tx_mbufs => InTx' = InTx
  /\ rxq' = rxq => InQ' = InQ
  /\ mb' = mb => InHands' = InHands
  /\ EachMbufIsFreedOnce' <=> nfree' + (InRx' + InTx' + InQ' + InHands') = NMBUF
BY DEF InRx, InTx, InQ, InHands, Queued, EachMbufIsFreedOnce, InUse

(* One place of each part changes.                                         *)
LEMMA RxChanges ==
  ASSUME TypeOK, NEW k \in RX, NEW b, rx_mbufs' = [rx_mbufs EXCEPT ![k] = b]
  PROVE  InRx' = IF rx_mbufs[k] = None /\ b # None THEN InRx + 1
                 ELSE IF rx_mbufs[k] # None /\ b = None THEN InRx - 1
                 ELSE InRx
<1> DEFINE F == {j \in RX : rx_mbufs[j] # None}
           G == {j \in RX : rx_mbufs'[j] # None}
<1>1. rx_mbufs'[k] = b /\ \A j \in RX \ {k} : rx_mbufs'[j] = rx_mbufs[j]
  BY DEF TypeOK
<1>2. IsFiniteSet(RX) /\ F \in SUBSET RX /\ G \in SUBSET RX
  BY Rings
<1>3. /\ k \in F <=> rx_mbufs[k] # None
      /\ k \in G <=> b # None
      /\ \A j \in RX \ {k} : j \in F <=> j \in G
  BY <1>1
<1>4. InRx = Cardinality(F) /\ InRx' = Cardinality(G)
  BY DEF InRx
<1> HIDE DEF F, G
<1>5. Cardinality(G) = IF k \in G /\ k \notin F THEN Cardinality(F) + 1
                       ELSE IF k \in F /\ k \notin G THEN Cardinality(F) - 1
                       ELSE Cardinality(F)
  BY <1>2, <1>3, OneChanges
<1> QED
  BY <1>3, <1>4, <1>5

LEMMA TxChanges ==
  ASSUME TypeOK, NEW k \in TX, NEW b, tx_mbufs' = [tx_mbufs EXCEPT ![k] = b]
  PROVE  InTx' = IF tx_mbufs[k] = None /\ b # None THEN InTx + 1
                 ELSE IF tx_mbufs[k] # None /\ b = None THEN InTx - 1
                 ELSE InTx
<1> DEFINE F == {j \in TX : tx_mbufs[j] # None}
           G == {j \in TX : tx_mbufs'[j] # None}
<1>1. tx_mbufs'[k] = b /\ \A j \in TX \ {k} : tx_mbufs'[j] = tx_mbufs[j]
  BY DEF TypeOK
<1>2. IsFiniteSet(TX) /\ F \in SUBSET TX /\ G \in SUBSET TX
  BY Rings
<1>3. /\ k \in F <=> tx_mbufs[k] # None
      /\ k \in G <=> b # None
      /\ \A j \in TX \ {k} : j \in F <=> j \in G
  BY <1>1
<1>4. InTx = Cardinality(F) /\ InTx' = Cardinality(G)
  BY DEF InTx
<1> HIDE DEF F, G
<1>5. Cardinality(G) = IF k \in G /\ k \notin F THEN Cardinality(F) + 1
                       ELSE IF k \in F /\ k \notin G THEN Cardinality(F) - 1
                       ELSE Cardinality(F)
  BY <1>2, <1>3, OneChanges
<1> QED
  BY <1>3, <1>4, <1>5

LEMMA HandChanges ==
  ASSUME TypeOK, NEW a \in Actors, NEW b, InHand(a, b)
  PROVE  InHands' = IF mb[a] = None /\ b # None THEN InHands + 1
                    ELSE IF mb[a] # None /\ b = None THEN InHands - 1
                    ELSE InHands
<1> DEFINE F == {j \in Actors : mb[j] # None}
           G == {j \in Actors : mb'[j] # None}
<1>1. mb'[a] = b /\ \A j \in Actors \ {a} : mb'[j] = mb[j]
  BY DEF TypeOK, InHand
<1>2. IsFiniteSet(Actors) /\ F \in SUBSET Actors /\ G \in SUBSET Actors
  BY Rings
<1>3. /\ a \in F <=> mb[a] # None
      /\ a \in G <=> b # None
      /\ \A j \in Actors \ {a} : j \in F <=> j \in G
  BY <1>1
<1>4. InHands = Cardinality(F) /\ InHands' = Cardinality(G)
  BY DEF InHands
<1> HIDE DEF F, G
<1>5. Cardinality(G) = IF a \in G /\ a \notin F THEN Cardinality(F) + 1
                       ELSE IF a \in F /\ a \notin G THEN Cardinality(F) - 1
                       ELSE Cardinality(F)
  BY <1>2, <1>3, OneChanges
<1> QED
  BY <1>3, <1>4, <1>5

(* A reader takes a packet off its queue, or nothing.                      *)
LEMMA ReadMbufs ==
  ASSUME TypeOK, HandInv, EachMbufIsFreedOnce, NEW p \in Procs, NEW s \in Socks, Read(p, s)
  PROVE  EachMbufIsFreedOnce'
<1>1. /\ nfree \in Nat /\ InRx \in Nat /\ InTx \in Nat /\ InQ \in Nat /\ InHands \in Nat
      /\ nfree + (InRx + InTx + InQ + InHands) = NMBUF
  BY Parts DEF TypeOK
<1>2. nfree' = nfree /\ InRx' = InRx /\ InTx' = InTx
  BY SameParts DEF Read, rxring, txring
<1>3. CASE rxq' = rxq /\ mb' = mb
  BY <1>1, <1>2, <1>3, SameParts
<1>4. CASE /\ rxq[s] # <<>> /\ InHand(p, Head(rxq[s]))
           /\ rxq' = [rxq EXCEPT ![s] = Tail(@)]
  <2>1. /\ rxq \in [Socks -> Seq(Packets)] /\ rxq[s] \in Seq(Packets) /\ p \in Actors
        /\ Head(rxq[s]) \in Packets
    BY <1>4, HeadTailProperties, Actor DEF TypeOK
  <2>2. Tail(rxq[s]) \in Seq(Packets)
    BY <1>4, <2>1, HeadTailProperties
  <2>3. rxq' \in [Socks -> Seq(Packets)] /\ rxq' = [rxq EXCEPT ![s] = Tail(rxq[s])]
    BY <1>4, <2>1, <2>2
  <2>4. InQ' = InQ - 1
    <3>1. Cardinality(Waiting(rxq')) = Cardinality(Waiting(rxq)) - 1
      BY <1>4, <2>1, <2>3, TakenFrom
    <3> QED
      BY <3>1 DEF InQ, Queued, Waiting
  <2>5. mb[p] = None
    <3>1. pc[p] \in {"idle", "read"}
      BY DEF Read, At
    <3> QED
      BY <2>1, <3>1 DEF HandInv
  <2>6. InHands' = InHands + 1
    BY <1>4, <2>1, <2>5, HandChanges, NoPacket
  <2> QED
    BY <1>1, <1>2, <2>4, <2>6, SameParts
<1> QED
  BY <1>3, <1>4 DEF Read

(* The handler gives the packet to a socket.                               *)
LEMMA PushMbufs ==
  ASSUME TypeOK, IntrInv, RingInv, DescInv, EachMbufIsFreedOnce, Push
  PROVE  EachMbufIsFreedOnce'
<1>1. /\ nfree \in Nat /\ InRx \in Nat /\ InTx \in Nat /\ InQ \in Nat /\ InHands \in Nat
      /\ nfree + (InRx + InTx + InQ + InHands) = NMBUF
  BY Parts DEF TypeOK
<1>2. nfree' = nfree /\ InTx' = InTx /\ InHands' = InHands
  BY SameParts DEF Push, txring
<1>3. PICK s : s = si[intr]
  OBVIOUS
<1>4. PICK x : x = Received
  OBVIOUS
<1>5. s \in Socks /\ x \in Packets /\ curr \in RX
  <2>1. pc[intr] = "push"
    BY DEF Push, At
  <2>2. x \in Packets /\ curr \in RX
    BY <1>4, <2>1, Delivered
  <2>3. s \in Socks
    BY <1>3, <2>1 DEF IntrInv, Matching, TypeOK
  <2> QED
    BY <2>2, <2>3
<1>6. InQ' = InQ + 1
  <2>1. rxq \in [Socks -> Seq(Packets)] /\ rxq[s] \in Seq(Packets)
    BY <1>5 DEF TypeOK
  <2>2. rxq' = [rxq EXCEPT ![s] = Append(rxq[s], x)]
    BY <1>3, <1>4, <1>5, <2>1 DEF Push
  <2>3. Append(rxq[s], x) \in Seq(Packets)
    BY <1>5, <2>1, AppendProperties
  <2>4. rxq' \in [Socks -> Seq(Packets)]
    BY <2>1, <2>2, <2>3
  <2>5. Cardinality(Waiting(rxq')) = Cardinality(Waiting(rxq)) + 1
    BY <1>5, <2>1, <2>2, <2>4, PutIn
  <2> QED
    BY <2>5 DEF InQ, Queued, Waiting
<1>7. InRx' = InRx - 1
  <2>1. rx_mbufs' = [rx_mbufs EXCEPT ![curr] = None]
    BY DEF Push, HandOn
  <2>2. rx_mbufs[curr] # None
    BY <1>4, <1>5, NoPacket DEF Received
  <2> QED
    BY <1>5, <2>1, <2>2, RxChanges
<1> QED
  BY <1>1, <1>2, <1>6, <1>7, SameParts

(* The descriptor gets an mbuf, which replaces the one that was sent.      *)
LEMMA TransmitMbufs ==
  ASSUME TypeOK, HandInv, EachMbufIsFreedOnce, NEW a \in Actors, Transmit(a)
  PROVE  EachMbufIsFreedOnce'
<1>1. /\ nfree \in Nat /\ InRx \in Nat /\ InTx \in Nat /\ InQ \in Nat /\ InHands \in Nat
      /\ nfree + (InRx + InTx + InQ + InHands) = NMBUF
  BY Parts DEF TypeOK
<1>2. InRx' = InRx /\ InQ' = InQ
  BY SameParts DEF Transmit, rxring, socks
<1>3. PICK b : b = mb[a]
  OBVIOUS
<1>4. b \in Frames /\ b # None /\ tdt \in TX /\ InHand(a, None)
      /\ tx_mbufs' = [tx_mbufs EXCEPT ![tdt] = b]
      /\ nfree' = IF tx_mbufs[tdt] = None THEN nfree ELSE nfree + 1
  BY <1>3, NoPacket DEF Transmit, At, HandInv, TypeOK
<1>5. InHands' = InHands - 1
  BY <1>3, <1>4, HandChanges
<1>6. InTx' = IF tx_mbufs[tdt] = None THEN InTx + 1 ELSE InTx
  <2>1. InTx' = IF tx_mbufs[tdt] = None /\ b # None THEN InTx + 1
                ELSE IF tx_mbufs[tdt] # None /\ b = None THEN InTx - 1
                ELSE InTx
    <3>1. PICK k \in TX : k = tdt
      BY <1>4
    <3>2. tx_mbufs' = [tx_mbufs EXCEPT ![k] = b]
      BY <1>4, <3>1
    <3>3. InTx' = IF tx_mbufs[k] = None /\ b # None THEN InTx + 1
                  ELSE IF tx_mbufs[k] # None /\ b = None THEN InTx - 1
                  ELSE InTx
      BY <3>2, TxChanges
    <3> QED
      BY <3>1, <3>3
  <2> QED
    BY <1>4, <2>1
<1> QED
  BY <1>1, <1>2, <1>4, <1>5, <1>6, SameParts

LEMMA Moved ==
  ASSUME NEW f \in Nat, NEW a \in Nat, NEW b \in Nat, NEW c \in Nat, NEW d \in Nat, NEW n \in Nat
  PROVE  (f + n) + (a + b + (c - n) + d) = f + (a + b + c + d)
OBVIOUS

(* sockclose() frees all packets of the queue.                             *)
LEMMA DrainMbufs ==
  ASSUME TypeOK, CallInv, EachMbufIsFreedOnce, NEW p \in Procs, Drain(p)
  PROVE  EachMbufIsFreedOnce'
<1>1. /\ nfree \in Nat /\ InRx \in Nat /\ InTx \in Nat /\ InQ \in Nat /\ InHands \in Nat
      /\ nfree + (InRx + InTx + InQ + InHands) = NMBUF
  BY Parts DEF TypeOK
<1>2. InTx' = InTx /\ InHands' = InHands /\ InRx' = InRx
  BY SameParts DEF Drain, txring, rxring
<1>3. PICK s : s = si[p]
  OBVIOUS
<1>4. s \in Socks
  BY <1>3 DEF Drain, At, CallInv, Closing
<1>5. rxq \in [Socks -> Seq(Packets)] /\ rxq' = [rxq EXCEPT ![s] = <<>>]
      /\ nfree' = nfree + Len(rxq[s]) /\ rxq[s] \in Seq(Packets)
  BY <1>3, <1>4 DEF Drain, TypeOK
<1>6. InQ' = InQ - Len(rxq[s])
  <2>1. rxq' \in [Socks -> Seq(Packets)]
    BY <1>4, <1>5
  <2>2. Cardinality(Waiting(rxq')) = Cardinality(Waiting(rxq)) - Len(rxq[s])
    BY <1>4, <1>5, <2>1, AllFreed
  <2> QED
    BY <2>2 DEF InQ, Queued, Waiting
<1>7. PICK n \in Nat : n = Len(rxq[s])
  BY <1>5
<1>8. nfree' = nfree + n /\ InQ' = InQ - n
  BY <1>5, <1>6, <1>7
<1>9. nfree' + (InRx' + InTx' + InQ' + InHands') = NMBUF
  <2>1. n \in Nat
    BY <1>7
  <2>2. (nfree + n) + (InRx + InTx + (InQ - n) + InHands) = nfree + (InRx + InTx + InQ + InHands)
    BY <1>1, <2>1, Moved
  <2> QED
    BY <1>2, <1>1, <1>8, <2>2
<1> QED
  BY <1>9, SameParts

LEMMA NextMbufs == IInv /\ [Next]_vars => EachMbufIsFreedOnce'
<1> SUFFICES ASSUME IInv, [Next]_vars PROVE EachMbufIsFreedOnce'
  OBVIOUS
<1>1. /\ TypeOK /\ IntrInv /\ RingInv /\ DescInv /\ HandInv /\ CallInv /\ EachMbufIsFreedOnce
      /\ curr \in RX /\ rdh \in RX /\ nfree \in Nat
  BY DEF IInv, TypeOK
<1>2. /\ InRx \in Nat /\ InTx \in Nat /\ InQ \in Nat /\ InHands \in Nat
      /\ nfree + (InRx + InTx + InQ + InHands) = NMBUF
  BY <1>1, Parts
<1>3. CASE UNCHANGED <<nfree, rx_mbufs, tx_mbufs, rxq, mb>>
  BY <1>2, <1>3, SameParts
<1>4. ASSUME NEW pk \in Packets, Receive(pk) PROVE EachMbufIsFreedOnce'
  <2>1. nfree' = nfree /\ InTx' = InTx /\ InQ' = InQ /\ InHands' = InHands
    BY <1>4, SameParts DEF Receive, txring, socks
  <2>2. rx_mbufs[rdh] # None
    <3>1. ~dd[rdh]
      <4>1. ~(Ahead(rdh) < Ahead(rdh))
        <5>1. Ahead(rdh) \in Nat
          <6>1. Base \in RX
            BY <1>1, BaseType
          <6>2. Ahead(rdh) = IF rdh >= Base THEN rdh - Base ELSE rdh + RX_RING_SIZE - Base
            BY <1>1, <6>1, AheadIs DEF Ahead
          <6> QED
            BY <1>1, <6>1, <6>2, Sizes DEF RX
        <5> QED
          BY <5>1
      <4> QED
        BY <1>1, <4>1 DEF RingInv
    <3>2. pc[intr] = "refill" => dd[curr]
      BY <1>1 DEF RingInv, Delivering
    <3> QED
      BY <1>1, <3>1, <3>2 DEF DescInv
  <2>3. InRx' = InRx
    BY <1>1, <1>4, <2>2, RxChanges, NoPacket DEF Receive
  <2> QED
    BY <1>2, <2>1, <2>3, SameParts
<1>5. ASSUME NEW a \in Actors, Transmit(a) PROVE EachMbufIsFreedOnce'
  BY <1>1, <1>5, TransmitMbufs
<1>6. CASE NetRxOther
  <2>1. InTx' = InTx /\ InQ' = InQ /\ InRx' = InRx
    BY <1>6, SameParts DEF NetRxOther, rxring, txring, socks
  <2>2. CASE UNCHANGED <<nfree, mb>>
    BY <1>2, <2>1, <2>2, SameParts
  <2>3. ASSUME NEW f \in Frames, mbufalloc, InHand(intr, f) PROVE EachMbufIsFreedOnce'
    <3>1. mb[intr] = None
      BY <1>1, <1>6, Actor DEF HandInv, NetRxOther, At
    <3>2. InHands' = InHands + 1
      BY <1>1, <2>3, <3>1, HandChanges, NoPacket, Actor
    <3>3. nfree' = nfree - 1 /\ nfree > 0
      BY <2>3 DEF mbufalloc
    <3> QED
      BY <1>1, <1>2, <2>1, <3>2, <3>3, SameParts
  <2> QED
    BY <1>6, <2>2, <2>3 DEF NetRxOther
<1>7. CASE Push
  BY <1>1, <1>7, PushMbufs
<1>8. CASE Drop
  <2>1. InTx' = InTx /\ InQ' = InQ /\ InHands' = InHands /\ nfree' = nfree + 1
    BY <1>8, SameParts DEF Drop, mbuffree, txring, socks
  <2>2. rx_mbufs[curr] # None
    BY <1>1, <1>8 DEF DescInv, Drop, At
  <2>3. InRx' = InRx - 1
    BY <1>1, <1>8, <2>2, RxChanges DEF Drop, HandOn
  <2> QED
    BY <1>1, <1>2, <2>1, <2>3, SameParts
<1>9. CASE Refill
  <2>1. InTx' = InTx /\ InQ' = InQ /\ InHands' = InHands /\ nfree' = nfree - 1
    BY <1>9, SameParts DEF Refill, mbufalloc, txring, socks
  <2>2. rx_mbufs[curr] = None
    BY <1>1, <1>9 DEF DescInv, Refill, At
  <2>3. InRx' = InRx + 1
    BY <1>1, <1>9, <2>2, RxChanges, NoPacket DEF Refill
  <2> QED
    BY <1>1, <1>2, <2>1, <2>3, SameParts
<1>10. ASSUME NEW p \in Procs, Drain(p) PROVE EachMbufIsFreedOnce'
  BY <1>1, <1>10, DrainMbufs
<1>11. ASSUME NEW p \in Procs, NEW s \in Socks, Read(p, s) PROVE EachMbufIsFreedOnce'
  BY <1>1, <1>11, ReadMbufs
<1>12. ASSUME NEW p \in Procs, ReadDone(p) PROVE EachMbufIsFreedOnce'
  <2>1. InTx' = InTx /\ InQ' = InQ /\ InRx' = InRx /\ nfree' = nfree + 1
    BY <1>12, SameParts DEF ReadDone, mbuffree, txring, rxring, socks
  <2>2. p \in Actors /\ mb[p] # None
    BY <1>1, <1>12, Actor DEF ReadDone, At, HandInv
  <2>3. InHands' = InHands - 1
    BY <1>1, <1>12, <2>2, HandChanges DEF ReadDone
  <2> QED
    BY <1>1, <1>2, <2>1, <2>3, SameParts
<1>13. ASSUME NEW p \in Procs, Write(p) PROVE EachMbufIsFreedOnce'
  <2>1. InTx' = InTx /\ InQ' = InQ /\ InRx' = InRx /\ nfree' = nfree - 1
    BY <1>13, SameParts DEF Write, mbufalloc, txring, rxring, socks
  <2>2. p \in Actors /\ mb[p] = None
    BY <1>1, <1>13, Actor DEF Write, At, HandInv
  <2>3. InHands' = InHands + 1
    BY <1>1, <1>13, <2>2, HandChanges, NoPacket DEF Write
  <2> QED
    BY <1>1, <1>2, <2>1, <2>3, SameParts
<1> QED
  BY <1>3, <1>4, <1>5, <1>6, <1>7, <1>8, <1>9, <1>10, <1>11, <1>12, <1>13
     DEF vars, rxring, txring, socks, Next, Card, IntrStep, ProcStep, Send, IntrStart, NetRxUdp,
         RefillFails, Panic, RecvDone, RecvTail, Connect, ConnectAgain, Fork, Close, Unlink,
         Sleep, Kill

-----------------------------------------------------------------------------
(* The invariant.                                                          *)
LEMMA NextInv == IInv /\ [Next]_vars => IInv'
BY NextType, NextSocks, NextRing, NextDesc, NextIntr, NextHand, NextFrames, NextMbufs
   DEF IInv, SockInv

LEMMA InitRing == Init => RingInv
<1> SUFFICES ASSUME Init PROVE RingInv
  OBVIOUS
<1>1. /\ rdh = 0 /\ rdt = RX_RING_SIZE - 1 /\ rdh \in RX /\ rdt \in RX
      /\ pc[intr] = "idle" /\ \A k \in RX : dd[k] = FALSE
  BY Sizes, Actor DEF Init, RX
<1>2. Base = 0
  BY <1>1, NextRX, Sizes DEF Base
<1>3. 0 \in RX
  BY <1>1
<1>4. ASSUME NEW k \in RX
      PROVE  Ahead(k) = k /\ k \in Nat
  <2>1. (k + RX_RING_SIZE - 0) % RX_RING_SIZE = IF k >= 0 THEN k - 0 ELSE k + RX_RING_SIZE - 0
    BY <1>3, AheadIs
  <2> QED
    BY <1>2, <2>1 DEF Ahead, RX
<1>5. Ahead(rdh) = 0 /\ Ahead(rdt) = RX_RING_SIZE - 1
  BY <1>1, <1>4
<1>6. Ahead(rdh) <= Ahead(rdt)
  BY <1>5, Sizes
<1>7. \A k \in RX : dd[k] <=> Ahead(k) < Ahead(rdh)
  BY <1>1, <1>4, <1>5
<1> QED
  BY <1>1, <1>6, <1>7 DEF RingInv, Delivering, NoPacketIsStranded

LEMMA InitMbufs == Init => EachMbufIsFreedOnce
<1> SUFFICES ASSUME Init PROVE EachMbufIsFreedOnce
  OBVIOUS
<1>1. nfree = NMBUF - RX_RING_SIZE
  BY DEF Init
<1>2. InRx = RX_RING_SIZE
  <2>1. {k \in RX : rx_mbufs[k] # None} = RX
    BY NoPacket DEF Init
  <2>2. 0 \in Int /\ RX_RING_SIZE - 1 \in Int
    BY Sizes
  <2>3. Cardinality(RX) = IF 0 > RX_RING_SIZE - 1 THEN 0 ELSE RX_RING_SIZE - 1 - 0 + 1
    BY <2>2, FS_Interval DEF RX
  <2> QED
    BY <2>1, <2>3, Sizes DEF InRx
<1>3. InTx = 0
  <2>1. {k \in TX : tx_mbufs[k] # None} = {}
    BY DEF Init
  <2> QED
    BY <2>1, FS_EmptySet DEF InTx
<1>4. InQ = 0
  <2>1. Queued = {}
    BY DEF Init, Queued
  <2> QED
    BY <2>1, FS_EmptySet DEF InQ
<1>5. InHands = 0
  <2>1. {a \in Actors : mb[a] # None} = {}
    BY DEF Init
  <2> QED
    BY <2>1, FS_EmptySet DEF InHands
<1> QED
  BY <1>1, <1>2, <1>3, <1>4, <1>5, InitType, Parts, Sizes

LEMMA InitInv == Init => IInv
<1> SUFFICES ASSUME Init PROVE IInv
  OBVIOUS
<1>1. TypeOK /\ RingInv /\ EachMbufIsFreedOnce
  BY InitType, InitRing, InitMbufs
<1>2. /\ \A a \in Actors : pc[a] = "idle" /\ mb[a] = None /\ si[a] = None
      /\ \A p \in Procs : fds[p] = {}
      /\ \A s \in Socks : rxq[s] = <<>> /\ slock[s] = None
      /\ sockets = {} /\ freesocks = Socks /\ lock = None
      /\ \A k \in RX : rx_mbufs[k] = Blank /\ dd[k] = FALSE
  BY DEF Init
<1>3. CallInv
  BY <1>2, Actor DEF CallInv, Reading, Closing
<1>4. ListInv
  BY <1>2 DEF ListInv
<1>5. IntrInv
  BY <1>2, Actor DEF IntrInv, Reading, Closing
<1>6. SleepInv
  BY <1>2, Actor DEF SleepInv
<1>7. DescInv
  BY <1>2, Actor, NoPacket DEF DescInv
<1>8. HandInv
  BY <1>2 DEF HandInv
<1>9. SocketsOutliveUse
  BY <1>2, Actor DEF SocketsOutliveUse
<1>10. FramesAreKept
  <2>1. frames = <<>> /\ tdh = 0 /\ tdt = 0 /\ 0 \in TX
    BY Sizes DEF Init, TX
  <2>2. (0 + TX_RING_SIZE - 0) % TX_RING_SIZE = 0
    BY <2>1, LengthIs
  <2> QED
    BY <2>1, <2>2 DEF FramesAreKept
<1> QED
  BY <1>1, <1>3, <1>4, <1>5, <1>6, <1>7, <1>8, <1>9, <1>10 DEF IInv

(* The invariant holds in every state.                                     *)
THEOREM Invariance == Spec => []IInv
BY InitInv, NextInv, PTL DEF Spec

(* The variables have their types.                                         *)
THEOREM TypeCorrect == Spec => []TypeOK
<1>1. IInv => TypeOK
  BY DEF IInv
<1> QED
  BY <1>1, Invariance, PTL

(* Each mbuf that is taken from the free pages goes back there once, by    *)
(* whatever way e1000_recv(), net_rx(), sockread(), sockclose() and        *)
(* e1000_transmit() let its packet go.                                     *)
THEOREM MbufsAreFreedOnce == Spec => []EachMbufIsFreedOnce
<1>1. IInv => EachMbufIsFreedOnce
  BY DEF IInv
<1> QED
  BY <1>1, Invariance, PTL

(* sockclose() frees a socket when no list, descriptor, call or delivery   *)
(* has it, and then it does.                                               *)
THEOREM SocketsAreFreedLast == Spec => []SocketsOutliveUse
<1>1. IInv => SocketsOutliveUse
  BY DEF IInv
<1> QED
  BY <1>1, Invariance, PTL

(* A reader asleep in sockread() has no packet to read: sockrecvudp() has  *)
(* woken it with each it put in the queue.                                 *)
THEOREM ReadersSleepForPackets == Spec => []ReadersMustWait
<1>1. IInv => ReadersMustWait
  BY DEF IInv, SleepInv, ReadersMustWait
<1> QED
  BY <1>1, Invariance, PTL

(* When e1000_recv() has stopped looking, a packet in the ring has raised  *)
(* an interrupt that is still to come.                                     *)
THEOREM PacketsAreNotStranded == Spec => []NoPacketIsStranded
<1>1. IInv => NoPacketIsStranded
  BY DEF IInv, RingInv
<1> QED
  BY <1>1, Invariance, PTL

(* e1000_transmit() frees no mbuf that the card has yet to send, unless    *)
(* the ring has been overrun.                                              *)
THEOREM FramesAreNotFreed == Spec => []FramesAreKept
<1>1. IInv => FramesAreKept
  BY DEF IInv
<1> QED
  BY <1>1, Invariance, PTL

-----------------------------------------------------------------------------
(* The ring and the queues are a wire and mailboxes.                       *)

LEMMA PlaceRX ==
  ASSUME NEW h \in RX, NEW k \in 1..RX_RING_SIZE
  PROVE  /\ (h + k - 1) % RX_RING_SIZE
              = IF h + k - 1 < RX_RING_SIZE THEN h + k - 1 ELSE h + k - 1 - RX_RING_SIZE
         /\ (h + k - 1) % RX_RING_SIZE \in RX
<1>1. ASSUME NEW x, x = h + k - 1
      PROVE  /\ x % RX_RING_SIZE = IF x < RX_RING_SIZE THEN x ELSE x - RX_RING_SIZE
             /\ x % RX_RING_SIZE \in RX
  <2>1. x \in 0..(2 * RX_RING_SIZE - 1) /\ RX_RING_SIZE \in Nat \ {0}
    BY <1>1, Sizes DEF RX
  <2>2. RX = 0..(RX_RING_SIZE - 1)
    BY DEF RX
  <2> QED
    BY <2>1, <2>2, Round
<1>2. h \in Nat /\ k \in Nat /\ RX_RING_SIZE \in Nat
  BY Sizes DEF RX
<1> QED
  BY <1>1, <1>2

(* How many packets at the base have been delivered, and how many wait.    *)
Skip == IF pc[intr] \in {"drop", "refill"} THEN 1 ELSE 0
Pending == Ahead(rdh) - Skip

LEMMA StartIs ==
  TypeOK => /\ Start \in RX /\ Base \in RX /\ Skip \in {0, 1}
            /\ pc[intr] = "idle" => Start = (rdt + 1) % RX_RING_SIZE
            /\ pc[intr] \in {"drop", "refill"} => Start = (curr + 1) % RX_RING_SIZE
            /\ pc[intr] \notin {"idle", "drop", "refill"} => Start = curr
            /\ Start = IF Skip = 0 THEN Base ELSE (Base + 1) % RX_RING_SIZE
<1> SUFFICES ASSUME TypeOK
             PROVE  /\ Start \in RX /\ Base \in RX /\ Skip \in {0, 1}
                    /\ pc[intr] = "idle" => Start = (rdt + 1) % RX_RING_SIZE
                    /\ pc[intr] \in {"drop", "refill"} => Start = (curr + 1) % RX_RING_SIZE
                    /\ pc[intr] \notin {"idle", "drop", "refill"} => Start = curr
                    /\ Start = IF Skip = 0 THEN Base ELSE (Base + 1) % RX_RING_SIZE
  OBVIOUS
<1>1. rdt \in RX /\ curr \in RX
  BY DEF TypeOK
<1>2. curr % RX_RING_SIZE = curr
  <2>1. curr \in 0..(2 * RX_RING_SIZE - 1) /\ RX_RING_SIZE \in Nat \ {0} /\ curr < RX_RING_SIZE
    BY <1>1, Sizes DEF RX
  <2> QED
    BY <2>1, Round
<1>3. CASE pc[intr] = "idle"
  <2>1. Start = (rdt + 1) % RX_RING_SIZE /\ Base = (rdt + 1) % RX_RING_SIZE /\ Skip = 0
    BY <1>3 DEF Start, Base, Skip
  <2> QED
    BY <1>1, <1>3, <2>1, NextRX
<1>4. CASE pc[intr] \in {"drop", "refill"}
  <2>1. Start = (curr + 1) % RX_RING_SIZE /\ Base = curr /\ Skip = 1
    BY <1>4 DEF Start, Base, Skip
  <2> QED
    BY <1>1, <1>4, <2>1, NextRX
<1>5. CASE pc[intr] \notin {"idle", "drop", "refill"}
  <2>1. Start = curr /\ Base = curr /\ Skip = 0
    BY <1>2, <1>5 DEF Start, Base, Skip
  <2> QED
    BY <1>1, <1>5, <2>1
<1> QED
  BY <1>3, <1>4, <1>5

LEMMA SlotIs ==
  TypeOK => \A k \in 1..RX_RING_SIZE :
              /\ Slot(k) \in RX
              /\ k <= RX_RING_SIZE - Skip => Ahead(Slot(k)) = Skip + k - 1
<1> SUFFICES ASSUME TypeOK, NEW k \in 1..RX_RING_SIZE
             PROVE  /\ Slot(k) \in RX
                    /\ k <= RX_RING_SIZE - Skip => Ahead(Slot(k)) = Skip + k - 1
  OBVIOUS
<1>1. PICK b, t, n : b = Base /\ t = Start /\ n = Skip
  OBVIOUS
<1>2. /\ b \in RX /\ t \in RX /\ n \in {0, 1}
      /\ t = IF n = 0 THEN b ELSE (b + 1) % RX_RING_SIZE
  BY <1>1, StartIs
<1>3. t = IF n = 0 THEN b ELSE IF b + 1 = RX_RING_SIZE THEN 0 ELSE b + 1
  BY <1>2, NextRX
<1>4. PICK j : j = Slot(k)
  OBVIOUS
<1>5. /\ j \in RX
      /\ j = IF t + k - 1 < RX_RING_SIZE THEN t + k - 1 ELSE t + k - 1 - RX_RING_SIZE
  BY <1>1, <1>2, <1>4, PlaceRX DEF Slot
<1>6. Ahead(j) = IF j >= b THEN j - b ELSE j + RX_RING_SIZE - b
  BY <1>1, <1>2, <1>5, AheadIs DEF Ahead
<1>7. k <= RX_RING_SIZE - n => Ahead(j) = n + k - 1
  BY <1>2, <1>3, <1>5, <1>6, Sizes DEF RX
<1> QED
  BY <1>1, <1>4, <1>5, <1>7

(* The wire has the packets of the slots 1 to Pending.                     *)
LEMMA WireIs ==
  TypeOK /\ RingInv => /\ Ahead(rdh) \in 0..(RX_RING_SIZE - 1) /\ Skip \in {0, 1}
                       /\ Pending \in 0..(RX_RING_SIZE - 1) /\ Undelivered = 1..Pending
<1> SUFFICES ASSUME TypeOK, RingInv
             PROVE  /\ Ahead(rdh) \in 0..(RX_RING_SIZE - 1) /\ Skip \in {0, 1}
                    /\ Pending \in 0..(RX_RING_SIZE - 1) /\ Undelivered = 1..Pending
  OBVIOUS
<1>1. Base \in RX /\ rdh \in RX /\ curr \in RX /\ Skip \in {0, 1}
  BY StartIs DEF TypeOK
<1>2. \A k \in RX : Ahead(k) \in 0..(RX_RING_SIZE - 1)
  <2> TAKE k \in RX
  <2>1. PICK b \in RX : b = Base
    BY <1>1
  <2>2. Ahead(k) = IF k >= b THEN k - b ELSE k + RX_RING_SIZE - b
    BY <2>1, AheadIs DEF Ahead
  <2> QED
    BY <2>2, Sizes DEF RX
<1>3. PICK h, n : h = Ahead(rdh) /\ n = Skip
  OBVIOUS
<1>4. h \in 0..(RX_RING_SIZE - 1) /\ n \in {0, 1}
  BY <1>1, <1>2, <1>3
<1>5. n = 1 => h >= 1
  <2> SUFFICES ASSUME n = 1 PROVE h >= 1
    OBVIOUS
  <2>1. dd[curr]
    BY <1>3 DEF Skip, RingInv, Delivering
  <2>2. Ahead(curr) < h
    BY <1>1, <1>3, <2>1 DEF RingInv
  <2> QED
    BY <1>1, <1>2, <1>4, <2>2
<1>6. \A j \in 1..RX_RING_SIZE : j <= RX_RING_SIZE - n => (dd[Slot(j)] <=> n + j - 1 < h)
  BY <1>3, SlotIs DEF RingInv
<1>7. Undelivered = 1..(h - n)
  <2>1. ASSUME NEW k \in Undelivered PROVE k \in 1..(h - n)
    <3>1. k \in 1..RX_RING_SIZE /\ \A j \in 1..k : dd[Slot(j)]
      BY <2>1 DEF Undelivered
    <3>2. CASE k <= RX_RING_SIZE - n
      <4>1. dd[Slot(k)]
        BY <3>1
      <4>2. n + k - 1 < h
        BY <1>6, <3>1, <3>2, <4>1
      <4> QED
        BY <1>4, <3>1, <4>2, Sizes
    <3>3. CASE ~(k <= RX_RING_SIZE - n)
      <4>1. n = 1 /\ k = RX_RING_SIZE /\ k - 1 \in 1..k /\ k - 1 \in 1..RX_RING_SIZE
            /\ k - 1 <= RX_RING_SIZE - n
        BY <1>4, <3>1, <3>3, Sizes
      <4>2. PICK j : j = k - 1
        OBVIOUS
      <4>3. dd[Slot(j)] /\ j \in 1..RX_RING_SIZE /\ j <= RX_RING_SIZE - n
        BY <3>1, <4>1, <4>2
      <4>4. n + j - 1 < h
        BY <1>6, <4>3
      <4> QED
        BY <1>4, <4>1, <4>2, <4>4, Sizes
    <3> QED
      BY <3>2, <3>3
  <2>2. ASSUME NEW k \in 1..(h - n) PROVE k \in Undelivered
    <3>1. k \in 1..RX_RING_SIZE
      BY <1>4, <2>2, Sizes
    <3>2. ASSUME NEW j \in 1..k PROVE dd[Slot(j)]
      <4>1. j \in 1..RX_RING_SIZE /\ j <= RX_RING_SIZE - n /\ n + j - 1 < h
        BY <1>4, <2>2, Sizes
      <4> QED
        BY <1>6, <4>1
    <3> QED
      BY <3>1, <3>2 DEF Undelivered
  <2> QED
    BY <2>1, <2>2
<1>8. Pending = h - n
  BY <1>3 DEF Pending
<1>9. h - n \in 0..(RX_RING_SIZE - 1)
  <2>1. CASE n = 0
    BY <1>4, <2>1, Sizes
  <2>2. CASE n = 1
    BY <1>4, <1>5, <2>2, Sizes
  <2> QED
    BY <1>4, <2>1, <2>2
<1> QED
  BY <1>3, <1>4, <1>7, <1>8, <1>9

(* The same of the next state.                                             *)
WireOK == /\ Pending \in 0..(RX_RING_SIZE - 1) /\ Undelivered = 1..Pending
          /\ Start \in RX

LEMMA WireIsNext == TypeOK' /\ RingInv' => WireOK'
<1>1. TypeOK /\ RingInv => WireOK
  BY WireIs, StartIs DEF WireOK
<1> QED
  BY <1>1, PTL

LEMMA WireSeq ==
  ASSUME TypeOK, RingInv
  PROVE  /\ Wire \in Seq(Packets \cup {Blank, None}) /\ Len(Wire) = Pending
         /\ \A k \in 1..Pending : Wire[k] = rx_mbufs[Slot(k)]
<1>1. PICK n \in Nat : /\ n = Pending /\ Undelivered = 1..n /\ n <= RX_RING_SIZE - 1
  BY WireIs
<1>2. \A k \in 1..n : rx_mbufs[Slot(k)] \in Packets \cup {Blank, None}
  BY <1>1, SlotIs, Sizes DEF TypeOK
<1>3. Wire = [k \in 1..n |-> rx_mbufs[Slot(k)]]
  BY <1>1 DEF Wire
<1>4. Wire \in Seq(Packets \cup {Blank, None})
  BY <1>2, <1>3
<1>5. Len(Wire) = n
  BY <1>3, <1>4, LenProperties
<1> QED
  BY <1>1, <1>3, <1>4, <1>5

LEMMA WireSeqNext ==
  TypeOK' /\ RingInv' => Wire' \in Seq(Packets \cup {Blank, None}) /\ Len(Wire') = Pending'
<1> DEFINE P == Wire \in Seq(Packets \cup {Blank, None}) /\ Len(Wire) = Pending
<1>1. TypeOK /\ RingInv => P
  BY WireSeq
<1> HIDE DEF P
<1>2. TypeOK' /\ RingInv' => P'
  BY <1>1, PTL
<1> QED
  BY <1>2 DEF P

LEMMA NextWire ==
  ASSUME TypeOK', RingInv'
  PROVE  /\ Pending' \in Nat
         /\ Wire' = [k \in 1..Pending' |-> rx_mbufs'[(Start' + k - 1) % RX_RING_SIZE]]
<1>1. Pending' \in Nat /\ Undelivered' = 1..Pending'
  BY WireIsNext, Sizes DEF WireOK
<1> QED
  BY <1>1 DEF Wire, Slot

(* A step that changes no slot, that adds one, and that takes one.         *)
LEMMA SameWire ==
  ASSUME TypeOK, RingInv, TypeOK', RingInv', Start' = Start, Pending' = Pending,
         \A k \in 1..Pending : rx_mbufs'[Slot(k)] = rx_mbufs[Slot(k)]
  PROVE  Wire' = Wire
<1>1. Wire' = [k \in 1..Pending |-> rx_mbufs'[Slot(k)]]
  BY NextWire DEF Slot
<1>2. Wire = [k \in 1..Pending |-> rx_mbufs[Slot(k)]]
  BY WireIs DEF Wire
<1> QED
  BY <1>1, <1>2

LEMMA LongerWire ==
  ASSUME TypeOK, RingInv, TypeOK', RingInv', Start' = Start, Pending' = Pending + 1,
         \A k \in 1..Pending : rx_mbufs'[Slot(k)] = rx_mbufs[Slot(k)],
         NEW pk \in Packets, rx_mbufs'[Slot(Pending + 1)] = pk
  PROVE  Wire' = Append(Wire, pk)
<1>1. PICK n \in Nat : n = Pending
  BY WireIs, Sizes
<1>2. Wire' = [k \in 1..(n + 1) |-> rx_mbufs'[Slot(k)]]
  BY <1>1, NextWire DEF Slot
<1>3. /\ Wire \in Seq(Packets \cup {Blank, None}) /\ Len(Wire) = n
      /\ \A k \in 1..n : Wire[k] = rx_mbufs[Slot(k)]
  BY <1>1, WireSeq
<1>4. /\ Append(Wire, pk) \in Seq(Packets \cup {Blank, None})
      /\ Len(Append(Wire, pk)) = n + 1 /\ Append(Wire, pk)[n + 1] = pk
      /\ \A k \in 1..n : Append(Wire, pk)[k] = Wire[k]
  BY <1>3, AppendProperties
<1>5. \A k \in 1..(n + 1) : Wire'[k] = Append(Wire, pk)[k]
  <2> TAKE k \in 1..(n + 1)
  <2>1. CASE k = n + 1
    BY <1>1, <1>2, <1>4, <2>1
  <2>2. CASE k # n + 1
    <3>1. k \in 1..n
      BY <2>2
    <3> QED
      BY <1>1, <1>2, <1>3, <1>4, <2>2, <3>1
  <2> QED
    BY <2>1, <2>2
<1>6. Wire' \in Seq(Packets \cup {Blank, None}) /\ Len(Wire') = n + 1
  BY <1>1, WireSeqNext
<1> QED
  BY <1>4, <1>5, <1>6, SeqEqual

LEMMA ShorterWire ==
  ASSUME TypeOK, RingInv, TypeOK', RingInv', Start' = (Start + 1) % RX_RING_SIZE,
         Pending >= 1, Pending' = Pending - 1,
         \A k \in 1..Pending : k # 1 => rx_mbufs'[Slot(k)] = rx_mbufs[Slot(k)]
  PROVE  Wire # <<>> /\ Head(Wire) = rx_mbufs[Slot(1)] /\ Wire' = Tail(Wire)
<1>1. PICK n \in Nat : n = Pending /\ n >= 1 /\ n <= RX_RING_SIZE - 1
  BY WireIs
<1>2. PICK t \in RX : t = Start
  BY StartIs
<1>3. \A k \in 1..(n - 1) : (((t + 1) % RX_RING_SIZE) + k - 1) % RX_RING_SIZE = Slot(k + 1)
  <2> TAKE k \in 1..(n - 1)
  <2>1. PICK u \in RX : u = (t + 1) % RX_RING_SIZE
    BY NextRX
  <2>2. u = IF t + 1 = RX_RING_SIZE THEN 0 ELSE t + 1
    BY <2>1, NextRX
  <2>3. PICK j : j = k + 1
    OBVIOUS
  <2>4. k \in 1..RX_RING_SIZE /\ j \in 1..RX_RING_SIZE /\ j = k + 1
    BY <1>1, <2>3, Sizes
  <2>5. /\ (u + k - 1) % RX_RING_SIZE
              = IF u + k - 1 < RX_RING_SIZE THEN u + k - 1 ELSE u + k - 1 - RX_RING_SIZE
        /\ (t + j - 1) % RX_RING_SIZE
              = IF t + j - 1 < RX_RING_SIZE THEN t + j - 1 ELSE t + j - 1 - RX_RING_SIZE
    BY <2>4, PlaceRX
  <2>6. (u + k - 1) % RX_RING_SIZE = (t + j - 1) % RX_RING_SIZE
    BY <2>2, <2>4, <2>5, Sizes DEF RX
  <2>7. Slot(j) = (t + j - 1) % RX_RING_SIZE
    BY <1>2 DEF Slot
  <2> QED
    BY <2>1, <2>3, <2>6, <2>7
<1>4. Wire' = [k \in 1..(n - 1) |-> rx_mbufs'[(((t + 1) % RX_RING_SIZE) + k - 1) % RX_RING_SIZE]]
  BY <1>1, <1>2, NextWire
<1>5. Wire' = [k \in 1..(n - 1) |-> rx_mbufs'[Slot(k + 1)]]
  BY <1>3, <1>4
<1>6. /\ Wire \in Seq(Packets \cup {Blank, None}) /\ Len(Wire) = n
      /\ \A k \in 1..n : Wire[k] = rx_mbufs[Slot(k)]
  BY <1>1, WireSeq
<1>7. Wire # <<>> /\ Head(Wire) = rx_mbufs[Slot(1)]
  <2>1. Wire # <<>> /\ 1 \in 1..n
    BY <1>1, <1>6
  <2>2. Head(Wire) = Wire[1]
    BY <1>6, <2>1
  <2> QED
    BY <1>6, <2>1, <2>2
<1>8. /\ Tail(Wire) \in Seq(Packets \cup {Blank, None}) /\ Len(Tail(Wire)) = n - 1
      /\ \A k \in 1..(n - 1) : Tail(Wire)[k] = Wire[k + 1]
  BY <1>6, <1>7, HeadTailProperties
<1>9. \A k \in 1..(n - 1) : Wire'[k] = Tail(Wire)[k]
  <2> TAKE k \in 1..(n - 1)
  <2>1. PICK j : j = k + 1
    OBVIOUS
  <2>2. j \in 1..n /\ j # 1
    BY <1>1, <2>1
  <2> QED
    BY <1>1, <1>5, <1>6, <1>8, <2>1, <2>2
<1>10. Wire' \in Seq(Packets \cup {Blank, None}) /\ Len(Wire') = n - 1
  BY <1>1, WireSeqNext
<1>11. Wire' = Tail(Wire)
  BY <1>8, <1>9, <1>10, SeqEqual
<1> QED
  BY <1>7, <1>11

(* The slots behind the descriptor that is worked on, and those before the *)
(* head, are others.                                                       *)
LEMMA OtherSlots ==
  ASSUME TypeOK, RingInv
  PROVE  /\ \A k \in 1..Pending : Slot(k) \in RX /\ Slot(k) # rdh
         /\ pc[intr] # "idle" => \A k \in 1..Pending : Skip + k > 1 => Slot(k) # curr
         /\ Slot(Pending + 1) = rdh
<1>1. PICK n, m, h, b : n = Pending /\ m = Skip /\ h = Ahead(rdh) /\ b = Base
  OBVIOUS
<1>2. /\ m \in {0, 1} /\ h \in 0..(RX_RING_SIZE - 1) /\ n \in 0..(RX_RING_SIZE - 1) /\ n = h - m
      /\ b \in RX /\ rdh \in RX /\ curr \in RX
  BY <1>1, WireIs, StartIs DEF Pending, TypeOK
<1>3. \A k \in RX : Ahead(k) = IF k >= b THEN k - b ELSE k + RX_RING_SIZE - b
  BY <1>1, <1>2, AheadIs DEF Ahead
<1>4. \A k \in 1..(n + 1) : Slot(k) \in RX /\ Ahead(Slot(k)) = m + k - 1
  <2> TAKE k \in 1..(n + 1)
  <2>1. k \in 1..RX_RING_SIZE /\ k <= RX_RING_SIZE - m
    BY <1>2, Sizes
  <2> QED
    BY <1>1, <2>1, SlotIs
<1>5. \A k \in 1..n : Slot(k) \in RX /\ Slot(k) # rdh
  <2> TAKE k \in 1..n
  <2>1. k \in 1..(n + 1) /\ m + k - 1 # h
    BY <1>2
  <2> QED
    BY <1>1, <1>4, <2>1
<1>6. pc[intr] # "idle" => \A k \in 1..n : m + k > 1 => Slot(k) # curr
  <2> SUFFICES ASSUME pc[intr] # "idle", NEW k \in 1..n, m + k > 1 PROVE Slot(k) # curr
    OBVIOUS
  <2>1. b = curr
    BY <1>1 DEF Base
  <2>2. Ahead(curr) = 0
    BY <1>2, <1>3, <2>1, Sizes DEF RX
  <2>3. Ahead(Slot(k)) = m + k - 1 /\ m + k - 1 # 0
    <3>1. k \in 1..(n + 1) /\ m + k - 1 # 0
      BY <1>2
    <3> QED
      BY <1>4, <3>1
  <2> QED
    BY <2>2, <2>3
<1>7. Slot(n + 1) = rdh
  <2>1. PICK j \in RX : j = Slot(n + 1) /\ Ahead(j) = m + (n + 1) - 1
    <3>1. n + 1 \in 1..(n + 1)
      BY <1>2
    <3> QED
      BY <1>4, <3>1
  <2>2. Ahead(j) = h
    BY <1>2, <2>1
  <2>3. h = IF rdh >= b THEN rdh - b ELSE rdh + RX_RING_SIZE - b
    BY <1>1, <1>2, <1>3
  <2>4. h = IF j >= b THEN j - b ELSE j + RX_RING_SIZE - b
    BY <1>3, <2>2
  <2>5. j = rdh
    BY <1>2, <2>3, <2>4, Sizes DEF RX
  <2> QED
    BY <2>1, <2>5
<1> QED
  BY <1>1, <1>5, <1>6, <1>7

(* A packet arrives.                                                       *)
LEMMA ReceiveWire ==
  ASSUME TypeOK, RingInv, TypeOK', RingInv', NEW pk \in Packets, Receive(pk)
  PROVE  Wire' = Append(Wire, pk)
<1>1. /\ UNCHANGED <<rdt, curr, pc>> /\ rx_mbufs' = [rx_mbufs EXCEPT ![rdh] = pk]
      /\ rdh \in RX /\ rx_mbufs \in [RX -> Packets \cup {Blank, None}]
  BY DEF Receive, TypeOK
<1>2. Start' = Start /\ Skip' = Skip
  BY <1>1 DEF Start, Skip
<1>3. PICK h \in Int, m \in Int : h = Ahead(rdh) /\ m = Skip
  BY WireIs, Sizes
<1>4. Ahead(rdh)' = h + 1 /\ Pending = h - m
  BY <1>3, ReceiveRing DEF Pending
<1>5. Pending' = (h + 1) - m
  BY <1>2, <1>3, <1>4 DEF Pending
<1>6. Pending' = Pending + 1
  BY <1>3, <1>4, <1>5
<1>7. \A k \in 1..Pending : rx_mbufs'[Slot(k)] = rx_mbufs[Slot(k)]
  BY <1>1, OtherSlots
<1>8. rx_mbufs'[Slot(Pending + 1)] = pk
  BY <1>1, OtherSlots
<1> QED
  BY <1>2, <1>6, <1>7, <1>8, LongerWire

(* The handler is done with one.                                           *)
LEMMA DeliverWire ==
  ASSUME TypeOK, RingInv, TypeOK', RingInv', UNCHANGED <<rdh, curr>>,
         pc[intr] \in {"recv", "push", "transmit"}, dd[curr], pc'[intr] \in {"drop", "refill"},
         rx_mbufs' = rx_mbufs \/ HandOn
  PROVE  Wire # <<>> /\ Head(Wire) = Received /\ Wire' = Tail(Wire)
<1>1. /\ Start = curr /\ Skip = 0 /\ Skip' = 1 /\ Base = curr /\ Base' = curr /\ curr \in RX
      /\ Start' = (curr + 1) % RX_RING_SIZE
  BY StartIs DEF Skip, Base, Start, TypeOK
<1>2. PICK h \in 0..(RX_RING_SIZE - 1) : h = Ahead(rdh) /\ h = Ahead(rdh)'
  BY <1>1, WireIs DEF Ahead
<1>3. Pending = h - 0 /\ Pending' = h - 1
  BY <1>1, <1>2 DEF Pending
<1>4. Ahead(curr) = 0
  BY <1>1, AheadIs, Sizes DEF Ahead, RX
<1>5. h >= 1
  BY <1>1, <1>2, <1>4, Sizes DEF RingInv
<1>6. Pending >= 1 /\ Pending' = Pending - 1
  BY <1>2, <1>3, <1>5, Sizes
<1>7. \A k \in 1..Pending : k # 1 => rx_mbufs'[Slot(k)] = rx_mbufs[Slot(k)]
  <2> SUFFICES ASSUME NEW k \in 1..Pending, k # 1 PROVE rx_mbufs'[Slot(k)] = rx_mbufs[Slot(k)]
    OBVIOUS
  <2>1. k \in 1..h /\ k > 1 /\ 0 + k > 1
    BY <1>2, <1>3, Sizes
  <2>2. Slot(k) \in RX /\ Slot(k) # curr
    BY <1>1, <2>1, OtherSlots
  <2> QED
    BY <2>2 DEF HandOn, TypeOK
<1>8. Wire # <<>> /\ Head(Wire) = rx_mbufs[Slot(1)] /\ Wire' = Tail(Wire)
  BY <1>1, <1>6, <1>7, ShorterWire
<1>9. Slot(1) = curr
  <2>1. 1 \in 1..RX_RING_SIZE /\ curr + 1 - 1 = curr /\ curr < RX_RING_SIZE
    BY <1>1, Sizes DEF RX
  <2>2. (curr + 1 - 1) % RX_RING_SIZE = curr
    BY <1>1, <2>1, PlaceRX
  <2> QED
    BY <1>1, <2>2 DEF Slot
<1> QED
  BY <1>8, <1>9 DEF Received

(* The other steps of the handler move nothing.                            *)
LEMMA DropWire == ASSUME TypeOK, RingInv, TypeOK', RingInv', Drop PROVE Wire' = Wire
<1>1. /\ UNCHANGED <<rdt, rdh, curr>> /\ rx_mbufs' = [rx_mbufs EXCEPT ![curr] = None]
      /\ pc[intr] = "drop" /\ pc'[intr] = "refill" /\ curr \in RX
      /\ rx_mbufs \in [RX -> Packets \cup {Blank, None}]
  BY Actor DEF Drop, HandOn, At, Goto, TypeOK
<1>2. Start' = Start /\ Skip' = Skip /\ Skip = 1 /\ Base' = Base
  BY <1>1 DEF Start, Skip, Base
<1>3. Pending' = Pending
  BY <1>1, <1>2 DEF Pending, Ahead
<1>4. \A k \in 1..Pending : rx_mbufs'[Slot(k)] = rx_mbufs[Slot(k)]
  <2> TAKE k \in 1..Pending
  <2>1. Skip + k > 1
    BY <1>2, WireIs
  <2>2. Slot(k) \in RX /\ Slot(k) # curr
    BY <1>1, <2>1, OtherSlots
  <2> QED
    BY <1>1, <2>2
<1> QED
  BY <1>2, <1>3, <1>4, SameWire

LEMMA RefillWire == ASSUME TypeOK, RingInv, TypeOK', RingInv', Refill PROVE Wire' = Wire
<1>1. /\ UNCHANGED <<rdt, rdh>> /\ rx_mbufs' = [rx_mbufs EXCEPT ![curr] = Blank]
      /\ pc[intr] = "refill" /\ pc'[intr] = "recv" /\ curr \in RX
      /\ curr' = (curr + 1) % RX_RING_SIZE
      /\ rx_mbufs \in [RX -> Packets \cup {Blank, None}]
  BY Actor DEF Refill, At, Goto, TypeOK
<1>2. Start = (curr + 1) % RX_RING_SIZE /\ Skip = 1 /\ Skip' = 0
  BY <1>1, StartIs DEF Skip
<1>3. Start' = Start
  <2>1. PICK c \in RX : c = curr'
    BY <1>1, NextRX
  <2>2. c % RX_RING_SIZE = c
    <3>1. c \in 0..(2 * RX_RING_SIZE - 1) /\ RX_RING_SIZE \in Nat \ {0} /\ c < RX_RING_SIZE
      BY Sizes DEF RX
    <3> QED
      BY <3>1, Round
  <2> QED
    BY <1>1, <1>2, <2>1, <2>2 DEF Start
<1>4. PICK h \in Int : h = Ahead(rdh) /\ Ahead(rdh)' = h - 1
  BY RefillRing, WireIs, Sizes
<1>5. Pending' = (h - 1) - 0 /\ Pending = h - 1
  BY <1>2, <1>4 DEF Pending
<1>6. Pending' = Pending
  BY <1>4, <1>5
<1>7. \A k \in 1..Pending : rx_mbufs'[Slot(k)] = rx_mbufs[Slot(k)]
  <2> TAKE k \in 1..Pending
  <2>1. Skip + k > 1
    BY <1>2, WireIs
  <2>2. Slot(k) \in RX /\ Slot(k) # curr
    BY <1>1, <2>1, OtherSlots
  <2> QED
    BY <1>1, <2>2
<1> QED
  BY <1>3, <1>6, <1>7, SameWire

LEMMA IntrWire ==
  ASSUME TypeOK, TypeOK', IntrStart \/ RecvTail PROVE Wire' = Wire
<1>1. UNCHANGED <<dd, rx_mbufs>>
  BY DEF IntrStart, RecvTail
<1>2. Start' = Start
  <2>1. \A c \in RX : c % RX_RING_SIZE = c
    <3> TAKE c \in RX
    <3>1. c \in 0..(2 * RX_RING_SIZE - 1) /\ RX_RING_SIZE \in Nat \ {0} /\ c < RX_RING_SIZE
      BY Sizes DEF RX
    <3> QED
      BY <3>1, Round
  <2>2. CASE IntrStart
    <3>1. /\ pc[intr] = "idle" /\ pc'[intr] = "recv" /\ curr' = (rdt + 1) % RX_RING_SIZE
          /\ curr' \in RX
      BY <2>2, Actor DEF IntrStart, At, Goto, TypeOK
    <3> QED
      BY <2>1, <3>1 DEF Start
  <2>3. CASE RecvTail
    <3>1. /\ pc[intr] = "tail" /\ pc'[intr] = "idle" /\ curr \in RX
          /\ rdt' = (curr + RX_RING_SIZE - 1) % RX_RING_SIZE
      BY <2>3, Actor DEF RecvTail, At, Goto, TypeOK
    <3>2. PICK b \in RX, t \in RX : b = curr /\ t = rdt'
      BY <3>1, NextRX
    <3>3. t = IF b = 0 THEN RX_RING_SIZE - 1 ELSE b - 1
      BY <3>1, <3>2, NextRX
    <3>4. (t + 1) % RX_RING_SIZE = b
      BY <3>2, <3>3, NextRX, Sizes DEF RX
    <3> QED
      BY <2>1, <3>1, <3>2, <3>4 DEF Start
  <2> QED
    BY <2>2, <2>3
<1> QED
  BY <1>1, <1>2 DEF Wire, Undelivered, Slot

LEMMA QuietWire ==
  ASSUME UNCHANGED rxring,
         pc'[intr] = pc[intr] \/ (pc[intr] = "recv" /\ pc'[intr] \in {"push", "transmit", "tail"})
  PROVE  Wire' = Wire
<1>1. Start' = Start
  BY DEF Start, rxring
<1> QED
  BY <1>1 DEF Wire, Undelivered, Slot, rxring

(* The box of an address is the queue of the one socket that has it.       *)
BoxOK == \A a \in Addrs :
           /\ (\A s \in sockets : addr[s] # a) => Box[a] = None
           /\ \A s \in sockets : addr[s] = a => Box[a] = rxq[s] /\ Box[a] # None

LEMMA BoxIs == TypeOK /\ ListInv => BoxOK
<1> SUFFICES ASSUME TypeOK, ListInv, NEW a \in Addrs
             PROVE  /\ (\A s \in sockets : addr[s] # a) => Box[a] = None
                    /\ \A s \in sockets : addr[s] = a => Box[a] = rxq[s] /\ Box[a] # None
  BY DEF BoxOK
<1>1. ASSUME \A s \in sockets : addr[s] # a PROVE Box[a] = None
  <2>1. Matching(a) = {}
    BY <1>1 DEF Matching
  <2> QED
    BY <2>1 DEF Box
<1>2. ASSUME NEW s \in sockets, addr[s] = a PROVE Box[a] = rxq[s] /\ Box[a] # None
  <2>1. Matching(a) = {s}
    BY <1>2 DEF Matching, ListInv
  <2>2. (CHOOSE t \in {s} : TRUE) = s
    OBVIOUS
  <2>3. Box[a] = rxq[s]
    BY <2>1, <2>2 DEF Box
  <2>4. rxq[s] \in Seq(Packets)
    BY DEF TypeOK
  <2> QED
    BY <2>3, <2>4, ContentAssumption
<1> QED
  BY <1>1, <1>2

LEMMA BoxIsNext == TypeOK' /\ ListInv' => BoxOK'
BY BoxIs, PTL

LEMMA OneBox ==
  ASSUME NEW b \in Addrs, NEW v, Box'[b] = v, \A a \in Addrs \ {b} : Box'[a] = Box[a]
  PROVE  Box' = [Box EXCEPT ![b] = v]
<1>1. Box = [a \in Addrs |-> Box[a]] /\ Box' = [a \in Addrs |-> Box'[a]]
  BY DEF Box
<1> HIDE DEF Box
<1>2. \A a \in Addrs : Box'[a] = [Box EXCEPT ![b] = v][a]
  BY <1>1
<1>3. [Box EXCEPT ![b] = v] = [a \in Addrs |-> [Box EXCEPT ![b] = v][a]]
  BY <1>1
<1> QED
  BY <1>1, <1>2, <1>3

(* The queue of one socket changes, a socket comes or goes.                *)
LEMMA QueueChanges ==
  ASSUME BoxOK, BoxOK', UNCHANGED <<sockets, addr>>, NEW s \in sockets, addr[s] \in Addrs,
         NEW v, rxq'[s] = v, \A t \in sockets \ {s} : rxq'[t] = rxq[t]
  PROVE  Box' = [Box EXCEPT ![addr[s]] = v] /\ Box[addr[s]] = rxq[s] /\ Box[addr[s]] # None
<1>1. PICK b \in Addrs : b = addr[s]
  OBVIOUS
<1>2. Box'[b] = v /\ Box[b] = rxq[s] /\ Box[b] # None
  BY <1>1 DEF BoxOK
<1>3. \A a \in Addrs \ {b} : Box'[a] = Box[a]
  <2> TAKE a \in Addrs \ {b}
  <2>1. CASE \A t \in sockets : addr[t] # a
    BY <2>1 DEF BoxOK
  <2>2. ASSUME NEW t \in sockets, addr[t] = a PROVE Box'[a] = Box[a]
    <3>1. t # s
      BY <1>1, <2>2
    <3> QED
      BY <2>2, <3>1 DEF BoxOK
  <2> QED
    BY <2>1, <2>2
<1> QED
  BY <1>1, <1>2, <1>3, OneBox

LEMMA SocketComes ==
  ASSUME BoxOK, BoxOK', NEW b \in Addrs, NEW s, s \notin sockets, sockets' = sockets \cup {s},
         \A t \in sockets : addr[t] # b /\ addr'[t] = addr[t], addr'[s] = b, rxq' = rxq,
         rxq[s] = <<>>
  PROVE  Box[b] = None /\ Box' = [Box EXCEPT ![b] = <<>>]
<1>1. Box[b] = None
  BY DEF BoxOK
<1>2. Box'[b] = <<>>
  BY DEF BoxOK
<1>3. \A a \in Addrs \ {b} : Box'[a] = Box[a]
  <2> TAKE a \in Addrs \ {b}
  <2>1. CASE \A t \in sockets : addr[t] # a
    BY <2>1 DEF BoxOK
  <2>2. ASSUME NEW t \in sockets, addr[t] = a PROVE Box'[a] = Box[a]
    BY <2>2 DEF BoxOK
  <2> QED
    BY <2>1, <2>2
<1> QED
  BY <1>1, <1>2, <1>3, OneBox

LEMMA SocketGoes ==
  ASSUME BoxOK, BoxOK', ListInv, UNCHANGED <<addr, rxq>>, NEW s \in sockets,
         sockets' = sockets \ {s}
  PROVE  addr[s] \in Addrs /\ Box[addr[s]] # None /\ Box' = [Box EXCEPT ![addr[s]] = None]
<1>1. PICK b \in Addrs : b = addr[s]
  BY DEF ListInv
<1>2. Box[b] # None
  BY <1>1 DEF BoxOK
<1>3. \A t \in sockets' : addr'[t] # b
  BY <1>1 DEF ListInv
<1>4. Box'[b] = None
  BY <1>3 DEF BoxOK
<1>5. \A a \in Addrs \ {b} : Box'[a] = Box[a]
  <2> TAKE a \in Addrs \ {b}
  <2>1. CASE \A t \in sockets : addr[t] # a
    BY <2>1 DEF BoxOK
  <2>2. ASSUME NEW t \in sockets, addr[t] = a PROVE Box'[a] = Box[a]
    <3>1. t \in sockets'
      BY <1>1, <2>2
    <3> QED
      BY <2>2, <3>1 DEF BoxOK
  <2> QED
    BY <2>1, <2>2
<1> QED
  BY <1>1, <1>2, <1>4, <1>5, OneBox

LEMMA SameBox == UNCHANGED <<sockets, addr, rxq>> => Box' = Box
BY DEF Box, Matching

(* Each step is one of the mailboxes, or none of them.                     *)
Facts == TypeOK /\ RingInv /\ ListInv /\ BoxOK

LEMMA CardDoes ==
  ASSUME Facts, Facts', Card
  PROVE  (\E pk \in Packets : Mailbox!Arrive(pk)) \/ UNCHANGED <<Wire, Box>>
<1>1. ASSUME NEW pk \in Packets, Receive(pk) PROVE Mailbox!Arrive(pk)
  <2>1. Wire' = Append(Wire, pk)
    BY <1>1, ReceiveWire DEF Facts
  <2>2. Box' = Box
    BY <1>1, SameBox DEF Receive, socks
  <2> QED
    BY <2>1, <2>2 DEF Mailbox!Arrive
<1>2. CASE Send
  <2>1. Wire' = Wire
    BY <1>2, QuietWire DEF Send
  <2>2. Box' = Box
    BY <1>2, SameBox DEF Send, socks
  <2> QED
    BY <2>1, <2>2
<1> QED
  BY <1>1, <1>2 DEF Card

(* A packet that is not delivered to a socket.                             *)
LEMMA NotWanted ==
  ASSUME Facts, Facts', UNCHANGED <<rxring, socks>>,
         pc[intr] \in {"recv", "transmit"}, dd[curr], pc'[intr] = "drop",
         Received.to = "other" \/ (Received.to \in Addrs /\ Matching(Received.to) = {})
  PROVE  Mailbox!Deliver
<1>1. Wire # <<>> /\ Head(Wire) = Received /\ Wire' = Tail(Wire)
  BY DeliverWire DEF Facts, rxring
<1>2. Box' = Box
  BY SameBox DEF socks
<1>3. ~(Received.to \in Addrs /\ Box[Received.to] # None)
  <2>1. CASE Received.to = "other"
    BY <2>1, ContentAssumption
  <2>2. CASE Received.to \in Addrs /\ Matching(Received.to) = {}
    BY <2>2 DEF Matching, Facts, BoxOK
  <2> QED
    BY <2>1, <2>2
<1> HIDE DEF Box, Wire
<1> QED
  BY <1>1, <1>2, <1>3 DEF Mailbox!Deliver

LEMMA PushDoes ==
  ASSUME Facts, Facts', IntrInv, DescInv, Push PROVE Mailbox!Deliver
<1>1. pc[intr] = "push" /\ pc'[intr] = "refill" /\ dd[curr]
  BY Actor DEF Push, At, Facts, RingInv, Delivering
<1>2. Wire # <<>> /\ Head(Wire) = Received /\ Wire' = Tail(Wire)
  BY <1>1, DeliverWire DEF Facts, Push
<1>3. PICK s, x : s = si[intr] /\ x = Received
  OBVIOUS
<1>4. s \in sockets /\ addr[s] = x.to /\ addr[s] \in Addrs /\ s \in Socks
  BY <1>1, <1>3 DEF IntrInv, Matching, Facts, ListInv, TypeOK
<1>5. rxq'[s] = Append(rxq[s], x) /\ \A t \in sockets \ {s} : rxq'[t] = rxq[t]
  BY <1>3, <1>4 DEF Push, Facts, TypeOK
<1>6. /\ Box' = [Box EXCEPT ![addr[s]] = Append(rxq[s], x)]
      /\ Box[addr[s]] = rxq[s] /\ Box[addr[s]] # None
  BY <1>4, <1>5, QueueChanges DEF Push, Facts
<1>7. x.to \in Addrs /\ Box[x.to] # None /\ Box' = [Box EXCEPT ![x.to] = Append(Box[x.to], x)]
  BY <1>4, <1>6
<1> HIDE DEF Box, Wire
<1> QED
  BY <1>2, <1>3, <1>7 DEF Mailbox!Deliver

LEMMA IntrDoes ==
  ASSUME Facts, Facts', IntrInv, DescInv, IntrStep \/ Transmit(intr)
  PROVE  Mailbox!Deliver \/ UNCHANGED <<Wire, Box>>
<1>1. CASE IntrStart \/ RecvTail
  BY <1>1, IntrWire, SameBox DEF IntrStart, RecvTail, socks, Facts
<1>2. CASE NetRxOther
  <2>1. UNCHANGED <<rxring, socks>> /\ pc[intr] = "recv" /\ dd[curr] /\ Received.to = "other"
        /\ pc'[intr] \in {"drop", "transmit"}
    BY <1>2, Actor DEF NetRxOther, At, Goto, Facts, TypeOK
  <2>2. CASE pc'[intr] = "drop"
    BY <2>1, <2>2, NotWanted
  <2>3. CASE pc'[intr] = "transmit"
    BY <2>1, <2>3, QuietWire, SameBox DEF socks
  <2> QED
    BY <2>1, <2>2, <2>3
<1>3. CASE NetRxUdp
  <2>1. UNCHANGED <<rxring, socks>> /\ pc[intr] = "recv" /\ dd[curr] /\ Received.to \in Addrs
    BY <1>3 DEF NetRxUdp, At
  <2>2. CASE Matching(Received.to) = {}
    <3>1. pc'[intr] = "drop"
      BY <1>3, <2>2, Actor DEF NetRxUdp, Goto, Facts, TypeOK
    <3> QED
      BY <2>1, <2>2, <3>1, NotWanted
  <2>3. CASE Matching(Received.to) # {}
    <3>1. pc'[intr] = "push"
      BY <1>3, <2>3, Actor DEF NetRxUdp, Goto, Facts, TypeOK
    <3> QED
      BY <2>1, <3>1, QuietWire, SameBox DEF socks
  <2> QED
    BY <2>2, <2>3
<1>4. CASE Push
  BY <1>4, PushDoes
<1>5. CASE Drop
  BY <1>5, DropWire, SameBox DEF Drop, socks, Facts
<1>6. CASE Refill
  BY <1>6, RefillWire, SameBox DEF Refill, socks, Facts
<1>7. CASE RefillFails
  BY <1>7, QuietWire, SameBox DEF RefillFails, Panic, socks
<1>8. CASE RecvDone
  <2>1. UNCHANGED <<rxring, socks>> /\ pc[intr] = "recv" /\ pc'[intr] = "tail"
    BY <1>8, Actor DEF RecvDone, At, Goto, Facts, TypeOK
  <2> QED
    BY <2>1, QuietWire, SameBox DEF socks
<1>9. CASE Transmit(intr)
  <2>1. UNCHANGED <<rxring, socks>> /\ pc[intr] = "transmit" /\ pc'[intr] = "drop"
    BY <1>9, Actor DEF Transmit, At, Goto, Facts, TypeOK
  <2>2. dd[curr] /\ Received.to = "other"
    BY <2>1 DEF Facts, RingInv, Delivering, DescInv
  <2> QED
    BY <2>1, <2>2, NotWanted
<1> QED
  BY <1>1, <1>2, <1>3, <1>4, <1>5, <1>6, <1>7, <1>8, <1>9 DEF IntrStep

(* The system calls: connect(), the last close() and read() are seen.      *)
LEMMA ConnectDoes ==
  ASSUME Facts, Facts', CallInv, SocketsOutliveUse, NEW p \in Procs, NEW a \in Addrs, Connect(p, a)
  PROVE  (\E b \in Addrs : Mailbox!Open(b)) /\ UNCHANGED rxring
<1>1. PICK s \in freesocks : /\ sockets' = sockets \cup {s} /\ addr' = [addr EXCEPT ![s] = a]
  BY DEF Connect
<1>2. s \in Socks /\ s \notin sockets /\ addr \in [Socks -> Addrs \cup {None}] /\ sockets \subseteq Socks
  BY DEF SocketsOutliveUse, Facts, TypeOK
<1>3. rxq' = rxq /\ UNCHANGED rxring /\ \A t \in sockets : addr[t] # a
  BY DEF Connect, Matching
<1>4. rxq[s] = <<>>
  BY <1>2, Actor DEF Facts, ListInv, SocketsOutliveUse
<1>5. Box[a] = None /\ Box' = [Box EXCEPT ![a] = <<>>]
  BY <1>1, <1>2, <1>3, <1>4, SocketComes DEF Facts
<1>6. Wire' = Wire
  BY <1>3, QuietWire DEF Connect
<1> HIDE DEF Box, Wire
<1>7. Mailbox!Open(a)
  BY <1>5, <1>6 DEF Mailbox!Open
<1> QED
  BY <1>3, <1>7

LEMMA ReadDoes ==
  ASSUME Facts, Facts', CallInv, NEW p \in Procs, NEW s \in Socks, Read(p, s), Wire' = Wire
  PROVE  (\E b \in Addrs : Mailbox!Take(b)) \/ UNCHANGED <<Wire, Box>>
<1>1. CASE rxq' = rxq
  BY <1>1, SameBox DEF Read
<1>2. CASE rxq[s] # <<>> /\ rxq' = [rxq EXCEPT ![s] = Tail(@)]
  <2>1. s \in sockets
    BY DEF Read, At, CallInv, Reading
  <2>2. PICK b \in Addrs : b = addr[s]
    BY <2>1 DEF Facts, ListInv
  <2>3. rxq'[s] = Tail(rxq[s]) /\ \A t \in sockets \ {s} : rxq'[t] = rxq[t]
    BY <1>2, <2>1 DEF Facts, TypeOK
  <2>4. Box' = [Box EXCEPT ![b] = Tail(rxq[s])] /\ Box[b] = rxq[s] /\ Box[b] # None
    BY <2>1, <2>2, <2>3, QueueChanges DEF Read, Facts
  <2> HIDE DEF Box, Wire
  <2>5. Mailbox!Take(b)
    BY <1>2, <2>4 DEF Mailbox!Take
  <2> QED
    BY <2>5
<1> QED
  BY <1>1, <1>2 DEF Read

LEMMA UnlinkDoes ==
  ASSUME Facts, Facts', CallInv, NEW p \in Procs, Unlink(p), Wire' = Wire
  PROVE  \E b \in Addrs : Mailbox!Close(b)
<1>1. PICK s \in sockets : s = si[p] /\ sockets' = sockets \ {s}
  BY DEF Unlink, At, CallInv
<1>2. addr[s] \in Addrs /\ Box[addr[s]] # None /\ Box' = [Box EXCEPT ![addr[s]] = None]
  BY <1>1, SocketGoes DEF Facts, Unlink
<1> HIDE DEF Box, Wire
<1>3. Mailbox!Close(addr[s])
  BY <1>2 DEF Mailbox!Close
<1> QED
  BY <1>2, <1>3

LEMMA DrainDoes ==
  ASSUME Facts, Facts', CallInv, NEW p \in Procs, Drain(p)
  PROVE  Box' = Box
<1>1. PICK s : s = si[p]
  OBVIOUS
<1>2. s \notin sockets /\ sockets' = sockets /\ sockets \subseteq Socks
      /\ \A t \in Socks \ {s} : addr'[t] = addr[t] /\ rxq'[t] = rxq[t]
  BY <1>1 DEF Drain, At, CallInv, Facts, TypeOK
<1>3. ASSUME NEW a \in Addrs PROVE Box'[a] = Box[a]
  <2>1. CASE \A t \in sockets : addr[t] # a
    BY <1>2, <2>1 DEF Facts, BoxOK
  <2>2. ASSUME NEW t \in sockets, addr[t] = a PROVE Box'[a] = Box[a]
    BY <1>2, <2>2 DEF Facts, BoxOK
  <2> QED
    BY <2>1, <2>2
<1>4. Box = [a \in Addrs |-> Box[a]] /\ Box' = [a \in Addrs |-> Box'[a]]
  BY DEF Box
<1> HIDE DEF Box
<1> QED
  BY <1>3, <1>4

LEMMA ProcDoes ==
  ASSUME IInv, Facts, Facts', NEW p \in Procs, ProcStep(p) \/ Transmit(p)
  PROVE  \/ \E a \in Addrs : Mailbox!Open(a) \/ Mailbox!Take(a) \/ Mailbox!Close(a)
         \/ UNCHANGED <<Wire, Box>>
<1>1. Wire' = Wire
  BY ProcsKeepRing, QuietWire
<1>2. CallInv /\ SocketsOutliveUse
  BY DEF IInv
<1>3. CASE UNCHANGED <<sockets, addr, rxq>>
  BY <1>1, <1>3, SameBox
<1>4. ASSUME NEW a \in Addrs, Connect(p, a) PROVE \E b \in Addrs : Mailbox!Open(b)
  BY <1>2, <1>4, ConnectDoes
<1>5. ASSUME NEW s \in Socks, Read(p, s)
      PROVE  (\E b \in Addrs : Mailbox!Take(b)) \/ UNCHANGED <<Wire, Box>>
  BY <1>1, <1>2, <1>5, ReadDoes
<1>6. CASE Unlink(p)
  BY <1>1, <1>2, <1>6, UnlinkDoes
<1>7. CASE Drain(p)
  BY <1>1, <1>2, <1>7, DrainDoes
<1>8. \/ UNCHANGED <<sockets, addr, rxq>>
      \/ \E a \in Addrs : Connect(p, a)
      \/ \E s \in Socks : Read(p, s)
      \/ Unlink(p) \/ Drain(p)
  BY DEF ProcStep, ConnectAgain, Panic, Fork, Close, Sleep, ReadDone, Write, Kill, Transmit, socks
<1> QED
  BY <1>3, <1>4, <1>5, <1>6, <1>7, <1>8

(* Packets go from the card to the sockets of their addresses, in order    *)
(* and each once, while processes connect, read, fork, close and are       *)
(* killed.                                                                 *)
THEOREM Refinement == Spec => ImplementsMailboxes
<1>1. Init => Mailbox!Init
  <2> SUFFICES ASSUME Init PROVE Mailbox!Init
    OBVIOUS
  <2>1. Wire = <<>>
    <3>1. TypeOK /\ RingInv
      BY InitInv DEF IInv
    <3>2. Undelivered = {}
      <4>1. \A k \in Undelivered : dd[Slot(k)] /\ Slot(k) \in RX
        BY <3>1, SlotIs DEF Undelivered
      <4> QED
        BY <4>1 DEF Init
    <3>3. Pending = 0
      BY <3>1, <3>2, WireIs, Sizes
    <3> QED
      BY <3>1, <3>3, WireSeq, EmptySeq
  <2>2. Box = [a \in Addrs |-> None]
    BY DEF Init, Box, Matching
  <2> QED
    BY <2>1, <2>2 DEF Mailbox!Init
<1>2. IInv /\ IInv' /\ [Next]_vars => [Mailbox!Next]_(Mailbox!vars)
  <2> SUFFICES ASSUME IInv, IInv', [Next]_vars PROVE Mailbox!Next \/ UNCHANGED <<Wire, Box>>
    BY DEF Mailbox!vars
  <2>1. Facts /\ Facts' /\ IntrInv /\ DescInv
    BY BoxIs, BoxIsNext DEF Facts, IInv
  <2>2. CASE Card
    BY <2>1, <2>2, CardDoes DEF Mailbox!Next
  <2>3. CASE IntrStep \/ Transmit(intr)
    BY <2>1, <2>3, IntrDoes DEF Mailbox!Next
  <2>4. ASSUME NEW p \in Procs, ProcStep(p) \/ Transmit(p)
        PROVE  Mailbox!Next \/ UNCHANGED <<Wire, Box>>
    BY <2>1, <2>4, ProcDoes DEF Mailbox!Next
  <2>5. CASE UNCHANGED vars
    BY <2>5, QuietWire, SameBox DEF vars, socks
  <2> QED
    BY <2>2, <2>3, <2>4, <2>5, Actor DEF Next
<1> QED
  BY <1>1, <1>2, Invariance, PTL DEF Spec, ImplementsMailboxes, Mailbox!Spec
=============================================================================
