--------------------------------- MODULE Net ----------------------------------
(***************************************************************************)
(* lab8-net/kernel: the rings of the e1000 driver (e1000.c), the sockets   *)
(* (sysnet.c) and the way of a packet between them (net.c).                *)
(*                                                                         *)
(* The card is external: it writes a packet into the next descriptor it    *)
(* has, raises an interrupt, and sends what is before the tail of the      *)
(* other ring, at any time.  e1000_intr() runs on one CPU at a time (the   *)
(* PLIC sees to that), so e1000_rxlock is not a variable, and what is      *)
(* under e1000_txlock is one step.  A header is what it names: an address  *)
(* (the remote one and both ports), ARP, or something that net.c drops.    *)
(*                                                                         *)
(* An mbuf is what it holds: those in use are where their packets are, and *)
(* the free pages are counted.                                             *)
(***************************************************************************)
EXTENDS Naturals, Sequences, FiniteSets

CONSTANTS Procs,
          intr,         \* the actor of e1000_intr()
          NMBUF,        \* the pages kalloc() has for packets
          Socks,        \* and for sockets
          Addrs,
          Bodies,
          Frames,       \* what is sent: the frames of write() and ARP's answers
          Blank,        \* what a new mbuf holds
          RX_RING_SIZE,
          TX_RING_SIZE,
          None

Packets == [to : Addrs, body : Bodies] \cup [to : {"other"}]

ASSUME ContentAssumption == /\ Blank # None /\ {Blank, None} \cap Packets = {}
                            /\ None \notin Frames
                            /\ {"other", None} \cap Addrs = {}
                            /\ None \notin Seq(Packets)
ASSUME ActorsAssumption == /\ IsFiniteSet(Procs) /\ IsFiniteSet(Socks)
                           /\ intr \notin Procs
                           /\ None \notin Procs \cup {intr} \cup Socks
ASSUME RingAssumption == /\ {RX_RING_SIZE, TX_RING_SIZE} \subseteq Nat \ {0, 1}
                         /\ NMBUF \in Nat /\ RX_RING_SIZE <= NMBUF

Actors == Procs \cup {intr}
RX == 0..(RX_RING_SIZE - 1)
TX == 0..(TX_RING_SIZE - 1)

VARIABLES nfree,        \* the pages for packets that are free
          freesocks,    \* those for sockets
          rx_mbufs, dd, \* the receive ring, and E1000_RXD_STAT_DD
          rdh, rdt,     \* registers of the card
          icr,          \* and its interrupt
          tx_mbufs, tdh, tdt,
          curr,         \* of e1000_recv()
          sockets,      \* the list
          addr, rxq,    \* of each socket
          lock,         \* of the list
          slock,        \* of each socket
          fds,          \* the sockets each process has open
          killed,
          pc,
          mb,           \* the mbuf each actor has in hand
          si,           \* the socket it works on
          panic,
          frames,       \* history: what the card was given and has not sent
          overrun       \* history: the tail of a full ring met its head

rxring == <<rx_mbufs, dd, rdh, rdt, icr, curr>>
txring == <<tx_mbufs, tdh, tdt, frames, overrun>>
socks == <<sockets, addr, rxq>>
locks == <<lock, slock>>
procs == <<fds, killed>>
vars == <<nfree, freesocks, rxring, txring, socks, locks, procs, pc, mb, si, panic>>

(* e1000_init(): the card may use all descriptors but one. *)
Init == /\ nfree = NMBUF - RX_RING_SIZE
        /\ freesocks = Socks
        /\ rx_mbufs = [k \in RX |-> Blank]
        /\ dd = [k \in RX |-> FALSE]
        /\ rdh = 0 /\ rdt = RX_RING_SIZE - 1 /\ icr = FALSE
        /\ tx_mbufs = [k \in TX |-> None]
        /\ tdh = 0 /\ tdt = 0
        /\ curr = 0
        /\ sockets = {}
        /\ addr = [s \in Socks |-> None]
        /\ rxq = [s \in Socks |-> <<>>]
        /\ lock = None
        /\ slock = [s \in Socks |-> None]
        /\ fds = [p \in Procs |-> {}]
        /\ killed = [p \in Procs |-> FALSE]
        /\ pc = [a \in Actors |-> "idle"]
        /\ mb = [a \in Actors |-> None]
        /\ si = [a \in Actors |-> None]
        /\ panic = FALSE
        /\ frames = <<>> /\ overrun = FALSE

At(a, l) == ~panic /\ pc[a] = l
Goto(a, l) == pc' = [pc EXCEPT ![a] = l]
InHand(a, b) == mb' = [mb EXCEPT ![a] = b]
WorksOn(a, s) == si' = [si EXCEPT ![a] = s]

mbufalloc == nfree > 0 /\ nfree' = nfree - 1
mbuffree == nfree' = nfree + 1

Panic == /\ panic' = TRUE
         /\ UNCHANGED <<nfree, freesocks, rxring, txring, socks, locks, procs, pc, mb, si>>

-----------------------------------------------------------------------------
(* The card. *)

(* A packet arrives, and is lost if the card has no descriptor. *)
Receive(pk) == /\ ~panic /\ rdh # rdt
               /\ rx_mbufs' = [rx_mbufs EXCEPT ![rdh] = pk]
               /\ dd' = [dd EXCEPT ![rdh] = TRUE]
               /\ rdh' = (rdh + 1) % RX_RING_SIZE
               /\ icr' = TRUE
               /\ UNCHANGED <<nfree, freesocks, rdt, curr, txring, socks, locks, procs, pc, mb, si, panic>>

Send == /\ ~panic /\ tdh # tdt
        /\ tdh' = (tdh + 1) % TX_RING_SIZE
        /\ frames' = IF overrun THEN frames ELSE Tail(frames)
        /\ UNCHANGED <<nfree, freesocks, rxring, tx_mbufs, tdt, overrun, socks, locks, procs, pc, mb, si, panic>>

-----------------------------------------------------------------------------
(* e1000_transmit(), of mb[a], under e1000_txlock: the card looks at the   *)
(* descriptor only when the tail has moved.  DD is set in each descriptor  *)
(* at the start and nothing clears it: the test for a full ring cannot     *)
(* fail.                                                                   *)

(* Mutation: the descriptor after the tail is used. *)
M_Transmit(a) ==
  LET tail == (tdt + 1) % TX_RING_SIZE IN
  /\ At(a, "transmit")
  /\ nfree' = IF tx_mbufs[tail] = None THEN nfree ELSE nfree + 1
  /\ tx_mbufs' = [tx_mbufs EXCEPT ![tail] = mb[a]]
  /\ tdt' = tail
  /\ overrun' = (overrun \/ tail = tdh)
  /\ frames' = IF overrun' THEN <<>> ELSE Append(frames, mb[a])
  /\ InHand(a, None)
  /\ Goto(a, IF a = intr THEN "drop" ELSE "idle")
  /\ UNCHANGED <<freesocks, rxring, tdh, socks, locks, procs, si, panic>>

(* The old mbuf of the descriptor is freed.  An answer to ARP has been     *)
(* sent, and the handler goes on.                                          *)
Transmit(a) ==
  LET tail == (tdt + 1) % TX_RING_SIZE IN
  /\ At(a, "transmit")
  /\ nfree' = IF tx_mbufs[tdt] = None THEN nfree ELSE nfree + 1
  /\ tx_mbufs' = [tx_mbufs EXCEPT ![tdt] = mb[a]]
  /\ tdt' = tail
  /\ overrun' = (overrun \/ tail = tdh)
  /\ frames' = IF overrun' THEN <<>> ELSE Append(frames, mb[a])
  /\ InHand(a, None)
  /\ Goto(a, IF a = intr THEN "drop" ELSE "idle")
  /\ UNCHANGED <<freesocks, rxring, tdh, socks, locks, procs, si, panic>>

-----------------------------------------------------------------------------
(* e1000_intr() and e1000_recv()                                           *)

IntrStart == /\ At(intr, "idle") /\ icr
             /\ icr' = FALSE
             /\ curr' = (rdt + 1) % RX_RING_SIZE
             /\ Goto(intr, "recv")
             /\ UNCHANGED <<nfree, freesocks, rx_mbufs, dd, rdh, rdt, txring, socks, locks, procs, mb, si, panic>>

Received == rx_mbufs[curr]
HandOn == rx_mbufs' = [rx_mbufs EXCEPT ![curr] = None]

(* net_rx() of anything but a datagram for this machine: it is dropped, or *)
(* it is an ARP request and answered first, unless there is no memory.     *)
NetRxOther == /\ At(intr, "recv") /\ dd[curr]
              /\ Received.to = "other"
              /\ \/ Goto(intr, "drop") /\ UNCHANGED <<nfree, mb>>
                 \/ mbufalloc /\ Goto(intr, "transmit") /\ \E f \in Frames : InHand(intr, f)
              /\ UNCHANGED <<freesocks, rxring, txring, socks, locks, procs, si, panic>>

Matching(a) == {s \in sockets : addr[s] = a}

(* net_rx_ip(), net_rx_udp() and sockrecvudp(), which takes the lock of    *)
(* the list and keeps it if there is a socket.                             *)
NetRxUdp ==
  /\ At(intr, "recv") /\ dd[curr]
  /\ Received.to \in Addrs
  /\ lock = None
  /\ IF Matching(Received.to) = {}
       THEN Goto(intr, "drop") /\ UNCHANGED <<lock, si>>
       ELSE /\ \E s \in Matching(Received.to) : WorksOn(intr, s)
            /\ lock' = intr
            /\ Goto(intr, "push")
  /\ UNCHANGED <<nfree, freesocks, rxring, txring, socks, slock, procs, mb, panic>>

(* Mutation: no wakeup(). *)
M_Push == /\ At(intr, "push")
          /\ slock[si[intr]] = None
          /\ rxq' = [rxq EXCEPT ![si[intr]] = Append(@, Received)]
          /\ HandOn
          /\ Goto(intr, "refill")
          /\ lock' = None
          /\ WorksOn(intr, None)
          /\ UNCHANGED <<nfree, freesocks, dd, rdh, rdt, icr, curr, txring, sockets, addr, slock, procs, mb, panic>>

(* mbufq_pushtail() and wakeup(), under both locks. *)
Push == /\ At(intr, "push")
        /\ slock[si[intr]] = None
        /\ rxq' = [rxq EXCEPT ![si[intr]] = Append(@, Received)]
        /\ HandOn
        /\ pc' = [a \in Actors |-> IF a = intr THEN "refill"
                                   ELSE IF pc[a] = "asleep" /\ si[a] = si[intr] THEN "read"
                                   ELSE pc[a]]
        /\ lock' = None
        /\ WorksOn(intr, None)
        /\ UNCHANGED <<nfree, freesocks, dd, rdh, rdt, icr, curr, txring, sockets, addr, slock, procs, mb, panic>>

(* Mutation: a packet that nobody wants is not freed. *)
M_Drop == /\ At(intr, "drop")
          /\ HandOn
          /\ Goto(intr, "refill")
          /\ UNCHANGED <<nfree, freesocks, dd, rdh, rdt, icr, curr, txring, socks, locks, procs, mb, si, panic>>

Drop == /\ At(intr, "drop")
        /\ mbuffree
        /\ HandOn
        /\ Goto(intr, "refill")
        /\ UNCHANGED <<freesocks, dd, rdh, rdt, icr, curr, txring, socks, locks, procs, mb, si, panic>>

(* Mutation: the status is not cleared. *)
M_Refill == /\ At(intr, "refill")
            /\ mbufalloc
            /\ rx_mbufs' = [rx_mbufs EXCEPT ![curr] = Blank]
            /\ curr' = (curr + 1) % RX_RING_SIZE
            /\ Goto(intr, "recv")
            /\ UNCHANGED <<freesocks, dd, rdh, rdt, icr, txring, socks, locks, procs, mb, si, panic>>

(* A new mbuf for the descriptor. *)
Refill == /\ At(intr, "refill")
          /\ mbufalloc
          /\ rx_mbufs' = [rx_mbufs EXCEPT ![curr] = Blank]
          /\ dd' = [dd EXCEPT ![curr] = FALSE]
          /\ curr' = (curr + 1) % RX_RING_SIZE
          /\ Goto(intr, "recv")
          /\ UNCHANGED <<freesocks, rdh, rdt, icr, txring, socks, locks, procs, mb, si, panic>>

(* That there is one is not tested. *)
RefillFails == At(intr, "refill") /\ nfree = 0 /\ Panic

RecvDone == /\ At(intr, "recv") /\ ~dd[curr]
            /\ Goto(intr, "tail")
            /\ UNCHANGED <<nfree, freesocks, rxring, txring, socks, locks, procs, mb, si, panic>>

(* Mutation: the interrupt is acknowledged here, or here too. *)
M_RecvTail == /\ At(intr, "tail")
              /\ rdt' = (curr + RX_RING_SIZE - 1) % RX_RING_SIZE
              /\ icr' = FALSE
              /\ curr' = 0
              /\ Goto(intr, "idle")
              /\ UNCHANGED <<nfree, freesocks, rx_mbufs, dd, rdh, txring, socks, locks, procs, mb, si, panic>>

(* The card gets the descriptors back, and the interrupt is over. *)
RecvTail == /\ At(intr, "tail")
            /\ rdt' = (curr + RX_RING_SIZE - 1) % RX_RING_SIZE
            /\ curr' = 0
            /\ Goto(intr, "idle")
            /\ UNCHANGED <<nfree, freesocks, rx_mbufs, dd, rdh, icr, txring, socks, locks, procs, mb, si, panic>>

-----------------------------------------------------------------------------
(* System calls on sockets.                                                *)

(* connect(): sockalloc().  For an address that is taken it frees the page *)
(* and fileclose() then calls sockclose() on it, which follows the junk of *)
(* kfree() as a pointer, or frees what another has allocated meanwhile:    *)
(* nothing is said of what comes after.                                    *)
ConnectAgain(p, a) == /\ At(p, "idle")
                      /\ lock = None /\ freesocks # {}
                      /\ Matching(a) # {}
                      /\ Panic

Connect(p, a) == /\ At(p, "idle")
                 /\ lock = None
                 /\ Matching(a) = {}
                 /\ \E s \in freesocks :
                      /\ freesocks' = freesocks \ {s}
                      /\ sockets' = sockets \cup {s}
                      /\ addr' = [addr EXCEPT ![s] = a]
                      /\ fds' = [fds EXCEPT ![p] = @ \cup {s}]
                 /\ UNCHANGED <<nfree, rxring, txring, rxq, locks, killed, pc, mb, si, panic>>

(* fork() *)
Fork(p, q) == /\ At(p, "idle") /\ p # q
              /\ At(q, "idle") /\ fds[q] = {}
              /\ fds' = [fds EXCEPT ![q] = fds[p]]
              /\ UNCHANGED <<nfree, freesocks, rxring, txring, socks, locks, killed, pc, mb, si, panic>>

(* close(), or exit().  The last descriptor closes the socket. *)
Close(p, s) == /\ At(p, "idle") /\ s \in fds[p]
               /\ fds' = [fds EXCEPT ![p] = @ \ {s}]
               /\ IF \E q \in Procs \ {p} : s \in fds[q]
                    THEN UNCHANGED <<pc, si>>
                    ELSE Goto(p, "unlink") /\ WorksOn(p, s)
               /\ UNCHANGED <<nfree, freesocks, rxring, txring, socks, locks, killed, mb, panic>>

(* Mutation: the list is changed without its lock. *)
M_Unlink(p) == /\ At(p, "unlink")
               /\ sockets' = sockets \ {si[p]}
               /\ Goto(p, "drain")
               /\ UNCHANGED <<nfree, freesocks, rxring, txring, addr, rxq, locks, procs, mb, si, panic>>

(* sockclose() *)
Unlink(p) == /\ At(p, "unlink")
             /\ lock = None
             /\ sockets' = sockets \ {si[p]}
             /\ Goto(p, "drain")
             /\ UNCHANGED <<nfree, freesocks, rxring, txring, addr, rxq, locks, procs, mb, si, panic>>

(* The packets it has not delivered, and the socket itself. *)
Drain(p) == /\ At(p, "drain")
            /\ nfree' = nfree + Len(rxq[si[p]])
            /\ freesocks' = freesocks \cup {si[p]}
            /\ rxq' = [rxq EXCEPT ![si[p]] = <<>>]
            /\ addr' = [addr EXCEPT ![si[p]] = None]
            /\ WorksOn(p, None)
            /\ Goto(p, "idle")
            /\ UNCHANGED <<rxring, txring, sockets, locks, procs, mb, panic>>

(* sockread(), called or woken: the lock is taken, and killed looked at. *)
Read(p, s) ==
  /\ (At(p, "idle") /\ s \in fds[p]) \/ (At(p, "read") /\ s = si[p])
  /\ slock[s] = None
  /\ \/ /\ killed[p]
        /\ killed' = [killed EXCEPT ![p] = FALSE]
        /\ WorksOn(p, None)
        /\ Goto(p, "idle")
        /\ UNCHANGED <<rxq, slock, mb>>
     \/ /\ ~killed[p] /\ rxq[s] # <<>>
        /\ InHand(p, Head(rxq[s]))
        /\ rxq' = [rxq EXCEPT ![s] = Tail(@)]
        /\ WorksOn(p, None)
        /\ Goto(p, "copyout")
        /\ UNCHANGED <<slock, killed>>
     \/ /\ ~killed[p] /\ rxq[s] = <<>>
        /\ slock' = [slock EXCEPT ![s] = p]
        /\ WorksOn(p, s)
        /\ Goto(p, "sleep")
        /\ UNCHANGED <<rxq, killed, mb>>
  /\ UNCHANGED <<nfree, freesocks, rxring, txring, sockets, addr, lock, fds, panic>>

Sleep(p) == /\ At(p, "sleep")
            /\ slock' = [slock EXCEPT ![si[p]] = None]
            /\ Goto(p, "asleep")
            /\ UNCHANGED <<nfree, freesocks, rxring, txring, socks, lock, procs, mb, si, panic>>

(* copyout() and mbuffree() *)
ReadDone(p) == /\ At(p, "copyout")
               /\ mbuffree
               /\ InHand(p, None)
               /\ Goto(p, "idle")
               /\ UNCHANGED <<freesocks, rxring, txring, socks, locks, procs, si, panic>>

(* write(): sockwrite() and net_tx_udp(); when copyin() fails the mbuf is  *)
(* free again.                                                             *)
Write(p) == /\ At(p, "idle") /\ fds[p] # {}
            /\ mbufalloc
            /\ \E f \in Frames : InHand(p, f)
            /\ Goto(p, "transmit")
            /\ UNCHANGED <<freesocks, rxring, txring, socks, locks, procs, si, panic>>

(* kill(), of a process in sockread().  It closes what it has when it is   *)
(* back: any process may do so.                                            *)
Kill(p) == /\ ~panic
           /\ pc[p] \in {"read", "sleep", "asleep"}
           /\ killed' = [killed EXCEPT ![p] = TRUE]
           /\ pc' = [pc EXCEPT ![p] = IF @ = "asleep" THEN "read" ELSE @]
           /\ UNCHANGED <<nfree, freesocks, rxring, txring, socks, locks, fds, mb, si, panic>>

-----------------------------------------------------------------------------
Card == Send \/ \E pk \in Packets : Receive(pk)

IntrStep == \/ IntrStart \/ NetRxOther \/ NetRxUdp \/ Push \/ Drop
            \/ Refill \/ RefillFails \/ RecvDone \/ RecvTail

ProcStep(p) == \/ \E a \in Addrs : Connect(p, a) \/ ConnectAgain(p, a)
               \/ \E q \in Procs : Fork(p, q)
               \/ \E s \in Socks : Close(p, s) \/ Read(p, s)
               \/ Unlink(p) \/ Drain(p) \/ Sleep(p) \/ ReadDone(p) \/ Write(p) \/ Kill(p)

Next == \/ Card \/ IntrStep
        \/ \E p \in Procs : ProcStep(p)
        \/ \E a \in Actors : Transmit(a)

Spec == Init /\ [][Next]_vars

-----------------------------------------------------------------------------
(* The packets that wait in the queues of the sockets. *)
Queued == UNION {{s} \X DOMAIN rxq[s] : s \in Socks}

(* The mbufs in use: in the rings, with the sockets, in hand. *)
InUse == Cardinality({k \in RX : rx_mbufs[k] # None})
         + Cardinality({k \in TX : tx_mbufs[k] # None})
         + Cardinality(Queued)
         + Cardinality({a \in Actors : mb[a] # None})

(* Every way a packet goes, in or out, wanted or not, frees its mbuf once. *)
EachMbufIsFreedOnce == nfree + InUse = NMBUF

(* sockclose() frees a socket when nobody has it: no list, descriptor or   *)
(* call, and no packet that e1000_recv() is delivering meanwhile; and no   *)
(* socket is lost.                                                         *)
SocketsOutliveUse ==
  \A s \in Socks :
    s \in freesocks <=> /\ s \notin sockets
                   /\ \A p \in Procs : s \notin fds[p]
                   /\ \A a \in Actors : si[a] # s

(* A reader that sleeps in sockread() has nothing to read. *)
ReadersMustWait == \A p \in Procs : pc[p] = "asleep" => rxq[si[p]] = <<>>

(* When e1000_recv() has found no more packets, those that arrive raise    *)
(* another interrupt.                                                      *)
NoPacketIsStranded ==
  pc[intr] \in {"idle", "tail"} /\ (\E k \in RX : dd[k]) => icr

(* "Stash a pointer so that it can be freed after sending" (e1000.c, lines *)
(* 104-105): the descriptors the card has yet to send are those of the     *)
(* frames it was given, and none of their mbufs has been freed - as long   *)
(* as the ring has not been overrun.                                       *)
FramesAreKept ==
  ~overrun => /\ Len(frames) = (tdt + TX_RING_SIZE - tdh) % TX_RING_SIZE
              /\ \A k \in DOMAIN frames : frames[k] = tx_mbufs[(tdh + k - 1) % TX_RING_SIZE]

-----------------------------------------------------------------------------
(* Where the packets begin that have not been delivered. *)
Start == (CASE pc[intr] = "idle" -> rdt + 1
            [] pc[intr] \in {"drop", "refill"} -> curr + 1
            [] OTHER -> curr) % RX_RING_SIZE

Slot(k) == (Start + k - 1) % RX_RING_SIZE

Undelivered == {k \in 1..RX_RING_SIZE : \A j \in 1..k : dd[Slot(j)]}

Wire == [k \in Undelivered |-> rx_mbufs[Slot(k)]]

Box == [a \in Addrs |-> IF Matching(a) = {} THEN None
                        ELSE rxq[CHOOSE s \in Matching(a) : TRUE]]

Mailbox == INSTANCE Mailboxes WITH wire <- Wire, box <- Box

(* Packets go to the socket of their address, in order and each once,      *)
(* while sockets come and go.                                              *)
ImplementsMailboxes == Mailbox!Spec

-----------------------------------------------------------------------------
(* The inductive invariant behind the properties.                          *)

TypeOK == /\ nfree \in Nat /\ freesocks \subseteq Socks
          /\ rx_mbufs \in [RX -> Packets \cup {Blank, None}]
          /\ dd \in [RX -> BOOLEAN]
          /\ rdh \in RX /\ rdt \in RX /\ curr \in RX /\ icr \in BOOLEAN
          /\ tx_mbufs \in [TX -> Frames \cup {None}]
          /\ tdh \in TX /\ tdt \in TX
          /\ frames \in Seq(Frames) /\ overrun \in BOOLEAN
          /\ sockets \subseteq Socks
          /\ addr \in [Socks -> Addrs \cup {None}]
          /\ rxq \in [Socks -> Seq(Packets)]
          /\ lock \in {None, intr} /\ slock \in [Socks -> Procs \cup {None}]
          /\ fds \in [Procs -> SUBSET Socks] /\ killed \in [Procs -> BOOLEAN]
          /\ pc \in [Actors -> {"idle", "recv", "push", "drop", "refill", "tail",
                                "transmit", "unlink", "drain", "read", "sleep",
                                "asleep", "copyout"}]
          /\ mb \in [Actors -> Packets \cup Frames \cup {None}]
          /\ si \in [Actors -> Socks \cup {None}]
          /\ panic \in BOOLEAN

Reading == {"read", "sleep", "asleep"}
Closing == {"unlink", "drain"}
Delivering == {"push", "transmit", "drop", "refill"}

(* Where each process stands with the socket it works on. *)
CallInv ==
  \A p \in Procs :
    /\ pc[p] \notin {"recv", "push", "drop", "refill", "tail"}
    /\ pc[p] \in Reading => si[p] \in fds[p]
    /\ pc[p] \in Closing => /\ si[p] \in Socks
                            /\ \A q \in Procs : /\ si[p] \notin fds[q]
                                                /\ si[q] = si[p] => q = p
    /\ pc[p] = "unlink" => si[p] \in sockets
    /\ pc[p] = "drain" => si[p] \notin sockets
    /\ pc[p] \notin Reading \cup Closing => si[p] = None
    /\ fds[p] \subseteq sockets

(* The list has one socket for an address, and no other has packets but    *)
(* one that is being drained.                                              *)
ListInv ==
  /\ \A s \in sockets : /\ addr[s] \in Addrs
                        /\ \A t \in sockets : addr[s] = addr[t] => s = t
  /\ \A s \in Socks \ sockets :
       rxq[s] # <<>> => \E p \in Procs : pc[p] = "drain" /\ si[p] = s

(* e1000_intr() keeps the socket it delivers to in the list. *)
IntrInv ==
  /\ pc[intr] \notin Reading \cup Closing \cup {"copyout"}
  /\ lock = intr <=> pc[intr] = "push"
  /\ pc[intr] = "push" => si[intr] \in Matching(Received.to)
  /\ pc[intr] # "push" => si[intr] = None

(* The lock of a socket is held by the reader that is about to sleep. *)
SleepInv ==
  /\ \A s \in Socks : slock[s] # None => /\ pc[slock[s]] = "sleep"
                                         /\ si[slock[s]] = s
  /\ \A p \in Procs : /\ pc[p] = "sleep" => slock[si[p]] = p
                      /\ pc[p] \in {"sleep", "asleep"} => rxq[si[p]] = <<>>

(* The descriptors the card has filled are those from Base to its head,    *)
(* which is not beyond its tail.                                           *)
Base == IF pc[intr] = "idle" THEN (rdt + 1) % RX_RING_SIZE ELSE curr
Ahead(k) == (k + RX_RING_SIZE - Base) % RX_RING_SIZE

RingInv == /\ Ahead(rdh) <= Ahead(rdt)
           /\ \A k \in RX : dd[k] <=> Ahead(k) < Ahead(rdh)
           /\ pc[intr] \in Delivering => dd[curr]
           /\ NoPacketIsStranded

(* A descriptor lacks its mbuf only while it is refilled. *)
DescInv == /\ \A k \in RX : /\ rx_mbufs[k] = None <=> pc[intr] = "refill" /\ k = curr
                            /\ dd[k] => rx_mbufs[k] \in Packets \cup {None}
           /\ pc[intr] = "transmit" => Received.to = "other"

HandInv == \A a \in Actors : /\ mb[a] # None <=> pc[a] \in {"transmit", "copyout"}
                             /\ pc[a] = "transmit" => mb[a] \in Frames

IInv == /\ TypeOK /\ CallInv /\ ListInv /\ IntrInv /\ SleepInv /\ RingInv
        /\ DescInv /\ HandInv
        /\ SocketsOutliveUse /\ EachMbufIsFreedOnce /\ FramesAreKept
=============================================================================
