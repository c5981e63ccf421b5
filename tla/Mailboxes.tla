------------------------------ MODULE Mailboxes -------------------------------
(***************************************************************************)
(* What the receiving half of the network stack promises: packets are      *)
(* taken from the wire in the order of their arrival, each once, and put   *)
(* in the mailbox of the address they are for if there is one then; a      *)
(* reader takes the oldest of its mailbox.                                 *)
(***************************************************************************)
EXTENDS Sequences

CONSTANTS Addrs, Packets, None

VARIABLES wire,     \* the packets that have arrived
          box       \* of each address that has one

vars == <<wire, box>>

Init == /\ wire = <<>>
        /\ box = [a \in Addrs |-> None]

Arrive(pk) == /\ wire' = Append(wire, pk)
              /\ UNCHANGED box

Deliver == /\ wire # <<>>
           /\ wire' = Tail(wire)
           /\ LET pk == Head(wire) IN
              box' = IF pk.to \in Addrs /\ box[pk.to] # None
                       THEN [box EXCEPT ![pk.to] = Append(@, pk)]
                       ELSE box

Open(a) == /\ box[a] = None
           /\ box' = [box EXCEPT ![a] = <<>>]
           /\ UNCHANGED wire

Take(a) == /\ box[a] # None /\ box[a] # <<>>
           /\ box' = [box EXCEPT ![a] = Tail(@)]
           /\ UNCHANGED wire

Close(a) == /\ box[a] # None
            /\ box' = [box EXCEPT ![a] = None]
            /\ UNCHANGED wire

Next == \/ Deliver
        \/ \E pk \in Packets : Arrive(pk)
        \/ \E a \in Addrs : Open(a) \/ Take(a) \/ Close(a)

Spec == Init /\ [][Next]_vars
=============================================================================
