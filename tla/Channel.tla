------------------------------- MODULE Channel -------------------------------
(***************************************************************************)
(* What a pipe promises: bytes come out in the order they went in, each    *)
(* once, at most PIPESIZE are under way, and none goes in when the reading *)
(* end is closed.  An end that is closed stays closed.                     *)
(***************************************************************************)
EXTENDS Naturals, Sequences

CONSTANTS Bytes, PIPESIZE, None

VARIABLES q,       \* the bytes under way
          ch,      \* the byte the last step put in or took out, or None
          rdopen,
          wropen

vars == <<q, ch, rdopen, wropen>>

Init == /\ q = <<>>
        /\ ch = None
        /\ rdopen = TRUE /\ wropen = TRUE

Put(x) == /\ rdopen
          /\ Len(q) < PIPESIZE
          /\ q' = Append(q, x)
          /\ ch' = x
          /\ UNCHANGED <<rdopen, wropen>>

Get == /\ q # <<>>
       /\ ch' = Head(q)
       /\ q' = Tail(q)
       /\ UNCHANGED <<rdopen, wropen>>

Close == /\ \/ rdopen /\ ~rdopen' /\ UNCHANGED wropen
            \/ wropen /\ ~wropen' /\ UNCHANGED rdopen
         /\ ch' = None
         /\ UNCHANGED q

(* Callers come, go and wait. *)
Pause == /\ ch' = None
         /\ UNCHANGED <<q, rdopen, wropen>>

Next == Pause \/ Get \/ Close \/ \E x \in Bytes : Put(x)

Spec == Init /\ [][Next]_vars
=============================================================================
