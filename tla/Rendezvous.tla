----------------------------- MODULE Rendezvous -----------------------------
(***************************************************************************)
(* What a cyclic barrier promises, with no mutex, counter or condition     *)
(* variable: a thread may complete its k-th crossing only after every      *)
(* thread has begun its k-th crossing.                                     *)
(***************************************************************************)
EXTENDS Naturals

CONSTANTS Threads,   \* the threads that share the barrier
          Rounds     \* how many crossings each of them makes

VARIABLES begun,     \* begun[t]: crossings t has begun
          ended      \* ended[t]: crossings t has completed

vars == <<begun, ended>>

Init == /\ begun = [t \in Threads |-> 0]
        /\ ended = [t \in Threads |-> 0]

Begin(t) == /\ ended[t] = begun[t]
            /\ begun[t] < Rounds
            /\ begun' = [begun EXCEPT ![t] = @ + 1]
            /\ UNCHANGED ended

End(t) == /\ ended[t] < begun[t]
          /\ \A u \in Threads : begun[u] >= begun[t]
          /\ ended' = [ended EXCEPT ![t] = @ + 1]
          /\ UNCHANGED begun

Next == \E t \in Threads : Begin(t) \/ End(t)

Spec == Init /\ [][Next]_vars
=============================================================================
