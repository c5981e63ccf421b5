-------------------------- MODULE TransactionalDisk -------------------------
(***************************************************************************)
(* What log.c promises its callers ("Simple logging that allows concurrent *)
(* FS system calls", lines 10-31): system calls update a disk between      *)
(* begin_op() and end_op(); their updates become durable all together, and *)
(* only at an instant when no system call is in progress; a crash takes    *)
(* the disk back to the last such instant.                                 *)
(***************************************************************************)
CONSTANTS Blocks, Values, Procs

VARIABLES durable,   \* what a crash leaves
          current,   \* what system calls read
          active     \* the processes between begin_op and end_op

vars == <<durable, current, active>>

Init == /\ durable \in [Blocks -> Values]
        /\ current = durable
        /\ active = {}

Begin(p) == /\ p \notin active
            /\ active' = active \cup {p}
            /\ UNCHANGED <<durable, current>>

Update(p, b, v) == /\ p \in active
                   /\ current' = [current EXCEPT ![b] = v]
                   /\ UNCHANGED <<durable, active>>

End(p) == /\ p \in active
          /\ active' = active \ {p}
          /\ UNCHANGED <<durable, current>>

Commit == /\ active = {}
          /\ durable' = current
          /\ UNCHANGED <<current, active>>

Crash == /\ current' = durable
         /\ active' = {}
         /\ UNCHANGED durable

Next == \/ \E p \in Procs : \/ Begin(p)
                            \/ End(p)
                            \/ \E b \in Blocks, v \in Values : Update(p, b, v)
        \/ Commit
        \/ Crash

Spec == Init /\ [][Next]_vars
=============================================================================
