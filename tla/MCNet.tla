------------------------------- MODULE MCNet --------------------------------
EXTENDS Net, TLC

Symmetric == UNION {Permutations(S) : S \in {Procs, Socks, Addrs, Bodies, Frames}}

(* Nothing happens after a panic, and FramesAreKept says nothing of a ring *)
(* that has been overrun.                                                  *)
Running == ~panic /\ ~overrun

(* One process is killed at a time. *)
OneKilled == \A p, q \in Procs : killed[p] /\ killed[q] => p = q
=============================================================================
