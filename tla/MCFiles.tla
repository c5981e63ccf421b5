------------------------------ MODULE MCFiles -------------------------------
EXTENDS Files, TLC

Symmetric == UNION {Permutations(S) : S \in {Procs, Names, Inums, Entries, Files}}

(* Nothing happens after a panic or an Unchecked step, and nothing new     *)
(* where the number of an orphan is lost.                                  *)
NoOrphan == panic = "no" /\ ~unchecked /\ orphans = {}

(* A process that has unmapped its area names no path and maps nothing     *)
(* until it exits: it may close, dup, read, fork and munmap() again.       *)
MapsOnce == \A p \in Procs : gone[p] # {} => call[p].op = "none" /\ vma[p] = None
=============================================================================
