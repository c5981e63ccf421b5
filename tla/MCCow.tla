------------------------------- MODULE MCCow --------------------------------
EXTENDS Cow, TLC

Symmetric == Permutations(Procs \ {initproc}) \cup Permutations(Pages)

(* The invariants say nothing of what follows a race. *)
BeforeARace == ~raced
=============================================================================
