---------------------------- MODULE MCBcacheHash ----------------------------
EXTENDS BcacheHash, TLC

Symmetric == Permutations(Procs)

(* Nothing is said of what comes after. *)
NotStale == ~stale
=============================================================================
