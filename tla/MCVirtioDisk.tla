---------------------------- MODULE MCVirtioDisk ----------------------------
EXTENDS VirtioDisk, TLC

Symmetric == Permutations(Bufs) \cup Permutations(Blocks)
               \cup Permutations(Values)
=============================================================================
