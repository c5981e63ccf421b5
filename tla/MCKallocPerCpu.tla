--------------------------- MODULE MCKallocPerCpu ---------------------------
EXTENDS KallocPerCpu, TLC

Symmetric == Permutations(Procs) \cup Permutations(Pages)
=============================================================================
