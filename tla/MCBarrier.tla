----------------------------- MODULE MCBarrier ------------------------------
(* Three threads cross the barrier Rounds times; a round after the first   *)
(* is where a count that was not reset, or a thread that is a lap          *)
(* behind, would show.                                                     *)
EXTENDS Barrier

=============================================================================
