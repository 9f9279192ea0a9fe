------------------------------ MODULE MCClocks ------------------------------
(* Clocks for TLC: threads are interchangeable. *)
EXTENDS Clocks, TLC

ThreadSymmetry == Permutations(Threads)
=============================================================================
