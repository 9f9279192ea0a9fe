----------------------------- MODULE MCWorkQueue -----------------------------
(* WorkQueue on small sets of threads, for TLC. *)
EXTENDS WorkQueue, TLC

(* Threads of one role, and items, are interchangeable. *)
Interchangeable ==
  Permutations(Writers) \cup Permutations(Readers) \cup Permutations(Items)
=============================================================================
