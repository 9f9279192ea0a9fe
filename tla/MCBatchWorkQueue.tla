--------------------------- MODULE MCBatchWorkQueue ---------------------------
(* BatchWorkQueue on small sets of threads and short buffers, for TLC. *)
EXTENDS BatchWorkQueue, WorkQueueImplements, TLC

CONSTANTS a, b, c

(* An empty buffer, a short one and a long one. *)
BufferSizes == (a :> 0) @@ (b :> 1) @@ (c :> 2)

(* A four-bit size_t: more than the elements of all the buffers. *)
FourBits == 2 ^ 4

(* Threads of one role are interchangeable. *)
Alike == Permutations(Writers) \cup Permutations(Readers) \cup Permutations(Closers)
=============================================================================
