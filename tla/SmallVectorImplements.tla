------------------------ MODULE SmallVectorImplements ------------------------
(***************************************************************************)
(* SmallVector, with its storage, implements the sequences of               *)
(* VectorContract: the contents of a vector are its first size_ cells.      *)
(***************************************************************************)
EXTENDS SmallVector

Contract == INSTANCE VectorContract
              WITH contents <- [v \in Vectors |-> Elements(Memory, v)]

(* Every member function does to the elements what the contract says, with  *)
(* and without an exception: nothing is lost, left over or out of order     *)
(* when elements move between inline storage, the heap and other vectors    *)
(* (small_vector.h:205-310).                                                *)
ImplementsContract == Contract!Spec
=============================================================================
