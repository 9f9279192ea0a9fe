---------------------------- MODULE MCSmallVector ----------------------------
(* SmallVector with two vectors and small capacities, for TLC. *)
EXTENDS SmallVectorImplements, TLC

CONSTANTS v1, v2, x, y

FarN == (v1 :> 1) @@ (v2 :> 3) @@ (Tmp :> 3)

(* Copies and moves that throw, with and without the fallback to a copy;    *)
(* elements whose moves never throw; elements that never throw.             *)
Throwing == [copyThrows |-> TRUE, moveThrows |-> TRUE, copyable |-> TRUE]
ThrowingTypes == {Throwing, [Throwing EXCEPT !.copyable = FALSE],
                  [Throwing EXCEPT !.moveThrows = FALSE]}
PlainTypes == {[copyThrows |-> FALSE, moveThrows |-> FALSE, copyable |-> TRUE]}

(* What is assigned. *)
SomeLists == {<<>>, <<x, y>>}
=============================================================================
