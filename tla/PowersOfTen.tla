----------------------------- MODULE PowersOfTen -----------------------------
(* The powers of ten, as a function: the places of a decimal number. *)
EXTENDS Integers

Ten[k \in Nat] == IF k = 0 THEN 1 ELSE 10 * Ten[k - 1]
=============================================================================
