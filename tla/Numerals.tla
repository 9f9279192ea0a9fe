------------------------------ MODULE Numerals ------------------------------
(***************************************************************************)
(* The reference for the parsers of conversion.h: which texts are integers, *)
(* and pairs of integers, what they denote, how lists are taken apart.      *)
(* Nothing here looks at the code; a text is taken apart in every possible  *)
(* way and the ways that make sense are kept.                               *)
(***************************************************************************)
EXTENDS PowersOfTen, SequencesExt

CONSTANTS
  Spaces,     \* white space
  Digit,      \* Digit[c]: the value of the digit c
  Minus,      \* the sign of a negative number
  Plus        \* the sign a positive number may have

Unsigned(s) == IF s # <<>> /\ s[1] \in {Minus, Plus} THEN Tail(s) ELSE s

IsNumeral(s) ==
  Unsigned(s) # <<>> /\ \A i \in DOMAIN Unsigned(s) : Unsigned(s)[i] \in DOMAIN Digit

ValueOf(s) ==
  LET u == Unsigned(s)
      place == [i \in DOMAIN u |-> Digit[u[i]] * Ten[Len(u) - i]]
      value == SumFunctionOnSet(place, DOMAIN u)
  IN  IF s[1] = Minus THEN -value ELSE value

IsBlank(s) == \A i \in DOMAIN s : s[i] \in Spaces

(* The text without the blanks around it. *)
Core(s) ==
  LET solid == {i \in DOMAIN s : s[i] \notin Spaces}
  IN  IF solid = {} THEN <<>> ELSE SubSeq(s, Min(solid), Max(solid))

(* The numbers a text stands for: one, or none. *)
Numbers(s) == IF IsNumeral(Core(s)) THEN {ValueOf(Core(s))} ELSE {}

(* The pairs of numbers on the two sides of some mark in the text.          *)
PairsAround(s, mark) ==
  UNION {Numbers(SubSeq(s, 1, i - 1)) \X Numbers(SubSeq(s, i + 1, Len(s))) :
           i \in {k \in DOMAIN s : s[k] = mark}}

(* From a to b, both included, upwards or downwards. *)
Interval(a, b) ==
  IF a <= b THEN [i \in 1 .. b - a + 1 |-> a + i - 1]
            ELSE [i \in 1 .. a - b + 1 |-> a - i + 1]

(* The numbers of a set, in ascending order. *)
InOrder(S) ==
  LET below(i) == Cardinality({j \in S : j < i})
  IN  [k \in 1 .. Cardinality(S) |-> CHOOSE i \in S : below(i) = k - 1]

(* The parts of a text between its separators. *)
Parts(s, sep) ==
  LET ends == InOrder({0, Len(s) + 1} \cup {i \in DOMAIN s : s[i] = sep})
  IN  [k \in 1 .. Len(ends) - 1 |-> SubSeq(s, ends[k] + 1, ends[k + 1] - 1)]

(* Those of several sequences that are not empty. *)
NotEmpty(parts) ==
  LET places == InOrder({k \in DOMAIN parts : parts[k] # <<>>})
  IN  [k \in DOMAIN places |-> parts[places[k]]]
=============================================================================
