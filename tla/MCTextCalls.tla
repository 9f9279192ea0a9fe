----------------------------- MODULE MCTextCalls -----------------------------
(* Calls with short texts over a few characters, for TLC.  Characters are   *)
(* ASCII codes.                                                             *)
EXTENDS TextCalls

CONSTANTS MaxLength

UpTo(S, n) == UNION {[1 .. k -> S] : k \in 0 .. n}

(* "1", "2", "-", ":", a blank, "x" and Nul *)
Characters == {49, 50, 45, 58, 32, 120, 0}
DigitValues == [c \in 48 .. 57 |-> c - 48]
WhiteSpace == (9 .. 13) \cup {32}
AllTexts == UpTo(Characters, MaxLength) \cup {Invalid}

(* Every byte, alone, and pairs of bytes at the edges of the digit ranges. *)
SomeBytes == {0, 9, 16, 127, 128, 175, 255}
SomeDatas ==
  {<<>>} \cup {<<b>> : b \in 0 .. 255} \cup (SomeBytes \X SomeBytes)

(* Characters on both sides of every bound that fromHex() tests. *)
SomeCharacters == {0, 47, 48, 57, 58, 64, 65, 70, 71, 96, 97, 102, 103, 200}
SomeHexTexts ==
  {Invalid} \cup UpTo(SomeCharacters, 3)
    \cup {<<54, 99, 54, 70>> \o t : t \in SomeCharacters \X SomeCharacters}

(* A blank, "a" and a byte above 127. *)
SomeSlices == UpTo({32, 97, 200}, 4) \cup {Invalid}
SomeTargets == UpTo({32, 97, 200}, 2) \cup {Invalid}

(* The words and some that are nearly words, in letters of both cases, with *)
(* blanks around them, and numbers on both sides of both widths.            *)
Words == Truthy \cup Falsy \cup {<<116, 114, 117>>, <<121, 120>>, <<111>>, <<>>, <<49, 49>>}
Capital(w) == [i \in DOMAIN w |-> IF w[i] >= 97 /\ i = 1 THEN w[i] - 32 ELSE w[i]]
AllCapitals(w) == [i \in DOMAIN w |-> IF w[i] >= 97 THEN w[i] - 32 ELSE w[i]]
SomeEnvTexts ==
  LET words == Words \cup {Capital(w) : w \in Words} \cup {AllCapitals(w) : w \in Words}
      numbers == {Decimal(n) : n \in {-33, -32, -9, -8, -1, 2, 7, 8, 31, 32, 123}}
                   \cup {<<43, 53>>, <<45>>, <<49, 32, 50>>, <<50, 120>>}
  IN  {a \o t \o b : a, b \in {<<>>, <<32>>, <<9, 32>>}, t \in words \cup numbers}

(* Around every power of 1024 that occurs, and around what has to be rounded *)
(* up to one more digit before the dot.                                     *)
SomeSizes ==
  LET near(n) == (n - 6 .. n + 6) \cap Nat
      kilos == {1, 9, 10, 99, 100, 999, 1000, 1023}
  IN  {<<n, 0>> : n \in 0 .. 1030 \cup UNION {near(1024 * k) : k \in kilos}
                          \cup UNION {near(1024 * 1024 * k) : k \in kilos}}
        \cup {<<n, e>> : n \in UNION {near(1024 * k) : k \in kilos}
                                \cup {1, 5, 100, 999, 1000, 1023}, e \in 1 .. 4}
        \cup {<<n, 5>> : n \in {1, 2, 99, 100, 999, 1000, 1023, 1024, 9999, 10000, 16383, 16384}}

Edges == {0, 9, 10, 59, 99}
SomeTriples ==
  LET any == 0 .. 99 \cup {100, 109, 110, 999, 1000}
  IN  (any \X Edges \X Edges) \cup (Edges \X any \X Edges) \cup (Edges \X Edges \X any)

SomeDates ==
  [year : {70, 99, 100, 109, 110, 199, 200, 8099, 8100}, mon : {0, 8, 9, 11},
   mday : {1, 9, 10, 31}, hour : {0, 9, 23}, min : {0, 59}, sec : {0, 10, 60}]

SomeVectors == UpTo({-12, -1, 0, 7, 10, 300}, 4)

(* Every byte alone and, in threes, what escapes are made of. *)
SomeStrings ==
  {<<b>> : b \in 0 .. 255}
    \cup UpTo({0, 7, 10, 31, 127, 255, 34, 39, 92, 48, 55, 97, 102, 110, 120}, 3)
=============================================================================
