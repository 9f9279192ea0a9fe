--------------------------- MODULE TextCallsProofs ---------------------------
(***************************************************************************)
(* What the calls of TextCalls answer, for texts of any length.             *)
(*                                                                          *)
(* Slice: each search is the least or the greatest of a set of positions,   *)
(* compare() is decided by the first difference, and a cut is what lies     *)
(* between the first and the last character that stays.                     *)
(* DecodeHex(), StrToInt(), StrToIntPair() and the Get functions of the     *)
(* environment: what they accept is what the reference accepts.             *)
(* Texts that are written: digits are read back as the number they were     *)
(* made from; with this the times, the lists and the sizes; a quoted string *)
(* is scanned piece by piece, and each piece tells its character.           *)
(***************************************************************************)
EXTENDS TextCalls, ConversionProofs

-----------------------------------------------------------------------------
(* Sequences, character by character. *)

LEMMA PrefixIs ==
  ASSUME NEW S, NEW s \in Seq(S), NEW t \in Seq(S)
  PROVE  IsPrefix(s, t) <=> Len(s) <= Len(t) /\ \A i \in 1 .. Len(s) : s[i] = t[i]
<1>1. Len(s) \in Nat /\ Len(t) \in Nat
  BY LenProperties
<1>2. SubSeq(s, 1, Len(s)) = s
  BY SubSeqFull
<1> SUFFICES ASSUME Len(s) <= Len(t)
             PROVE  SubSeq(t, 1, Len(s)) = s <=> \A i \in 1 .. Len(s) : s[i] = t[i]
  BY <1>2 DEF IsPrefix
<1> DEFINE u == SubSeq(t, 1, Len(s))
<1>3. u \in Seq(S) /\ Len(u) = Len(s) /\ \A i \in 1 .. Len(s) : u[i] = t[i]
  <2>1. \A i \in 1 .. Len(s) : t[i] \in S
    BY <1>1, ElementOfSeq
  <2> DEFINE n == Len(s)
             one == 1
  <2>2. n \in Int /\ one \in Int /\ \A i \in one .. n : t[i] \in S
    BY <1>1, <2>1
  <2> HIDE DEF n, one
  <2>3. /\ SubSeq(t, one, n) \in Seq(S)
        /\ Len(SubSeq(t, one, n)) = IF one <= n THEN n - one + 1 ELSE 0
        /\ \A i \in 1 .. n - one + 1 : SubSeq(t, one, n)[i] = t[one + i - 1]
    BY <2>2, SubSeqProperties
  <2> QED BY <1>1, <2>3 DEF n, one
<1> HIDE DEF u
<1>4. (\A i \in 1 .. Len(s) : s[i] = t[i]) => u = s
  BY <1>3, SeqEqual
<1> QED BY <1>3, <1>4 DEF u

-----------------------------------------------------------------------------
(* Comparing. *)

LEMMA MinPair ==
  ASSUME NEW a \in Int, NEW b \in Int
  PROVE  Min({a, b}) = IF a <= b THEN a ELSE b
<1> DEFINE D == {a, b}
           m == IF a <= b THEN a ELSE b
<1>1. D \in SUBSET Int /\ m \in D /\ \A x \in D : m <= x
  OBVIOUS
<1> HIDE DEF D, m
<1>2. Min(D) = m
  BY <1>1, MinIs
<1> QED BY <1>2 DEF D, m

(* The two slices agree up to position k. *)
Agree(s, t, k) ==
  /\ k \in Nat /\ k <= Len(s) /\ k <= Len(t)
  /\ \A i \in 1 .. k : s[i] = t[i]

(* The order of strings. *)
Less(s, t) ==
  \E k \in Nat :
    /\ Agree(s, t, k)
    /\ \/ k = Len(s) /\ k < Len(t)
       \/ k < Len(s) /\ k < Len(t) /\ s[k + 1] < t[k + 1]

LEMMA OffsetIs ==
  ASSUME NEW s \in Seq(Int), NEW t \in Seq(Int)
  PROVE  LET off == DifferenceOffset(s, t)
             len == Min({Len(s), Len(t)})
         IN  /\ Agree(s, t, off)
             /\ len = IF Len(s) <= Len(t) THEN Len(s) ELSE Len(t)
             /\ off = len \/ (off < len /\ s[off + 1] # t[off + 1])
<1> DEFINE off == DifferenceOffset(s, t)
           len == Min({Len(s), Len(t)})
           D == {len} \cup {i \in 0 .. len - 1 : s[i + 1] # t[i + 1]}
           low == 0
<1>1. Len(s) \in Nat /\ Len(t) \in Nat
  BY LenProperties
<1>2. len = IF Len(s) <= Len(t) THEN Len(s) ELSE Len(t)
  <2> DEFINE m == Len(s)
             n == Len(t)
  <2>1. m \in Int /\ n \in Int
    BY <1>1
  <2> HIDE DEF m, n
  <2>2. Min({m, n}) = IF m <= n THEN m ELSE n
    BY <2>1, MinPair
  <2> QED BY <2>2 DEF m, n
<1>3. off = Min(D)
  BY DEF DifferenceOffset
<1> HIDE DEF off, len
<1>4. D \in SUBSET Int /\ D # {} /\ low \in Int /\ \A x \in D : low <= x
  BY <1>1, <1>2
<1> HIDE DEF D, low
<1>5. off \in D /\ \A x \in D : off <= x
  BY <1>3, <1>4, MinOf
<1>6. off \in Nat /\ off <= len /\ len \in Nat
  BY <1>1, <1>2, <1>5 DEF D
<1>7. off = len \/ (off < len /\ s[off + 1] # t[off + 1])
  BY <1>5, <1>6 DEF D
<1>8. ASSUME NEW i \in 1 .. off, s[i] # t[i] PROVE FALSE
  <2> DEFINE j == i - 1
  <2>1. j \in 0 .. len - 1 /\ j + 1 = i /\ j < off
    BY <1>6
  <2> HIDE DEF j
  <2>2. j \in D
    BY <1>8, <2>1 DEF D
  <2> QED BY <1>5, <1>6, <2>1, <2>2
<1> QED BY <1>2, <1>6, <1>7, <1>8 DEF Agree, off, len

LEMMA LessProper ==
  ASSUME NEW s \in Seq(Int), NEW t \in Seq(Int), Less(s, t)
  PROVE  ~Less(t, s) /\ s # t
<1>1. PICK k \in Nat :
        /\ Agree(s, t, k)
        /\ \/ k = Len(s) /\ k < Len(t)
           \/ k < Len(s) /\ k < Len(t) /\ s[k + 1] < t[k + 1]
  BY DEF Less
<1>2. /\ Len(s) \in Nat /\ Len(t) \in Nat
      /\ \A i \in 1 .. Len(s) : s[i] \in Int
      /\ \A i \in 1 .. Len(t) : t[i] \in Int
  BY LenProperties, ElementOfSeq
<1>3. s # t
  <2>1. CASE k = Len(s) /\ k < Len(t)
    BY <2>1, <1>2
  <2>2. CASE k < Len(s) /\ k < Len(t) /\ s[k + 1] < t[k + 1]
    BY <2>2, <1>2
  <2> QED BY <1>1, <2>1, <2>2
<1>4. ASSUME NEW j \in Nat, Agree(t, s, j),
             \/ j = Len(t) /\ j < Len(s)
             \/ j < Len(t) /\ j < Len(s) /\ t[j + 1] < s[j + 1]
      PROVE  FALSE
  <2>1. CASE j < k
    <3>1. j + 1 \in 1 .. k /\ j + 1 \in 1 .. Len(s) /\ j < Len(t)
      BY <1>1, <1>2, <2>1 DEF Agree
    <3>2. s[j + 1] = t[j + 1] /\ s[j + 1] \in Int
      BY <1>1, <1>2, <3>1 DEF Agree
    <3>3. t[j + 1] < s[j + 1]
      BY <1>2, <1>4, <3>1
    <3> QED BY <3>2, <3>3
  <2>2. CASE k < j
    <3>1. k + 1 \in 1 .. j /\ k + 1 \in 1 .. Len(s) /\ k < Len(s)
      BY <1>2, <1>4, <2>2 DEF Agree
    <3>2. s[k + 1] = t[k + 1] /\ s[k + 1] \in Int
      BY <1>2, <1>4, <3>1 DEF Agree
    <3>3. s[k + 1] < t[k + 1]
      BY <1>1, <1>2, <3>1
    <3> QED BY <3>2, <3>3
  <2>3. CASE j = k
    <3>1. k < Len(s) /\ k < Len(t) /\ s[k + 1] < t[k + 1] /\ t[k + 1] < s[k + 1]
      BY <1>1, <1>2, <1>4, <2>3
    <3>2. s[k + 1] \in Int /\ t[k + 1] \in Int
      BY <1>2, <3>1
    <3> QED BY <3>1, <3>2
  <2> QED BY <2>1, <2>2, <2>3
<1> QED BY <1>3, <1>4 DEF Less

LEMMA LessTransitive ==
  ASSUME NEW s \in Seq(Int), NEW t \in Seq(Int), NEW r \in Seq(Int),
         Less(s, t), Less(t, r)
  PROVE  Less(s, r)
<1>1. PICK k \in Nat :
        /\ Agree(s, t, k)
        /\ \/ k = Len(s) /\ k < Len(t)
           \/ k < Len(s) /\ k < Len(t) /\ s[k + 1] < t[k + 1]
  BY DEF Less
<1>2. PICK j \in Nat :
        /\ Agree(t, r, j)
        /\ \/ j = Len(t) /\ j < Len(r)
           \/ j < Len(t) /\ j < Len(r) /\ t[j + 1] < r[j + 1]
  BY DEF Less
<1>3. /\ Len(s) \in Nat /\ Len(t) \in Nat /\ Len(r) \in Nat
      /\ \A i \in 1 .. Len(s) : s[i] \in Int
      /\ \A i \in 1 .. Len(t) : t[i] \in Int
      /\ \A i \in 1 .. Len(r) : r[i] \in Int
  BY LenProperties, ElementOfSeq
<1>4. CASE k < j
  <2>1. Agree(s, r, k) /\ k < Len(r) /\ t[k + 1] = r[k + 1]
    BY <1>1, <1>2, <1>3, <1>4 DEF Agree
  <2> QED BY <1>1, <2>1 DEF Less
<1>5. CASE j < k
  <2>1. Agree(s, r, j) /\ j < Len(s) /\ j < Len(t) /\ s[j + 1] = t[j + 1]
    BY <1>1, <1>2, <1>3, <1>5, SMTT(30) DEF Agree
  <2>2. j < Len(r) /\ t[j + 1] < r[j + 1]
    BY <1>2, <1>3, <2>1
  <2> QED BY <2>1, <2>2 DEF Less
<1>6. CASE j = k
  <2>1. Agree(s, r, k) /\ k < Len(r)
    BY <1>1, <1>2, <1>3, <1>6 DEF Agree
  <2>2. CASE k = Len(s)
    BY <2>1, <2>2 DEF Less
  <2>3. CASE k # Len(s)
    <3>1. k < Len(s) /\ s[k + 1] < t[k + 1] /\ t[k + 1] < r[k + 1]
      BY <1>1, <1>2, <1>3, <1>6, <2>3
    <3>2. s[k + 1] \in Int /\ t[k + 1] \in Int /\ r[k + 1] \in Int
      BY <1>1, <1>3, <2>1, <3>1, SMTT(30) DEF Agree
    <3>3. s[k + 1] < r[k + 1]
      BY <3>1, <3>2
    <3> QED BY <2>1, <3>1, <3>3 DEF Less
  <2> QED BY <2>2, <2>3
<1> QED BY <1>4, <1>5, <1>6

(* compare() tells the order. *)
LEMMA CompareIs ==
  ASSUME NEW s \in Seq(Int), NEW t \in Seq(Int)
  PROVE  /\ Compare(s, t) = -1 <=> Less(s, t)
         /\ Compare(s, t) = 1 <=> Less(t, s)
         /\ Compare(s, t) = 0 <=> s = t
         /\ Compare(s, t) \in {-1, 0, 1}
<1> DEFINE off == DifferenceOffset(s, t)
           len == Min({Len(s), Len(t)})
           c == Compare(s, t)
<1>1. /\ Agree(s, t, off)
      /\ len = IF Len(s) <= Len(t) THEN Len(s) ELSE Len(t)
      /\ off = len \/ (off < len /\ s[off + 1] # t[off + 1])
  BY OffsetIs
<1>2. /\ Len(s) \in Nat /\ Len(t) \in Nat
      /\ \A i \in 1 .. Len(s) : s[i] \in Int
      /\ \A i \in 1 .. Len(t) : t[i] \in Int
  BY LenProperties, ElementOfSeq
<1>3. c = IF off < len THEN Sign(s[off + 1] - t[off + 1]) ELSE Sign(Len(s) - Len(t))
  BY DEF Compare
<1> HIDE DEF off, len, c
<1>4. off \in Nat /\ off <= Len(s) /\ off <= Len(t) /\ Agree(t, s, off)
  BY <1>1 DEF Agree
<1>5. \/ c = -1 /\ Less(s, t)
      \/ c = 1 /\ Less(t, s)
      \/ c = 0 /\ s = t
  <2>1. CASE off < len
    <3> DEFINE x == s[off + 1]
               y == t[off + 1]
    <3>1. off < Len(s) /\ off < Len(t)
      BY <1>1, <1>2, <1>4, <2>1
    <3>2. x \in Int /\ y \in Int
      BY <1>2, <1>4, <3>1
    <3>3. x # y
      <4>1. len \in Int
        BY <1>1, <1>2
      <4> QED BY <1>1, <1>4, <2>1, <4>1
    <3>4. c = Sign(x - y)
      BY <1>3, <2>1
    <3>5. x < y => Less(s, t)
      BY <1>1, <1>4, <3>1 DEF Less
    <3>6. y < x => Less(t, s)
      BY <1>4, <3>1 DEF Less
    <3> HIDE DEF x, y
    <3>7. (c = -1 /\ x < y) \/ (c = 1 /\ y < x)
      BY <3>2, <3>3, <3>4 DEF Sign
    <3> QED BY <3>5, <3>6, <3>7
  <2>2. CASE off = len
    <3>1. c = Sign(Len(s) - Len(t))
      BY <1>2, <1>3, <1>4, <2>2
    <3>2. CASE Len(s) < Len(t)
      <4>1. c = -1 /\ off = Len(s)
        BY <1>1, <1>2, <2>2, <3>1, <3>2 DEF Sign
      <4> QED BY <1>1, <1>4, <3>2, <4>1 DEF Less
    <3>3. CASE Len(t) < Len(s)
      <4>1. c = 1 /\ off = Len(t)
        BY <1>1, <1>2, <2>2, <3>1, <3>3 DEF Sign
      <4> QED BY <1>4, <3>3, <4>1 DEF Less
    <3>4. CASE Len(s) = Len(t)
      <4>1. c = 0 /\ off = Len(s)
        BY <1>1, <1>2, <2>2, <3>1, <3>4 DEF Sign
      <4>2. s = t
        BY <1>1, <3>4, <4>1, SeqEqual DEF Agree
      <4> QED BY <4>1, <4>2
    <3> QED BY <1>2, <3>2, <3>3, <3>4
  <2> QED BY <1>1, <2>1, <2>2
<1>6. /\ Less(s, t) => ~Less(t, s) /\ s # t
      /\ Less(t, s) => ~Less(s, t) /\ s # t
  BY LessProper
<1>7. /\ c = -1 <=> Less(s, t)
      /\ c = 1 <=> Less(t, s)
      /\ c = 0 <=> s = t
      /\ c \in {-1, 0, 1}
  BY <1>5, <1>6
<1> QED BY <1>7 DEF c

LEMMA ReverseIs ==
  ASSUME NEW S, NEW s \in Seq(S)
  PROVE  Reverse(s) \in Seq(S) /\ Len(Reverse(s)) = Len(s)
<1>1. Len(s) \in Nat /\ \A i \in 1 .. Len(s) : s[Len(s) - i + 1] \in S
  BY LenProperties, ElementOfSeq
<1> QED BY <1>1 DEF Reverse

LEMMA ComparisonsHold ==
  ASSUME call.name = "compare",
         NEW s \in Slices, NEW t \in Slices, Valid(s), Valid(t),
         call.args = <<s, t>>, out = Compare(s, t)
  PROVE  ComparisonsAgree
<1> DEFINE off == DifferenceOffset(s, t)
           len == Min({Len(s), Len(t)})
<1>1. /\ s \in Seq(Int) /\ t \in Seq(Int) /\ Subject = s /\ Target = t
      /\ Chars(s) = s /\ Chars(t) = t
  BY SlicesAssumption DEF Valid, Subject, Target, Chars
<1>2. /\ Agree(s, t, off)
      /\ len = IF Len(s) <= Len(t) THEN Len(s) ELSE Len(t)
      /\ off = len \/ (off < len /\ s[off + 1] # t[off + 1])
  BY <1>1, OffsetIs
<1>3. /\ out = -1 <=> Less(s, t)
      /\ out = 1 <=> Less(t, s)
      /\ out = 0 <=> s = t
      /\ out \in {-1, 0, 1}
  BY <1>1, CompareIs
<1>4. out = 0 <=> Equals(s, t)
  BY <1>1, <1>3 DEF Equals
<1>5. Compare(t, s) = -out
  <2> DEFINE back == Compare(t, s)
  <2>1. /\ back = -1 <=> Less(t, s)
        /\ back = 1 <=> Less(s, t)
        /\ back = 0 <=> t = s
        /\ back \in {-1, 0, 1}
    BY <1>1, CompareIs
  <2> HIDE DEF back
  <2>2. back = -out
    BY <1>3, <2>1
  <2> QED BY <2>2 DEF back
<1>6. ASSUME NEW r \in Slices, Valid(r), Compare(t, r) = out PROVE Compare(s, r) = out
  <2> DEFINE there == Compare(t, r)
             whole == Compare(s, r)
  <2>1. r \in Seq(Int)
    BY <1>6, SlicesAssumption DEF Valid
  <2>2. /\ there = -1 <=> Less(t, r)
        /\ there = 1 <=> Less(r, t)
        /\ there = 0 <=> t = r
    BY <1>1, <2>1, CompareIs
  <2>3. /\ whole = -1 <=> Less(s, r)
        /\ whole = 1 <=> Less(r, s)
        /\ whole = 0 <=> s = r
    BY <1>1, <2>1, CompareIs
  <2>4. there = out
    BY <1>6
  <2> HIDE DEF there, whole
  <2>5. Less(s, t) /\ Less(t, r) => Less(s, r)
    BY <1>1, <2>1, LessTransitive
  <2>6. Less(r, t) /\ Less(t, s) => Less(r, s)
    BY <1>1, <2>1, LessTransitive
  <2>7. whole = out
    BY <1>3, <2>2, <2>3, <2>4, <2>5, <2>6
  <2> QED BY <2>7 DEF whole
<1>7. Len(s) \in Nat /\ Len(t) \in Nat
  BY <1>1, LenProperties
<1>8. /\ StartsWith(s, t) <=> Len(t) <= Len(s) /\ \A i \in 1 .. Len(t) : t[i] = s[i]
      /\ StartsWith(t, s) <=> Len(s) <= Len(t) /\ \A i \in 1 .. Len(s) : s[i] = t[i]
  BY <1>1, PrefixIs DEF StartsWith
<1> HIDE DEF off, len
<1>9. StartsWith(s, t) \/ StartsWith(t, s) <=> off = len
  <2>1. ASSUME off = len PROVE StartsWith(s, t) \/ StartsWith(t, s)
    BY <1>2, <1>7, <1>8, <2>1 DEF Agree
  <2>2. ASSUME StartsWith(s, t) \/ StartsWith(t, s), off # len PROVE FALSE
    <3>1. off + 1 \in 1 .. Len(s) /\ off + 1 \in 1 .. Len(t) /\ s[off + 1] # t[off + 1]
      BY <1>2, <1>7, <2>2 DEF Agree
    <3> QED BY <1>8, <2>2, <3>1
  <2> QED BY <2>1, <2>2
<1>10. StartsWith(s, t) => out >= 0
  <2>1. ASSUME StartsWith(s, t), Less(s, t) PROVE FALSE
    <3>1. PICK k \in Nat :
            /\ Agree(s, t, k)
            /\ \/ k = Len(s) /\ k < Len(t)
               \/ k < Len(s) /\ k < Len(t) /\ s[k + 1] < t[k + 1]
      BY <2>1 DEF Less
    <3>2. k < Len(s) /\ k + 1 \in 1 .. Len(t) /\ s[k + 1] < t[k + 1]
      BY <1>7, <1>8, <2>1, <3>1
    <3>3. s[k + 1] = t[k + 1] /\ t[k + 1] \in Int
      BY <1>1, <1>8, <2>1, <3>2, ElementOfSeq
    <3> QED BY <3>2, <3>3
  <2> QED BY <1>3, <2>1
<1>11. off < len => (out < 0 <=> s[off + 1] < t[off + 1])
  <2> SUFFICES ASSUME off < len PROVE out < 0 <=> s[off + 1] < t[off + 1]
    OBVIOUS
  <2>1. off < Len(s) /\ off < Len(t) /\ off \in Nat
    BY <1>2, <1>7 DEF Agree
  <2>2. s[off + 1] \in Int /\ t[off + 1] \in Int
    <3>1. off + 1 \in 1 .. Len(s) /\ off + 1 \in 1 .. Len(t)
      BY <1>7, <2>1
    <3> QED BY <1>1, <3>1, ElementOfSeq
  <2>3. out = Sign(s[off + 1] - t[off + 1])
    BY DEF Compare, off, len
  <2> QED BY <2>2, <2>3 DEF Sign
<1>12. EndsWith(s, t) <=> StartsWith(Reverse(s), Reverse(t))
  <2>1. Valid(Reverse(s)) /\ Valid(Reverse(t))
    BY <1>1, ReverseIs, SlicesAssumption DEF Valid
  <2> QED BY <1>1, <2>1 DEF EndsWith, StartsWith, IsSuffix, Chars
<1> QED BY <1>1, <1>4, <1>5, <1>6, <1>9, <1>10, <1>11, <1>12
        DEF ComparisonsAgree, off, len

-----------------------------------------------------------------------------
(* Slices. *)

IsSlice(s) == s \in Seq(Int) \cup {Invalid}

Places(s) == 0 .. Len(Chars(s)) - 1

LEMMA CharsAre ==
  ASSUME NEW s, IsSlice(s)
  PROVE  /\ Chars(s) \in Seq(Int) /\ Len(Chars(s)) \in Nat
         /\ Valid(s) => s \in Seq(Int) /\ Chars(s) = s
         /\ s \in Seq(Int) => Valid(s)
         /\ ~Valid(s) => s = Invalid /\ Chars(s) = <<>> /\ Len(Chars(s)) = 0
<1>1. Chars(s) \in Seq(Int)
  BY EmptySeq DEF IsSlice, Chars, Valid
<1> QED BY <1>1, EmptySeq, LenProperties, SlicesAssumption DEF IsSlice, Chars, Valid

-----------------------------------------------------------------------------
(* The first and the last of a set of positions. *)

LEMMA FirstIs ==
  ASSUME NEW D \in SUBSET Int, NEW m \in D, \A x \in D : m <= x
  PROVE  FirstOf(D) = m
BY MinIs DEF FirstOf

LEMMA LastIs ==
  ASSUME NEW D \in SUBSET Int, NEW m \in D, \A x \in D : x <= m
  PROVE  LastOf(D) = m
BY MaxIs DEF LastOf

LEMMA FirstHit ==
  ASSUME NEW D \in SUBSET Nat
  PROVE  /\ FirstOf(D) = NPos <=> D = {}
         /\ D # {} => FirstOf(D) \in D /\ \A x \in D : FirstOf(D) <= x
<1> DEFINE low == 0
<1>1. D \in SUBSET Int /\ low \in Int /\ \A x \in D : low <= x
  OBVIOUS
<1> HIDE DEF low
<1>2. CASE D # {}
  <2>1. Min(D) \in D /\ \A x \in D : Min(D) <= x
    BY <1>1, <1>2, MinOf
  <2>2. FirstOf(D) = Min(D)
    BY <1>2 DEF FirstOf
  <2>3. Min(D) # NPos
    <3> DEFINE k == Min(D)
    <3>1. k \in Nat
      BY <2>1
    <3> HIDE DEF k
    <3>2. k # -1
      BY <3>1
    <3> QED BY <3>2 DEF k, NPos
  <2> QED BY <1>2, <2>1, <2>2, <2>3
<1>3. CASE D = {}
  BY <1>3 DEF FirstOf
<1> QED BY <1>2, <1>3

LEMMA LastHit ==
  ASSUME NEW D \in SUBSET Nat, NEW n \in Int, \A x \in D : x <= n
  PROVE  /\ LastOf(D) = NPos <=> D = {}
         /\ D # {} => LastOf(D) \in D /\ \A x \in D : x <= LastOf(D)
<1>1. D \in SUBSET Int
  OBVIOUS
<1>2. CASE D # {}
  <2>1. Max(D) \in D /\ \A x \in D : x <= Max(D)
    BY <1>1, <1>2, MaxOf
  <2>2. LastOf(D) = Max(D)
    BY <1>2 DEF LastOf
  <2>3. Max(D) # NPos
    <3> DEFINE k == Max(D)
    <3>1. k \in Nat
      BY <2>1
    <3> HIDE DEF k
    <3>2. k # -1
      BY <3>1
    <3> QED BY <3>2 DEF k, NPos
  <2> QED BY <1>2, <2>1, <2>2, <2>3
<1>3. CASE D = {}
  BY <1>3 DEF LastOf
<1> QED BY <1>2, <1>3

(* Indices count from 1, positions from 0. *)
LEMMA FirstShift ==
  ASSUME NEW I \in SUBSET (Nat \ {0}), NEW D \in SUBSET Nat,
         \A i \in I : i - 1 \in D, \A x \in D : x + 1 \in I
  PROVE  (IF I # {} THEN Min(I) ELSE 0) - 1 = FirstOf(D)
<1>1. CASE I = {}
  BY <1>1 DEF FirstOf, NPos
<1>2. CASE I # {}
  <2> DEFINE low == 1
             m == Min(I)
             k == m - 1
  <2>1. I \in SUBSET Int /\ low \in Int /\ \A i \in I : low <= i
    OBVIOUS
  <2> HIDE DEF low
  <2>2. m \in I /\ \A i \in I : m <= i
    BY <1>2, <2>1, MinOf
  <2> HIDE DEF m
  <2>3. k \in D /\ \A x \in D : k <= x
    <3>1. k \in D
      BY <2>2
    <3>2. ASSUME NEW x \in D PROVE k <= x
      <4>1. m <= x + 1 /\ x \in Int /\ m \in Int
        BY <2>2
      <4> QED BY <4>1
    <3> QED BY <3>1, <3>2
  <2> HIDE DEF k
  <2>4. FirstOf(D) = k
    <3>1. D \in SUBSET Int
      OBVIOUS
    <3> QED BY <2>3, <3>1, FirstIs
  <2> QED BY <1>2, <2>4 DEF k, m
<1> QED BY <1>1, <1>2

LEMMA LastShift ==
  ASSUME NEW I \in SUBSET (Nat \ {0}), NEW D \in SUBSET Nat, NEW n \in Int,
         \A i \in I : i - 1 \in D, \A x \in D : x + 1 \in I, \A i \in I : i <= n
  PROVE  (IF I # {} THEN Max(I) ELSE 0) - 1 = LastOf(D)
<1>1. CASE I = {}
  BY <1>1 DEF LastOf, NPos
<1>2. CASE I # {}
  <2> DEFINE m == Max(I)
             k == m - 1
  <2>1. I \in SUBSET Int
    OBVIOUS
  <2>2. m \in I /\ \A i \in I : i <= m
    BY <1>2, <2>1, MaxOf
  <2> HIDE DEF m
  <2>3. k \in D /\ \A x \in D : x <= k
    <3>1. k \in D
      BY <2>2
    <3>2. ASSUME NEW x \in D PROVE x <= k
      <4>1. x + 1 <= m /\ x \in Int /\ m \in Int
        BY <2>2
      <4> QED BY <4>1
    <3> QED BY <3>1, <3>2
  <2> HIDE DEF k
  <2>4. LastOf(D) = k
    <3>1. D \in SUBSET Int
      OBVIOUS
    <3> QED BY <2>3, <3>1, LastIs
  <2> QED BY <1>2, <2>4 DEF k, m
<1> QED BY <1>1, <1>2

-----------------------------------------------------------------------------
(* What the searches answer. *)

LEMMA FindIs ==
  ASSUME NEW s, IsSlice(s), NEW c, NEW pos \in Nat
  PROVE  Find(s, c, pos) = FirstOf({i \in Places(s) : i >= pos /\ Chars(s)[i + 1] = c})
<1> DEFINE I == {i \in pos + 1 .. Len(Chars(s)) : Chars(s)[i] = c}
           D == {i \in Places(s) : i >= pos /\ Chars(s)[i + 1] = c}
<1>1. Find(s, c, pos) = (IF I # {} THEN Min(I) ELSE 0) - 1
  BY DEF Find, SelectInSubSeq
<1>2. Len(Chars(s)) \in Nat
  BY CharsAre
<1>3. /\ I \in SUBSET (Nat \ {0}) /\ D \in SUBSET Nat
      /\ \A i \in I : i - 1 \in D
      /\ \A x \in D : x + 1 \in I
  BY <1>2 DEF Places
<1> HIDE DEF I, D
<1>4. (IF I # {} THEN Min(I) ELSE 0) - 1 = FirstOf(D)
  BY <1>3, FirstShift
<1> QED BY <1>1, <1>4 DEF D

LEMMA RFindIs ==
  ASSUME NEW s, IsSlice(s), NEW c, NEW pos \in Nat
  PROVE  RFind(s, c, pos) = LastOf({i \in Places(s) : i <= pos /\ Chars(s)[i + 1] = c})
<1> DEFINE n == Len(Chars(s))
           p == pos + 1
           from == Min({p, n})
           I == {i \in 1 .. from : Chars(s)[i] = c}
           D == {i \in Places(s) : i <= pos /\ Chars(s)[i + 1] = c}
<1>1. RFind(s, c, pos) = (IF I # {} THEN Max(I) ELSE 0) - 1
  BY DEF RFind, SelectLastInSubSeq
<1>2. n \in Nat /\ from = IF p <= n THEN p ELSE n
  <2>1. n \in Int /\ p \in Int /\ n \in Nat
    BY CharsAre
  <2> HIDE DEF n, p
  <2> QED BY <2>1, MinPair
<1> HIDE DEF from
<1>3. /\ I \in SUBSET (Nat \ {0}) /\ D \in SUBSET Nat /\ n \in Int
      /\ \A i \in I : i - 1 \in D
      /\ \A x \in D : x + 1 \in I
      /\ \A i \in I : i <= n
  BY <1>2 DEF Places
<1> HIDE DEF I, D, n
<1>4. (IF I # {} THEN Max(I) ELSE 0) - 1 = LastOf(D)
  BY <1>3, LastShift
<1> QED BY <1>1, <1>4 DEF D

(* contains() *)
LEMMA HasIs ==
  ASSUME NEW t, IsSlice(t), NEW c
  PROVE  Has(t, c) <=> c \in ToSet(Chars(t))
<1> DEFINE z == 0
           D == {i \in Places(t) : i >= z /\ Chars(t)[i + 1] = c}
<1>1. z \in Nat
  OBVIOUS
<1> HIDE DEF z
<1>2. Find(t, c, z) = FirstOf(D)
  BY <1>1, FindIs
<1>3. D \in SUBSET Nat
  BY CharsAre DEF Places
<1>4. D = {} <=> c \notin ToSet(Chars(t))
  <2>1. DOMAIN Chars(t) = 1 .. Len(Chars(t)) /\ Len(Chars(t)) \in Nat
    BY CharsAre, LenProperties
  <2>2. ASSUME NEW k \in DOMAIN Chars(t), Chars(t)[k] = c PROVE k - 1 \in D
    BY <2>1, <2>2 DEF Places, z
  <2>3. ASSUME NEW x \in D PROVE x + 1 \in DOMAIN Chars(t) /\ Chars(t)[x + 1] = c
    BY <2>1 DEF Places
  <2> HIDE DEF D
  <2> QED BY <2>2, <2>3 DEF ToSet
<1> HIDE DEF D
<1>5. FirstOf(D) = NPos <=> D = {}
  BY <1>3, FirstHit
<1> QED BY <1>2, <1>4, <1>5 DEF Has, z

(* The four searches for characters of a target and for others. *)
LEMMA FindAnyIs ==
  ASSUME NEW s, IsSlice(s), NEW t, IsSlice(t)
  PROVE  LET hits == {i \in Places(s) : Chars(s)[i + 1] \in ToSet(Chars(t))}
             others == {i \in Places(s) : Chars(s)[i + 1] \notin ToSet(Chars(t))}
         IN  /\ FindFirstOf(s, t) = FirstOf(hits)
             /\ FindLastOf(s, t) = LastOf(hits)
             /\ Valid(t) => FindFirstNotOf(s, t) = FirstOf(others)
             /\ Valid(t) => FindLastNotOf(s, t) = LastOf(others)
<1> DEFINE ch == Chars(s)
           n == Len(ch)
           I == {i \in 1 .. n : Has(t, ch[i])}
           J == {i \in 1 .. n : ~Has(t, ch[i])}
           D == {i \in Places(s) : ch[i + 1] \in ToSet(Chars(t))}
           E == {i \in Places(s) : ch[i + 1] \notin ToSet(Chars(t))}
<1>1. n \in Nat
  BY CharsAre
<1>2. /\ FindFirstOf(s, t) = (IF I # {} THEN Min(I) ELSE 0) - 1
      /\ FindLastOf(s, t) = (IF I # {} THEN Max(I) ELSE 0) - 1
      /\ Valid(t) => FindFirstNotOf(s, t) = (IF J # {} THEN Min(J) ELSE 0) - 1
      /\ Valid(t) => FindLastNotOf(s, t) = (IF J # {} THEN Max(J) ELSE 0) - 1
  BY DEF FindFirstOf, FindLastOf, FindFirstNotOf, FindLastNotOf, SelectInSeq,
         SelectLastInSeq
<1>3. Places(s) = 0 .. n - 1
  BY DEF Places
<1>4. \A c : Has(t, c) <=> c \in ToSet(Chars(t))
  BY HasIs
<1> HIDE DEF ch, n
<1>5. /\ I \in SUBSET (Nat \ {0}) /\ D \in SUBSET Nat /\ n \in Int
      /\ \A i \in I : i - 1 \in D
      /\ \A x \in D : x + 1 \in I
      /\ \A i \in I : i <= n
  BY <1>1, <1>3, <1>4
<1>6. /\ J \in SUBSET (Nat \ {0}) /\ E \in SUBSET Nat
      /\ \A i \in J : i - 1 \in E
      /\ \A x \in E : x + 1 \in J
      /\ \A i \in J : i <= n
  BY <1>1, <1>3, <1>4
<1> HIDE DEF I, J, D, E
<1>7. /\ (IF I # {} THEN Min(I) ELSE 0) - 1 = FirstOf(D)
      /\ (IF I # {} THEN Max(I) ELSE 0) - 1 = LastOf(D)
  BY <1>5, FirstShift, LastShift
<1>8. /\ (IF J # {} THEN Min(J) ELSE 0) - 1 = FirstOf(E)
      /\ (IF J # {} THEN Max(J) ELSE 0) - 1 = LastOf(E)
  BY <1>5, <1>6, FirstShift, LastShift
<1> QED BY <1>2, <1>7, <1>8 DEF D, E, ch

(* t occurs in s at position i. *)
Occurs(s, t, i) ==
  i + Len(t) <= Len(s) /\ \A k \in 1 .. Len(t) : s[i + k] = t[k]

LEMMA OccursSub ==
  ASSUME NEW S, NEW s \in Seq(S), NEW t \in Seq(S), NEW i \in Nat, i + Len(t) <= Len(s)
  PROVE  SubSeq(s, i + 1, i + Len(t)) = t <=> Occurs(s, t, i)
<1> DEFINE m == i + 1
           k == i + Len(t)
           u == SubSeq(s, m, k)
<1>1. Len(s) \in Nat /\ Len(t) \in Nat
  BY LenProperties
<1>2. m \in Int /\ k \in Int /\ \A j \in m .. k : s[j] \in S
  <2>1. \A j \in m .. k : j \in 1 .. Len(s)
    BY <1>1
  <2> QED BY <1>1, <2>1, ElementOfSeq
<1>3. m = i + 1 /\ k = i + Len(t)
  OBVIOUS
<1> HIDE DEF m, k
<1>4. /\ u \in Seq(S) /\ Len(u) = IF m <= k THEN k - m + 1 ELSE 0
      /\ \A j \in 1 .. k - m + 1 : u[j] = s[m + j - 1]
  BY <1>2, SubSeqProperties
<1> HIDE DEF u
<1>5. Len(u) = Len(t) /\ \A j \in 1 .. Len(t) : u[j] = s[i + j]
  <2>1. Len(u) = Len(t)
    BY <1>1, <1>3, <1>4
  <2>2. ASSUME NEW j \in 1 .. Len(t) PROVE u[j] = s[i + j]
    <3>1. j \in 1 .. k - m + 1 /\ m + j - 1 = i + j
      BY <1>1, <1>3
    <3> QED BY <1>4, <3>1
  <2> QED BY <2>1, <2>2
<1>6. (\A j \in 1 .. Len(t) : u[j] = t[j]) => u = t
  BY <1>4, <1>5, SeqEqual
<1>7. u = t <=> Occurs(s, t, i)
  BY <1>5, <1>6 DEF Occurs
<1> QED BY <1>7 DEF u, m, k

LEMMA OccursStarts ==
  ASSUME NEW s \in Seq(Int), NEW t \in Seq(Int), NEW i \in 0 .. Len(s) - 1
  PROVE  StartsWith(Substr(s, i, Len(s)), t) <=> Occurs(s, t, i)
<1> DEFINE u == From(s, i)
           n == Len(s)
<1>0. IsSlice(s) /\ IsSlice(t)
  BY DEF IsSlice
<1>1. /\ n \in Nat /\ i \in Nat /\ i < n /\ Len(t) \in Nat
      /\ Valid(s) /\ Valid(t) /\ Chars(t) = t
  BY <1>0, CharsAre, LenProperties
<1>2. /\ u \in Seq(Int) /\ Len(u) = n - i
      /\ \A k \in 1 .. n - i : u[k] = s[i + k]
  <2>1. i \in 0 .. Len(s)
    BY <1>1
  <2> QED BY <2>1, FromIs
<1>3. Substr(s, i, n) = u
  <2>1. i # NPos /\ ~(i >= Len(s)) /\ n >= Len(s) - i
    BY <1>1 DEF NPos
  <2> HIDE DEF u
  <2> QED BY <1>1, <2>1 DEF Substr, u
<1> HIDE DEF u
<1>4. Chars(u) = u
  <2>1. IsSlice(u)
    BY <1>2 DEF IsSlice
  <2> QED BY <1>2, <2>1, CharsAre
<1>5. IsPrefix(t, u) <=> Len(t) <= Len(u) /\ \A k \in 1 .. Len(t) : t[k] = u[k]
  <2>1. t \in Seq(Int) /\ u \in Seq(Int)
    BY <1>2
  <2> QED BY <2>1, PrefixIs
<1>6. IsPrefix(t, u) <=> Occurs(s, t, i)
  <2>1. Len(t) <= Len(u) <=> i + Len(t) <= Len(s)
    BY <1>1, <1>2
  <2>2. Len(t) <= Len(u) => \A k \in 1 .. Len(t) : u[k] = s[i + k]
    BY <1>1, <1>2
  <2> QED BY <1>5, <2>1, <2>2 DEF Occurs
<1> QED BY <1>1, <1>3, <1>4, <1>6 DEF StartsWith, n

LEMMA FindSliceIs ==
  ASSUME NEW s \in Seq(Int), NEW t \in Seq(Int), t # <<>>, NEW pos \in Nat
  PROVE  FindSlice(s, t, pos) = FirstOf({i \in Places(s) : i >= pos /\ Occurs(s, t, i)})
<1> DEFINE D == {i \in Places(s) : i >= pos /\ Occurs(s, t, i)}
           hits == {i \in pos .. Len(s) - Len(t) : SubSeq(s, i + 1, i + Len(t)) = t}
<1>0. IsSlice(s) /\ IsSlice(t)
  BY DEF IsSlice
<1>1. /\ Valid(s) /\ Valid(t) /\ Chars(s) = s /\ Chars(t) = t
      /\ Len(s) \in Nat /\ Len(t) \in Nat \ {0}
  BY <1>0, CharsAre, LenProperties, EmptySeq
<1>2. FindSlice(s, t, pos) = FirstOf(hits)
  BY <1>1 DEF FindSlice, FirstOf
<1>3. hits = D
  <2>1. ASSUME NEW i \in hits PROVE i \in D
    <3>1. i \in Nat /\ i + Len(t) <= Len(s) /\ SubSeq(s, i + 1, i + Len(t)) = t
      BY <1>1
    <3>2. Occurs(s, t, i)
      BY <3>1, OccursSub
    <3> QED BY <1>1, <3>1, <3>2 DEF Places
  <2>2. ASSUME NEW i \in D PROVE i \in hits
    <3>1. i \in Nat /\ i >= pos /\ i + Len(t) <= Len(s)
      BY <1>1 DEF Places, Occurs
    <3>2. SubSeq(s, i + 1, i + Len(t)) = t
      BY <3>1, OccursSub
    <3> QED BY <1>1, <3>1, <3>2
  <2> QED BY <2>1, <2>2
<1> QED BY <1>2, <1>3

(* A slice of one character is found where the character is. *)
LEMMA FindOne ==
  ASSUME NEW s, IsSlice(s), NEW t \in Seq(Int), Len(t) = 1, NEW pos \in Nat
  PROVE  FindSlice(s, t, pos) = Find(s, t[1], pos)
<1>0. IsSlice(t)
  BY DEF IsSlice
<1>1. CASE Valid(s)
  <2> DEFINE c == t[1]
             D == {i \in Places(s) : i >= pos /\ Occurs(s, t, i)}
             E == {i \in Places(s) : i >= pos /\ Chars(s)[i + 1] = c}
  <2>0. t # <<>>
    BY EmptySeq
  <2>1. s \in Seq(Int) /\ Chars(s) = s /\ Len(s) \in Nat /\ t # <<>>
    BY <1>1, <2>0, CharsAre
  <2>2. D = E
    <3>1. ASSUME NEW i \in Places(s) PROVE Occurs(s, t, i) <=> s[i + 1] = c
      BY <2>1 DEF Places, Occurs
    <3> QED BY <2>1, <3>1
  <2>3. FindSlice(s, t, pos) = FirstOf(D)
    BY <2>1, FindSliceIs
  <2>4. Find(s, c, pos) = FirstOf(E)
    BY FindIs
  <2> QED BY <2>2, <2>3, <2>4
<1>2. CASE ~Valid(s)
  <2> DEFINE E == {i \in Places(s) : i >= pos /\ Chars(s)[i + 1] = t[1]}
  <2>1. E = {}
    BY <1>2, CharsAre DEF Places
  <2>2. Find(s, t[1], pos) = FirstOf(E)
    BY FindIs
  <2>3. FindSlice(s, t, pos) = NPos
    BY <1>2 DEF FindSlice
  <2> QED BY <2>1, <2>2, <2>3 DEF FirstOf
<1> QED BY <1>1, <1>2

LEMMA FindFirst ==
  ASSUME NEW s, IsSlice(s), NEW c
  PROVE  LET r == Find(s, c, 0)
             at == {i \in Places(s) : Chars(s)[i + 1] = c}
         IN  /\ r = NPos <=> at = {}
             /\ at # {} => r \in at /\ \A i \in at : r <= i
<1> DEFINE z == 0
           r == Find(s, c, z)
           D == {i \in Places(s) : i >= z /\ Chars(s)[i + 1] = c}
           at == {i \in Places(s) : Chars(s)[i + 1] = c}
<1>1. z \in Nat
  OBVIOUS
<1>2. D = at /\ D \in SUBSET Nat
  BY CharsAre DEF Places
<1> HIDE DEF z
<1>3. r = FirstOf(D)
  BY <1>1, FindIs
<1> HIDE DEF r, D, at
<1>4. /\ FirstOf(D) = NPos <=> D = {}
      /\ D # {} => FirstOf(D) \in D /\ \A x \in D : FirstOf(D) <= x
  BY <1>2, FirstHit
<1>5. /\ r = NPos <=> at = {}
      /\ at # {} => r \in at /\ \A i \in at : r <= i
  BY <1>2, <1>3, <1>4
<1> QED BY <1>5 DEF r, at, z

LEMMA RFindLast ==
  ASSUME NEW s, IsSlice(s), NEW c
  PROVE  LET r == RFind(s, c, Len(Chars(s)))
             at == {i \in Places(s) : Chars(s)[i + 1] = c}
         IN  /\ r = NPos <=> at = {}
             /\ at # {} => r \in at /\ \A i \in at : i <= r
<1> DEFINE n == Len(Chars(s))
           r == RFind(s, c, n)
           D == {i \in Places(s) : i <= n /\ Chars(s)[i + 1] = c}
           at == {i \in Places(s) : Chars(s)[i + 1] = c}
<1>1. n \in Nat
  BY CharsAre
<1>2. D = at /\ D \in SUBSET Nat /\ n \in Int /\ \A x \in D : x <= n
  BY <1>1 DEF Places
<1> HIDE DEF n
<1>3. r = LastOf(D)
  BY <1>1, RFindIs
<1> HIDE DEF r, D, at
<1>4. /\ LastOf(D) = NPos <=> D = {}
      /\ D # {} => LastOf(D) \in D /\ \A x \in D : x <= LastOf(D)
  BY <1>2, LastHit
<1>5. /\ r = NPos <=> at = {}
      /\ at # {} => r \in at /\ \A i \in at : i <= r
  BY <1>2, <1>3, <1>4
<1> QED BY <1>5 DEF r, at, n

(* The first of any of several characters is the first of their first places. *)
LEMMA FirstOfAny ==
  ASSUME NEW s, IsSlice(s), NEW T
  PROVE  FirstOf({i \in Places(s) : Chars(s)[i + 1] \in T})
           = FirstOf({Find(s, c, 0) : c \in T} \ {NPos})
<1> DEFINE hits == {i \in Places(s) : Chars(s)[i + 1] \in T}
           r(c) == Find(s, c, 0)
           at(c) == {i \in Places(s) : Chars(s)[i + 1] = c}
           firsts == {r(c) : c \in T} \ {NPos}
<1>1. ASSUME NEW c
      PROVE  /\ r(c) = NPos <=> at(c) = {}
             /\ at(c) # {} => r(c) \in at(c) /\ \A i \in at(c) : r(c) <= i
  BY FindFirst
<1>2. \A c \in T : at(c) \subseteq hits
  OBVIOUS
<1>3. \A i \in hits : Chars(s)[i + 1] \in T /\ i \in at(Chars(s)[i + 1])
  OBVIOUS
<1>4. hits \in SUBSET Nat
  BY CharsAre DEF Places
<1> HIDE DEF r, at, hits
<1>5. firsts \subseteq hits
  BY <1>1, <1>2
<1>6. CASE hits = {}
  <2>1. firsts = {}
    BY <1>5, <1>6
  <2> QED BY <1>6, <2>1 DEF FirstOf, hits, r
<1>7. CASE hits # {}
  <2> DEFINE m == FirstOf(hits)
             c == Chars(s)[m + 1]
  <2>1. m \in hits /\ \A x \in hits : m <= x
    BY <1>4, <1>7, FirstHit
  <2> HIDE DEF m
  <2>2. c \in T /\ m \in at(c)
    BY <1>3, <2>1
  <2> HIDE DEF c
  <2>3. r(c) \in hits /\ r(c) <= m /\ r(c) # NPos
    BY <1>1, <1>2, <2>2
  <2>4. r(c) = m
    <3> DEFINE k == r(c)
    <3>1. k \in hits /\ k <= m /\ m <= k
      BY <2>1, <2>3
    <3> HIDE DEF k
    <3>2. k \in Int /\ m \in Int
      BY <1>4, <2>1, <3>1
    <3>3. k = m
      BY <3>1, <3>2
    <3> QED BY <3>3 DEF k
  <2>5. m \in firsts
    BY <2>2, <2>3, <2>4
  <2> HIDE DEF firsts
  <2>6. firsts \in SUBSET Int /\ \A x \in firsts : m <= x
    BY <1>4, <1>5, <2>1
  <2>7. FirstOf(firsts) = m
    BY <2>5, <2>6, FirstIs
  <2> QED BY <2>7 DEF m, hits, firsts, r
<1> QED BY <1>6, <1>7

LEMMA LastOfAny ==
  ASSUME NEW s, IsSlice(s), NEW T
  PROVE  LastOf({i \in Places(s) : Chars(s)[i + 1] \in T})
           = LastOf({RFind(s, c, Len(Chars(s))) : c \in T})
<1> DEFINE hits == {i \in Places(s) : Chars(s)[i + 1] \in T}
           r(c) == RFind(s, c, Len(Chars(s)))
           at(c) == {i \in Places(s) : Chars(s)[i + 1] = c}
           lasts == {r(c) : c \in T}
           n == Len(Chars(s))
<1>1. ASSUME NEW c
      PROVE  /\ r(c) = NPos <=> at(c) = {}
             /\ at(c) # {} => r(c) \in at(c) /\ \A i \in at(c) : i <= r(c)
  BY RFindLast
<1>2. \A c \in T : at(c) \subseteq hits
  OBVIOUS
<1>3. \A i \in hits : Chars(s)[i + 1] \in T /\ i \in at(Chars(s)[i + 1])
  OBVIOUS
<1>4. hits \in SUBSET Nat /\ n \in Int /\ \A x \in hits : x <= n
  BY CharsAre DEF Places
<1> HIDE DEF r, at, hits, n
<1>5. \A x \in lasts : x \in hits \/ x = NPos
  BY <1>1, <1>2
<1>6. CASE hits = {}
  <2>1. LastOf(hits) = NPos
    BY <1>6 DEF LastOf
  <2>2. CASE T = {}
    <3>1. lasts = {}
      BY <2>2
    <3> QED BY <2>1, <3>1 DEF LastOf, hits, r
  <2>3. CASE T # {}
    <3> DEFINE m == NPos
    <3>1. m \in lasts /\ \A x \in lasts : x = m
      BY <1>5, <1>6, <2>3
    <3>2. m \in Int
      BY DEF NPos
    <3> HIDE DEF m, lasts
    <3>3. lasts \in SUBSET Int /\ \A x \in lasts : x <= m
      BY <3>1, <3>2
    <3>4. LastOf(lasts) = m
      BY <3>1, <3>3, LastIs
    <3> QED BY <2>1, <3>4 DEF m, hits, lasts, r
  <2> QED BY <2>2, <2>3
<1>7. CASE hits # {}
  <2> DEFINE m == LastOf(hits)
             c == Chars(s)[m + 1]
  <2>1. m \in hits /\ \A x \in hits : x <= m
    BY <1>4, <1>7, LastHit
  <2> HIDE DEF m
  <2>2. c \in T /\ m \in at(c)
    BY <1>3, <2>1
  <2> HIDE DEF c
  <2>3. r(c) \in hits /\ m <= r(c)
    BY <1>1, <1>2, <2>2
  <2>4. r(c) = m
    <3> DEFINE k == r(c)
    <3>1. k \in hits /\ k <= m /\ m <= k
      BY <2>1, <2>3
    <3> HIDE DEF k
    <3>2. k \in Int /\ m \in Int
      BY <1>4, <2>1, <3>1
    <3>3. k = m
      BY <3>1, <3>2
    <3> QED BY <3>3 DEF k
  <2>5. m \in lasts
    BY <2>2, <2>4
  <2> HIDE DEF lasts
  <2>6. ASSUME NEW x \in lasts PROVE x \in Int /\ x <= m
    <3>1. m \in Nat
      BY <1>4, <2>1
    <3>2. CASE x \in hits
      BY <1>4, <2>1, <3>2
    <3>3. CASE x = -1
      BY <3>1, <3>3
    <3> QED BY <1>5, <3>2, <3>3 DEF NPos
  <2>7. LastOf(lasts) = m
    BY <2>5, <2>6, LastIs
  <2> QED BY <2>7 DEF m, hits, lasts, r
<1> QED BY <1>6, <1>7

-----------------------------------------------------------------------------
(* The searches agree. *)

LEMMA SlicesAre ==
  /\ \A s \in Slices : IsSlice(s)
  /\ \A t \in Targets : IsSlice(t)
  /\ \A pos \in Positions : pos \in Nat
BY SlicesAssumption DEF IsSlice

LEMMA FindAgrees ==
  ASSUME call.name = "find",
         NEW s \in Slices, NEW t \in Targets, NEW pos \in Positions,
         call.args = <<s, t, pos>>, out = FindSlice(s, t, pos)
  PROVE  SearchesFind
<1>1. Subject = s /\ Target = t /\ call.args[3] = pos /\ IsSlice(s) /\ IsSlice(t) /\ pos \in Nat
  BY SlicesAre DEF Subject, Target
<1>2. CASE Valid(s) /\ Valid(t) /\ t # <<>>
  <2> DEFINE n == Len(Chars(s))
             D == {i \in Places(s) : i >= pos /\ Occurs(s, t, i)}
             E == {i \in 0 .. n - 1 : i >= pos /\ StartsWith(Substr(s, i, n), t)}
  <2>1. s \in Seq(Int) /\ t \in Seq(Int) /\ n = Len(s)
    BY <1>1, <1>2, CharsAre
  <2>2. D = E
    BY <2>1, OccursStarts DEF Places
  <2>3. out = FirstOf(D)
    BY <1>1, <1>2, <2>1, FindSliceIs
  <2> QED BY <1>1, <1>2, <2>2, <2>3 DEF SearchesFind, At
<1>3. CASE Valid(s) /\ Valid(t) /\ t = <<>>
  BY <1>1, <1>3 DEF SearchesFind, FindSlice
<1>4. CASE ~(Valid(s) /\ Valid(t))
  BY <1>1, <1>4 DEF SearchesFind, FindSlice
<1> QED BY <1>2, <1>3, <1>4

LEMMA FindCharAgrees ==
  ASSUME NEW s \in Slices, NEW t \in Targets, NEW pos \in Positions,
         Len(Chars(t)) = 1, call.args = <<s, t, pos>>,
         \/ call.name = "find_char" /\ out = Find(s, t[1], pos)
         \/ call.name = "rfind_char" /\ out = RFind(s, t[1], pos)
  PROVE  SearchesFind
<1>1. /\ Subject = s /\ Target = t /\ call.args[3] = pos
      /\ IsSlice(s) /\ IsSlice(t) /\ pos \in Nat
  BY SlicesAre DEF Subject, Target
<1>2. t \in Seq(Int) /\ Len(t) = 1
  <2>1. ~Valid(t) => Len(Chars(t)) = 0
    BY <1>1, CharsAre
  <2>2. Valid(t)
    BY <2>1
  <2> QED BY <1>1, <2>2, CharsAre
<1>3. CASE call.name = "find_char" /\ out = Find(s, t[1], pos)
  <2>1. out = FindSlice(s, t, pos)
    BY <1>1, <1>2, <1>3, FindOne
  <2> QED BY <1>1, <1>3, <2>1 DEF SearchesFind
<1>4. CASE call.name = "rfind_char" /\ out = RFind(s, t[1], pos)
  <2> DEFINE c == t[1]
             D == {i \in Places(s) : i <= pos /\ Chars(s)[i + 1] = c}
             E == {i \in Places(s) : i <= pos /\ FindSlice(s, t, i) = i}
  <2>1. out = LastOf(D)
    BY <1>1, <1>4, RFindIs
  <2>2. ASSUME NEW i \in Places(s) PROVE Chars(s)[i + 1] = c <=> FindSlice(s, t, i) = i
    <3> DEFINE F == {j \in Places(s) : j >= i /\ Chars(s)[j + 1] = c}
               r == FirstOf(F)
    <3>1. i \in Nat /\ F \in SUBSET Nat
      BY <1>1, CharsAre DEF Places
    <3>2. FindSlice(s, t, i) = r
      BY <1>1, <1>2, <3>1, FindOne, FindIs
    <3>3. /\ r = NPos <=> F = {}
          /\ F # {} => r \in F /\ \A x \in F : r <= x
      BY <3>1, FirstHit
    <3>4. ASSUME Chars(s)[i + 1] = c PROVE r = i
      <4>1. i \in F
        BY <3>1, <3>4
      <4>2. r \in F /\ r <= i
        BY <3>3, <4>1
      <4>3. r >= i /\ r \in Nat
        BY <3>1, <4>2
      <4> HIDE DEF r
      <4> QED BY <3>1, <4>2, <4>3
    <3>5. ASSUME r = i PROVE Chars(s)[i + 1] = c
      <4>1. i # NPos
        BY <3>1 DEF NPos
      <4>2. i \in F
        BY <3>3, <3>5, <4>1
      <4> QED BY <4>2
    <3> QED BY <3>2, <3>4, <3>5
  <2>3. D = E
    BY <2>2
  <2> QED BY <1>1, <1>4, <2>1, <2>3 DEF SearchesFind, Places
<1> QED BY <1>3, <1>4

LEMMA FindAnyAgrees ==
  ASSUME call.name = "find_any", NEW s \in Slices, NEW t \in Targets,
         call.args = <<s, t, 0>>,
         out = [first |-> FindFirstOf(s, t), last |-> FindLastOf(s, t),
                firstNot |-> FindFirstNotOf(s, t), lastNot |-> FindLastNotOf(s, t)]
  PROVE  SearchesFind
<1> DEFINE n == Len(Chars(s))
           T == ToSet(Chars(t))
           hits == {i \in Places(s) : Chars(s)[i + 1] \in T}
           others == {i \in Places(s) : Chars(s)[i + 1] \notin T}
           singles == {<<c>> : c \in T}
           misses == {i \in Places(s) : FindSlice(t, <<s[i + 1]>>, 0) = NPos}
           usable == Valid(s) /\ Valid(t)
<1>1. Subject = s /\ Target = t /\ IsSlice(s) /\ IsSlice(t)
  BY SlicesAre DEF Subject, Target
<1>2. /\ out.first = FirstOf(hits) /\ out.last = LastOf(hits)
      /\ Valid(t) => out.firstNot = FirstOf(others) /\ out.lastNot = LastOf(others)
      /\ ~Valid(t) => out.firstNot = NPos /\ out.lastNot = NPos
  BY <1>1, FindAnyIs DEF FindFirstNotOf, FindLastNotOf
<1>3. T \subseteq Int /\ \A i \in Places(s) : Chars(s)[i + 1] \in Int
  <2>1. /\ Chars(t) \in Seq(Int) /\ Chars(s) \in Seq(Int) /\ Len(Chars(s)) \in Nat
        /\ DOMAIN Chars(t) = 1 .. Len(Chars(t))
    BY <1>1, CharsAre, LenProperties
  <2> QED BY <2>1, ElementOfSeq DEF ToSet, Places
<1>4. ASSUME NEW x, IsSlice(x), NEW c \in Int
      PROVE  FindSlice(x, <<c>>, 0) = Find(x, c, 0)
  <2> DEFINE u == <<c>>
             z == 0
  <2>1. u \in Seq(Int) /\ Len(u) = 1 /\ u[1] = c /\ z \in Nat
    OBVIOUS
  <2> HIDE DEF u, z
  <2>2. FindSlice(x, u, z) = Find(x, u[1], z)
    BY <1>4, <2>1, FindOne
  <2> QED BY <2>1, <2>2 DEF u, z
<1>5. {FindSlice(s, u, 0) : u \in singles} = {Find(s, c, 0) : c \in T}
  BY <1>1, <1>3, <1>4
<1>6. {RFind(s, u[1], n) : u \in singles} = {RFind(s, c, n) : c \in T}
  <2> HIDE DEF n, T
  <2>1. /\ \A c \in T : <<c>> \in singles /\ <<c>>[1] = c
        /\ \A u \in singles : u[1] \in T
    OBVIOUS
  <2> HIDE DEF singles
  <2> QED BY <2>1
<1>7. out.first = FirstOf({FindSlice(s, u, 0) : u \in singles} \ {NPos})
  <2>1. FirstOf(hits) = FirstOf({Find(s, c, 0) : c \in T} \ {NPos})
    BY <1>1, FirstOfAny
  <2> QED BY <1>2, <1>5, <2>1
<1>8. out.last = LastOf({RFind(s, u[1], n) : u \in singles})
  <2>1. LastOf(hits) = LastOf({RFind(s, c, n) : c \in T})
    BY <1>1, LastOfAny
  <2> QED BY <1>2, <1>6, <2>1
<1>9. ASSUME usable PROVE misses = others
  <2>1. Chars(s) = s
    BY <1>1, <1>9, CharsAre
  <2>2. ASSUME NEW i \in Places(s)
        PROVE  FindSlice(t, <<s[i + 1]>>, 0) = NPos <=> s[i + 1] \notin T
    <3> DEFINE c == s[i + 1]
    <3>1. c \in Int
      BY <1>3, <2>1
    <3> HIDE DEF c
    <3>2. FindSlice(t, <<c>>, 0) = Find(t, c, 0)
      BY <1>1, <1>4, <3>1
    <3>3. Has(t, c) <=> c \in T
      BY <1>1, HasIs
    <3> QED BY <3>2, <3>3 DEF Has, c
  <2> QED BY <2>1, <2>2
<1>10. /\ out.firstNot = IF usable THEN FirstOf(misses) ELSE NPos
       /\ out.lastNot = IF usable THEN LastOf(misses) ELSE NPos
  <2>1. CASE usable
    BY <1>2, <1>9, <2>1
  <2>2. CASE ~Valid(t)
    BY <1>2, <2>2
  <2>3. CASE Valid(t) /\ ~Valid(s)
    <3>1. others = {}
      BY <1>1, <2>3, CharsAre DEF Places
    <3> QED BY <1>2, <2>3, <3>1 DEF FirstOf, LastOf
  <2> QED BY <2>1, <2>2, <2>3
<1> HIDE DEF T
<1> QED BY <1>1, <1>7, <1>8, <1>10 DEF SearchesFind, Places, T

-----------------------------------------------------------------------------
(* Cutting. *)

(* Where the characters are that are not in T. *)
Others(s, T) == {i \in Places(s) : Chars(s)[i + 1] \notin T}

(* What is left of s when the characters of T are cut off in front, behind, *)
(* and on both sides.                                                       *)
StartCut(s, T) ==
  IF Others(s, T) = {} THEN <<>> ELSE From(s, FirstOf(Others(s, T)))
EndCut(s, T) == Before(s, LastOf(Others(s, T)) + 1)
Middle(s, T) ==
  IF Others(s, T) = {} THEN <<>>
  ELSE SubSeq(s, FirstOf(Others(s, T)) + 1, LastOf(Others(s, T)) + 1)

LEMMA OthersAre ==
  ASSUME NEW s \in Seq(Int), NEW T
  PROVE  LET o == Others(s, T)
             f == FirstOf(o)
             l == LastOf(o)
         IN  /\ o = {i \in 0 .. Len(s) - 1 : s[i + 1] \notin T}
             /\ o \in SUBSET Nat
             /\ o = {} => f = NPos /\ l = NPos
             /\ o # {} => /\ f \in o /\ l \in o /\ f <= l /\ f >= 0 /\ l < Len(s)
                          /\ f \in Nat /\ l \in Nat
                          /\ \A i \in 0 .. Len(s) - 1 : i < f \/ i > l => s[i + 1] \in T
<1> DEFINE o == Others(s, T)
           f == FirstOf(o)
           l == LastOf(o)
           n == Len(s)
<1>1. Chars(s) = s /\ n \in Nat /\ n \in Int
  <2>1. IsSlice(s)
    BY DEF IsSlice
  <2> QED BY <2>1, CharsAre
<1>2. o = {i \in 0 .. n - 1 : s[i + 1] \notin T}
  BY <1>1 DEF Others, Places
<1> HIDE DEF o, n
<1>3. o \in SUBSET Nat /\ \A x \in o : x <= n
  BY <1>1, <1>2
<1>4. /\ f = NPos <=> o = {}
      /\ o # {} => f \in o /\ \A x \in o : f <= x
  BY <1>3, FirstHit
<1>5. /\ l = NPos <=> o = {}
      /\ o # {} => l \in o /\ \A x \in o : x <= l
  BY <1>1, <1>3, LastHit
<1> HIDE DEF f, l
<1>6. ASSUME o # {}
      PROVE  /\ f \in o /\ l \in o /\ f <= l /\ f >= 0 /\ l < n
             /\ f \in Nat /\ l \in Nat
             /\ \A i \in 0 .. n - 1 : i < f \/ i > l => s[i + 1] \in T
  <2>1. f \in o /\ l \in o /\ f <= l
    BY <1>4, <1>5, <1>6
  <2>2. f \in Nat /\ l \in Nat /\ l < n
    BY <1>1, <1>2, <2>1
  <2>3. ASSUME NEW i \in 0 .. n - 1, i < f \/ i > l PROVE s[i + 1] \in T
    <3>1. i \notin o
      BY <1>1, <1>4, <1>5, <1>6, <2>2, <2>3
    <3> QED BY <1>2, <3>1
  <2> QED BY <2>1, <2>2, <2>3
<1>7. o = {} => f = NPos /\ l = NPos
  BY <1>4, <1>5
<1> QED BY <1>2, <1>3, <1>6, <1>7 DEF f, l, o, n

(* What there is between two positions. *)
LEMMA PartIs ==
  ASSUME NEW s \in Seq(Int), NEW f \in Nat, NEW l \in Nat, f <= l, l < Len(s)
  PROVE  /\ SubSeq(s, f + 1, l + 1) \in Seq(Int)
         /\ Len(SubSeq(s, f + 1, l + 1)) = l - f + 1
         /\ \A i \in 1 .. l - f + 1 : SubSeq(s, f + 1, l + 1)[i] = s[f + i]
<1> DEFINE m == f + 1
           k == l + 1
           u == SubSeq(s, m, k)
<1>1. m \in Int /\ k \in Int /\ \A i \in m .. k : s[i] \in Int
  <2>1. Len(s) \in Nat /\ \A i \in m .. k : i \in 1 .. Len(s)
    BY LenProperties
  <2> QED BY <2>1, ElementOfSeq
<1>2. m = f + 1 /\ k = l + 1
  OBVIOUS
<1> HIDE DEF m, k
<1>3. /\ u \in Seq(Int) /\ Len(u) = IF m <= k THEN k - m + 1 ELSE 0
      /\ \A i \in 1 .. k - m + 1 : u[i] = s[m + i - 1]
  BY <1>1, SubSeqProperties
<1> HIDE DEF u
<1>4. Len(u) = l - f + 1
  BY <1>2, <1>3
<1>5. \A i \in 1 .. l - f + 1 : u[i] = s[f + i]
  <2>1. \A i \in 1 .. l - f + 1 : i \in 1 .. k - m + 1 /\ m + i - 1 = f + i
    BY <1>2
  <2> QED BY <1>3, <2>1
<1> QED BY <1>3, <1>4, <1>5 DEF u, m, k

LEMMA EmptyCuts ==
  ASSUME NEW T
  PROVE  /\ <<>> \in Seq(Int) /\ Others(<<>>, T) = {}
         /\ StartCut(<<>>, T) = <<>> /\ EndCut(<<>>, T) = <<>>
<1> DEFINE e == <<>>
<1>1. e \in Seq(Int) /\ Len(e) = 0 /\ \A s \in Seq(Int) : Len(s) = 0 => s = e
  BY EmptySeq
<1>2. e = <<>>
  OBVIOUS
<1> HIDE DEF e
<1>3. Others(e, T) = {}
  <2>1. Others(e, T) = {i \in 0 .. Len(e) - 1 : e[i + 1] \notin T}
    BY <1>1, OthersAre
  <2> QED BY <1>1, <2>1
<1>4. EndCut(e, T) = e
  <2>1. LastOf(Others(e, T)) + 1 = 0
    BY <1>3 DEF LastOf, NPos
  <2> DEFINE n == LastOf(Others(e, T)) + 1
  <2>2. n \in 0 .. Len(e)
    BY <1>1, <2>1
  <2> HIDE DEF n
  <2>3. Before(e, n) \in Seq(Int) /\ Len(Before(e, n)) = n
    BY <1>1, <2>2, BeforeIs
  <2>4. Before(e, n) = e
    BY <1>1, <2>2, <2>3
  <2> QED BY <2>4 DEF EndCut, n
<1>5. StartCut(e, T) = <<>>
  BY <1>3 DEF StartCut
<1> QED BY <1>1, <1>2, <1>3, <1>4, <1>5

(* The two ends can be cut off in either order. *)
LEMMA CutsAre ==
  ASSUME NEW s \in Seq(Int), NEW T
  PROVE  /\ StartCut(s, T) \in Seq(Int) /\ EndCut(s, T) \in Seq(Int)
         /\ EndCut(StartCut(s, T), T) = Middle(s, T)
         /\ StartCut(EndCut(s, T), T) = Middle(s, T)
<1> DEFINE o == Others(s, T)
           f == FirstOf(o)
           l == LastOf(o)
           n == Len(s)
<1>1. n \in Nat
  BY LenProperties
<1>2. /\ o = {i \in 0 .. n - 1 : s[i + 1] \notin T}
      /\ o \in SUBSET Nat
      /\ o = {} => f = NPos /\ l = NPos
      /\ o # {} => /\ f \in o /\ l \in o /\ f <= l /\ f >= 0 /\ l < n
                   /\ f \in Nat /\ l \in Nat
                   /\ \A i \in 0 .. n - 1 : i < f \/ i > l => s[i + 1] \in T
  BY OthersAre
<1>3. StartCut(s, T) = IF o = {} THEN <<>> ELSE From(s, f)
  BY DEF StartCut
<1>4. EndCut(s, T) = Before(s, l + 1)
  BY DEF EndCut
<1>5. Middle(s, T) = IF o = {} THEN <<>> ELSE SubSeq(s, f + 1, l + 1)
  BY DEF Middle
<1> HIDE DEF o, f, l
<1>6. CASE o = {}
  <2> DEFINE k == l + 1
  <2>1. k \in 0 .. n /\ k = 0
    BY <1>1, <1>2, <1>6 DEF NPos
  <2> HIDE DEF k
  <2>2. Before(s, k) \in Seq(Int) /\ Len(Before(s, k)) = k
    BY <2>1, BeforeIs
  <2>3. Before(s, k) = <<>>
    BY <2>1, <2>2, EmptySeq
  <2>4. StartCut(s, T) = <<>> /\ EndCut(s, T) = <<>> /\ Middle(s, T) = <<>>
    BY <1>3, <1>4, <1>5, <1>6, <2>3 DEF k
  <2> QED BY <2>4, EmptyCuts
<1>7. CASE o # {}
  <2> DEFINE x == From(s, f)
             y == Before(s, l + 1)
             z == SubSeq(s, f + 1, l + 1)
             p == l - f
             q == l + 1
  <2>1. /\ f \in Nat /\ l \in Nat /\ f <= l /\ l < n /\ f \in 0 .. n
        /\ p \in Nat /\ q \in 0 .. n /\ q = l + 1 /\ p = l - f
        /\ s[f + 1] \notin T /\ s[l + 1] \notin T
        /\ \A i \in o : f <= i /\ i <= l
    <3>1. /\ f \in Nat /\ l \in Nat /\ f <= l /\ l < n
          /\ f \in o /\ l \in o
          /\ \A i \in 0 .. n - 1 : i < f \/ i > l => s[i + 1] \in T
      BY <1>2, <1>7
    <3>2. ASSUME NEW i \in o PROVE f <= i /\ i <= l
      <4>1. i \in 0 .. n - 1 /\ s[i + 1] \notin T
        BY <1>2
      <4> QED BY <1>1, <3>1, <4>1
    <3>3. s[f + 1] \notin T /\ s[l + 1] \notin T
      BY <1>2, <3>1
    <3>4. f \in 0 .. n /\ p \in Nat /\ q \in 0 .. n
      BY <1>1, <3>1
    <3> QED BY <3>1, <3>2, <3>3, <3>4
  <2>2. /\ x \in Seq(Int) /\ Len(x) = n - f
        /\ \A i \in 1 .. n - f : x[i] = s[f + i]
    BY <2>1, FromIs
  <2>3. /\ y \in Seq(Int) /\ Len(y) = q
        /\ \A i \in 1 .. q : y[i] = s[i]
    <3>1. q \in 0 .. Len(s)
      BY <2>1
    <3> HIDE DEF q
    <3>2. /\ Before(s, q) \in Seq(Int) /\ Len(Before(s, q)) = q
          /\ \A i \in 1 .. q : Before(s, q)[i] = s[i]
      BY <3>1, BeforeIs
    <3> QED BY <3>2 DEF q
  <2>4. /\ z \in Seq(Int) /\ Len(z) = p + 1
        /\ \A i \in 1 .. p + 1 : z[i] = s[f + i]
    BY <2>1, PartIs
  <2> HIDE DEF x, y, z, p, q
  <2>5. EndCut(x, T) = z
    <3> DEFINE D == Others(x, T)
    <3>1. D = {i \in 0 .. Len(x) - 1 : x[i + 1] \notin T} /\ D \in SUBSET Int
      <4>1. x \in Seq(Int)
        BY <2>2
      <4>2. D = {i \in 0 .. Len(x) - 1 : x[i + 1] \notin T} /\ D \in SUBSET Nat
        BY <4>1, OthersAre
      <4> HIDE DEF D
      <4> QED BY <4>2
    <3> HIDE DEF D
    <3>2. p \in D
      <4>1. p \in 0 .. Len(x) - 1 /\ p + 1 \in 1 .. n - f /\ f + (p + 1) = l + 1
        BY <1>1, <2>1, <2>2
      <4> QED BY <2>1, <2>2, <3>1, <4>1, SMTT(20)
    <3>3. ASSUME NEW i \in D PROVE i <= p
      <4>1. /\ i \in Nat /\ i + 1 \in 1 .. n - f /\ f + (i + 1) = (f + i) + 1
            /\ f + i \in 0 .. n - 1
        BY <1>1, <2>1, <2>2, <3>1
      <4>2. s[(f + i) + 1] \notin T
        BY <2>2, <3>1, <4>1
      <4>3. f + i \in o
        BY <1>2, <4>1, <4>2
      <4>4. f + i <= l
        BY <2>1, <4>3
      <4> QED BY <2>1, <4>1, <4>4
    <3>4. LastOf(D) = p
      BY <3>1, <3>2, <3>3, LastIs
    <3> DEFINE r == p + 1
    <3>5. r \in 0 .. Len(x) /\ r \in Nat /\ r <= n - f
      BY <1>1, <2>1, <2>2
    <3> HIDE DEF r
    <3>6. /\ Before(x, r) \in Seq(Int) /\ Len(Before(x, r)) = r
          /\ \A i \in 1 .. r : Before(x, r)[i] = x[i]
      BY <2>2, <3>5, BeforeIs
    <3>7. ASSUME NEW i \in 1 .. r PROVE Before(x, r)[i] = z[i]
      <4>1. i \in 1 .. n - f /\ i \in 1 .. p + 1
        BY <1>1, <2>1, <3>5 DEF r
      <4> QED BY <2>2, <2>4, <3>6, <4>1
    <3>8. Before(x, r) = z
      <4>1. Len(Before(x, r)) = Len(z)
        BY <2>4, <3>6 DEF r
      <4> QED BY <2>4, <3>6, <3>7, <4>1, SeqEqual
    <3> QED BY <3>4, <3>8 DEF EndCut, D, r
  <2>6. StartCut(y, T) = z
    <3> DEFINE D == Others(y, T)
    <3>1. D = {i \in 0 .. Len(y) - 1 : y[i + 1] \notin T} /\ D \in SUBSET Int
      BY <2>3, OthersAre
    <3> HIDE DEF D
    <3>2. f \in D
      <4>1. f \in 0 .. Len(y) - 1 /\ f + 1 \in 1 .. q
        BY <2>1, <2>3
      <4> QED BY <2>1, <2>3, <3>1, <4>1
    <3>3. ASSUME NEW i \in D PROVE f <= i
      <4>1. i + 1 \in 1 .. q /\ i \in 0 .. n - 1
        BY <1>1, <2>1, <2>3, <3>1
      <4>2. i \in o
        BY <1>2, <2>3, <3>1, <4>1
      <4> QED BY <2>1, <4>2
    <3>4. FirstOf(D) = f
      BY <3>1, <3>2, <3>3, FirstIs
    <3>5. f \in 0 .. Len(y)
      BY <2>1, <2>3
    <3>6. /\ From(y, f) \in Seq(Int) /\ Len(From(y, f)) = Len(y) - f
          /\ \A i \in 1 .. Len(y) - f : From(y, f)[i] = y[f + i]
      BY <2>3, <3>5, FromIs
    <3>7. Len(y) - f = p + 1
      BY <2>1, <2>3
    <3>8. ASSUME NEW i \in 1 .. p + 1 PROVE From(y, f)[i] = z[i]
      <4>1. f + i \in 1 .. q
        BY <2>1, <3>8
      <4> QED BY <2>3, <2>4, <3>6, <3>7, <4>1
    <3>9. From(y, f) = z
      <4>1. Len(From(y, f)) = Len(z)
        BY <2>4, <3>6, <3>7
      <4>2. \A i \in 1 .. Len(From(y, f)) : From(y, f)[i] = z[i]
        BY <3>6, <3>7, <3>8
      <4> QED BY <2>4, <3>6, <4>1, <4>2, SeqEqual
    <3> QED BY <3>2, <3>4, <3>9 DEF StartCut, D
  <2>7. StartCut(s, T) = x /\ EndCut(s, T) = y /\ Middle(s, T) = z
    BY <1>3, <1>4, <1>5, <1>7 DEF x, y, z
  <2> QED BY <2>2, <2>3, <2>5, <2>6, <2>7
<1> QED BY <1>6, <1>7

(* What is cut off consists of characters of gone, and at the ends of what  *)
(* is left there are none of them.                                          *)
CutFrom(s, part, gone) ==
  /\ (IF part = <<>> THEN {} ELSE {part[1], part[Len(part)]}) \cap gone = {}
  /\ \E m, n \in 0 .. Len(s) :
       /\ part = SubSeq(s, m + 1, Len(s) - n)
       /\ ToSet(Before(s, m)) \cup ToSet(From(s, Len(s) - n)) \subseteq gone

LEMMA ToSetIs ==
  ASSUME NEW s \in Seq(Int)
  PROVE  ToSet(s) = {s[i] : i \in 1 .. Len(s)}
BY LenProperties DEF ToSet

LEMMA MiddleIsCut ==
  ASSUME NEW s \in Seq(Int), NEW T
  PROVE  CutFrom(s, Middle(s, T), T)
<1> DEFINE o == Others(s, T)
           f == FirstOf(o)
           l == LastOf(o)
           k == Len(s)
<1>1. k \in Nat
  BY LenProperties
<1>2. /\ o = {i \in 0 .. k - 1 : s[i + 1] \notin T}
      /\ o # {} => /\ f \in o /\ l \in o /\ f <= l /\ f >= 0 /\ l < k
                   /\ f \in Nat /\ l \in Nat
                   /\ \A i \in 0 .. k - 1 : i < f \/ i > l => s[i + 1] \in T
  BY OthersAre
<1>3. Middle(s, T) = IF o = {} THEN <<>> ELSE SubSeq(s, f + 1, l + 1)
  BY DEF Middle
<1> HIDE DEF o, f, l, k
<1>4. CASE o = {}
  <2>1. \A i \in 1 .. k : s[i] \in T
    <3>1. ASSUME NEW i \in 1 .. k PROVE s[i] \in T
      <4>1. i - 1 \in 0 .. k - 1 /\ (i - 1) + 1 = i
        BY <1>1, <3>1
      <4> QED BY <1>2, <1>4, <4>1
    <3> QED BY <3>1
  <2> DEFINE z == 0
             m == k + 1
  <2>2. z = 0 /\ z \in 0 .. k /\ k \in 0 .. k /\ k - z = k /\ m \in Int /\ k < m
    BY <1>1
  <2>3. SubSeq(s, m, k) = <<>>
    BY <1>1, <2>2, SubSeqEmpty
  <2>4. ToSet(Before(s, k)) \subseteq T
    <3>1. /\ Before(s, k) \in Seq(Int) /\ Len(Before(s, k)) = k
          /\ \A i \in 1 .. k : Before(s, k)[i] = s[i]
      BY <2>2, BeforeIs DEF k
    <3>2. ToSet(Before(s, k)) = {Before(s, k)[i] : i \in 1 .. k}
      BY <3>1, ToSetIs
    <3> QED BY <2>1, <3>1, <3>2
  <2>5. ToSet(From(s, k)) = {}
    <3>1. From(s, k) \in Seq(Int) /\ Len(From(s, k)) = k - k
      BY <2>2, FromIs DEF k
    <3>2. ToSet(From(s, k)) = {From(s, k)[i] : i \in 1 .. Len(From(s, k))}
      BY <3>1, ToSetIs
    <3>3. \A i : i \notin 1 .. Len(From(s, k))
      BY <1>1, <3>1
    <3> QED BY <3>2, <3>3
  <2>6. /\ <<>> = SubSeq(s, k + 1, k - z)
        /\ ToSet(Before(s, k)) \cup ToSet(From(s, k - z)) \subseteq T
    BY <2>2, <2>3, <2>4, <2>5
  <2> HIDE DEF z
  <2> QED BY <1>3, <1>4, <2>2, <2>6 DEF CutFrom, k
<1>5. CASE o # {}
  <2> DEFINE p == SubSeq(s, f + 1, l + 1)
             m == l + 1
             n == k - m
  <2>1. /\ f \in Nat /\ l \in Nat /\ f <= l /\ l < k /\ f \in o /\ l \in o
        /\ \A i \in 0 .. k - 1 : i < f \/ i > l => s[i + 1] \in T
    BY <1>2, <1>5
  <2>2. s[f + 1] \notin T /\ s[l + 1] \notin T
    BY <1>2, <2>1
  <2>3. /\ f \in 0 .. k /\ m \in 0 .. k /\ n \in 0 .. k /\ k - n = m /\ m = l + 1
    BY <1>1, <2>1
  <2>4. /\ Len(p) = l - f + 1 /\ p \in Seq(Int)
        /\ \A i \in 1 .. l - f + 1 : p[i] = s[f + i]
    BY <2>1, PartIs DEF k
  <2>5. p[1] = s[f + 1] /\ p[Len(p)] = s[l + 1]
    <3>1. /\ 1 \in 1 .. l - f + 1 /\ l - f + 1 \in 1 .. l - f + 1
          /\ f + (l - f + 1) = l + 1
      BY <2>1
    <3> HIDE DEF p
    <3> QED BY <2>4, <3>1
  <2>6. ToSet(Before(s, f)) \subseteq T
    <3>1. /\ Before(s, f) \in Seq(Int) /\ Len(Before(s, f)) = f
          /\ \A i \in 1 .. f : Before(s, f)[i] = s[i]
      BY <2>3, BeforeIs DEF k
    <3>2. ToSet(Before(s, f)) = {Before(s, f)[i] : i \in 1 .. f}
      BY <3>1, ToSetIs
    <3>3. ASSUME NEW i \in 1 .. f PROVE s[i] \in T
      <4>1. i - 1 \in 0 .. k - 1 /\ (i - 1) + 1 = i /\ i - 1 < f
        BY <1>1, <2>1, <3>3
      <4> QED BY <2>1, <4>1
    <3> QED BY <3>1, <3>2, <3>3
  <2>7. ToSet(From(s, m)) \subseteq T
    <3> HIDE DEF m
    <3>1. /\ From(s, m) \in Seq(Int) /\ Len(From(s, m)) = k - m
          /\ \A i \in 1 .. k - m : From(s, m)[i] = s[m + i]
      BY <2>3, FromIs, ZenonT(30) DEF k
    <3>2. ToSet(From(s, m)) = {From(s, m)[i] : i \in 1 .. k - m}
      BY <3>1, ToSetIs
    <3>3. ASSUME NEW i \in 1 .. k - m PROVE s[m + i] \in T
      <4>1. l + i \in 0 .. k - 1 /\ (l + i) + 1 = m + i /\ l + i > l
        BY <1>1, <2>1, <2>3, <3>3
      <4> QED BY <2>1, <4>1
    <3> QED BY <3>1, <3>2, <3>3
  <2> HIDE DEF m, n
  <2>8. /\ p = SubSeq(s, f + 1, k - n)
        /\ ToSet(Before(s, f)) \cup ToSet(From(s, k - n)) \subseteq T
    BY <2>3, <2>6, <2>7
  <2> HIDE DEF p
  <2>9. CutFrom(s, p, T)
    BY <2>2, <2>3, <2>5, <2>8 DEF CutFrom, k
  <2> QED BY <1>3, <1>5, <2>9 DEF p
<1> QED BY <1>4, <1>5

LEMMA StripAre ==
  ASSUME NEW s \in Seq(Int), NEW t \in Seq(Int)
  PROVE  /\ StripStart(s, t) = StartCut(s, ToSet(t))
         /\ StripEnd(s, t) = EndCut(s, ToSet(t))
<1> DEFINE T == ToSet(t)
           o == Others(s, T)
           f == FirstOf(o)
           n == Len(s)
<1>1. /\ IsSlice(s) /\ IsSlice(t) /\ Valid(s) /\ Valid(t)
      /\ Chars(s) = s /\ Chars(t) = t /\ n \in Nat
  <2>1. IsSlice(s) /\ IsSlice(t)
    BY DEF IsSlice
  <2> QED BY <2>1, CharsAre
<1>2. FindFirstNotOf(s, t) = FirstOf(o) /\ FindLastNotOf(s, t) = LastOf(o)
  <2> DEFINE D == {i \in Places(s) : Chars(s)[i + 1] \notin ToSet(Chars(t))}
  <2>1. FindFirstNotOf(s, t) = FirstOf(D) /\ FindLastNotOf(s, t) = LastOf(D)
    <3>1. IsSlice(s) /\ IsSlice(t) /\ Valid(t)
      BY <1>1
    <3> HIDE DEF T, o, f, n
    <3> QED BY <3>1, FindAnyIs
  <2>2. o = D
    BY <1>1 DEF Others
  <2> QED BY <2>1, <2>2
<1>3. /\ o = {} => f = NPos
      /\ o # {} => f \in Nat /\ f < n
  <2>1. /\ o = {} => f = NPos
        /\ o # {} => f \in Nat /\ LastOf(o) \in Nat /\ f <= LastOf(o) /\ LastOf(o) < n
    BY OthersAre
  <2> QED BY <1>1, <2>1
<1> HIDE DEF T, o, f
<1>4. StripStart(s, t) = IF o = {} THEN <<>> ELSE From(s, f)
  <2>1. StripStart(s, t) = IF f = NPos \/ f >= n THEN <<>>
                           ELSE IF n >= n - f THEN From(s, f)
                           ELSE Before(From(s, f), n)
    BY <1>1, <1>2 DEF StripStart, Substr, f
  <2>2. CASE o = {}
    BY <1>3, <2>1, <2>2
  <2>3. CASE o # {}
    <3>1. f # NPos /\ ~(f >= n) /\ n >= n - f
      BY <1>1, <1>3, <2>3 DEF NPos
    <3> QED BY <2>1, <2>3, <3>1
  <2> QED BY <2>2, <2>3
<1>5. StripEnd(s, t) = Before(s, LastOf(o) + 1)
  BY <1>1, <1>2 DEF StripEnd
<1> QED BY <1>4, <1>5 DEF StartCut, EndCut, o, f, T

LEMMA TrimAre ==
  ASSUME NEW s \in Seq(Int)
  PROVE  TrimStart(s) = StartCut(s, Spaces) /\ TrimEnd(s) = EndCut(s, Spaces)
<1> DEFINE o == Others(s, Spaces)
           f == FirstOf(o)
           l == LastOf(o)
           n == Len(s)
           k == Leading(s, Spaces)
           N == {i \in 0 .. n : \A j \in 1 .. i : s[j] \in Spaces}
           J == {i \in 1 .. n : s[i] \notin Spaces}
<1>1. Valid(s) /\ n \in Nat /\ n \in Int
  <2>1. IsSlice(s)
    BY DEF IsSlice
  <2> QED BY <2>1, CharsAre
<1>2. /\ o = {i \in 0 .. n - 1 : s[i + 1] \notin Spaces}
      /\ o \in SUBSET Nat
      /\ o # {} => /\ f \in o /\ f \in Nat /\ f < n
                   /\ \A i \in 0 .. n - 1 : i < f => s[i + 1] \in Spaces
  <2>1. /\ o = {i \in 0 .. n - 1 : s[i + 1] \notin Spaces}
        /\ o \in SUBSET Nat
        /\ o # {} => /\ f \in o /\ l \in o /\ f <= l /\ f >= 0 /\ l < n
                     /\ f \in Nat /\ l \in Nat
                     /\ \A i \in 0 .. n - 1 : i < f \/ i > l => s[i + 1] \in Spaces
    BY OthersAre
  <2> HIDE DEF o, f, l, n
  <2> QED BY <1>1, <2>1
<1>3. TrimStart(s) = From(s, k) /\ k = Max(N)
  BY <1>1 DEF TrimStart, Leading
<1>4. TrimEnd(s) = Before(s, IF J # {} THEN Max(J) ELSE 0)
  BY <1>1 DEF TrimEnd, SelectLastInSeq
<1> HIDE DEF k
<1>5. (IF J # {} THEN Max(J) ELSE 0) = l + 1
  <2>1. \A i \in J : i - 1 \in o
    BY <1>1, <1>2
  <2>2. \A x \in o : x + 1 \in J
    BY <1>1, <1>2
  <2>3. J \in SUBSET (Nat \ {0}) /\ \A i \in J : i <= n
    BY <1>1
  <2> DEFINE h == IF J # {} THEN Max(J) ELSE 0
  <2>4. h - 1 = l
    <3> HIDE DEF J, o
    <3> QED BY <1>1, <1>2, <2>1, <2>2, <2>3, LastShift
  <2>5. h \in Int
    <3>1. J # {} => Max(J) \in J
      <4> HIDE DEF J
      <4>1. J \in SUBSET Int
        BY <2>3
      <4> QED BY <1>1, <2>3, <4>1, MaxOf
    <3> QED BY <1>1, <3>1
  <2> HIDE DEF h, l
  <2>6. h = l + 1
    BY <2>4, <2>5
  <2> QED BY <2>6 DEF h
<1>6. StartCut(s, Spaces) = IF o = {} THEN <<>> ELSE From(s, f)
  BY DEF StartCut
<1>7. EndCut(s, Spaces) = Before(s, l + 1)
  BY DEF EndCut
<1> HIDE DEF o, f, l, J
<1>8. CASE o = {}
  <2>1. n \in N /\ \A i \in N : i <= n
    <3>1. \A j \in 1 .. n : s[j] \in Spaces
      <4>1. ASSUME NEW j \in 1 .. n PROVE s[j] \in Spaces
        <5>1. j - 1 \in 0 .. n - 1 /\ (j - 1) + 1 = j
          BY <1>1, <4>1
        <5> QED BY <1>2, <1>8, <5>1
      <4> QED BY <4>1
    <3> QED BY <1>1, <3>1
  <2>2. N \in SUBSET Int
    BY <1>1
  <2> HIDE DEF N
  <2>3. k = n
    BY <1>3, <2>1, <2>2, MaxIs
  <2>4. n \in 0 .. n
    BY <1>1
  <2>5. From(s, n) \in Seq(Int) /\ Len(From(s, n)) = n - n
    BY <2>4, FromIs
  <2>6. Len(From(s, n)) = 0
    BY <1>1, <2>5
  <2>7. From(s, n) = <<>>
    BY <2>5, <2>6, EmptySeq
  <2> QED BY <1>3, <1>4, <1>5, <1>6, <1>7, <1>8, <2>3, <2>7
<1>9. CASE o # {}
  <2>1. f \in Nat /\ f < n /\ s[f + 1] \notin Spaces
    BY <1>2, <1>9
  <2>2. f \in N
    <3>1. ASSUME NEW j \in 1 .. f PROVE s[j] \in Spaces
      <4>1. j - 1 \in 0 .. n - 1 /\ (j - 1) + 1 = j /\ j - 1 < f
        BY <1>1, <2>1, <3>1
      <4> QED BY <1>2, <1>9, <4>1
    <3> QED BY <1>1, <2>1, <3>1
  <2>3. \A i \in N : i <= f
    <3>1. ASSUME NEW i \in N, ~(i <= f) PROVE FALSE
      <4>1. f + 1 \in 1 .. i
        BY <1>1, <2>1, <3>1
      <4> QED BY <2>1, <4>1
    <3> QED BY <3>1
  <2>4. N \in SUBSET Int
    BY <1>1
  <2> HIDE DEF N
  <2>5. k = f
    BY <1>3, <2>2, <2>3, <2>4, MaxIs
  <2> QED BY <1>3, <1>4, <1>5, <1>6, <1>7, <1>9, <2>5
<1> QED BY <1>8, <1>9

(* The white space as a sequence. *)
LEMMA ListIs ==
  ASSUME NEW S, IsFiniteSet(S)
  PROVE  SetToSeq(S) \in Seq(S) /\ ToSet(SetToSeq(S)) = S
<1> DEFINE n == Cardinality(S)
           q == SetToSeq(S)
           I == 1 .. n
<1>1. n \in Nat /\ ExistsBijection(I, S)
  BY FS_CardinalityType
<1>2. \E g \in [I -> S] : IsInjective(g)
  BY <1>1 DEF ExistsBijection, Bijection, Injection
<1>3. q \in [I -> S] /\ IsInjective(q)
  BY <1>2 DEF SetToSeq
<1> HIDE DEF q
<1>4. q \in Injection(I, S)
  BY <1>3 DEF Injection
<1>5. Cardinality(I) = n
  <2> DEFINE one == 1
  <2>1. one \in Int /\ n \in Int /\ one = 1
    BY <1>1
  <2> HIDE DEF one, n
  <2>2. Cardinality(one .. n) = IF one > n THEN 0 ELSE n - one + 1
    BY <2>1, FS_Interval
  <2> QED BY <1>1, <2>1, <2>2
<1> HIDE DEF I
<1>6. q \in Surjection(I, S)
  BY <1>4, <1>5, FS_Injection
<1>7. \A t \in S : \E i \in I : q[i] = t
  BY <1>6 DEF Surjection
<1>8. ToSet(q) = S
  BY <1>3, <1>7 DEF ToSet
<1>9. q \in Seq(S)
  BY <1>1, <1>3 DEF I
<1> QED BY <1>8, <1>9 DEF q

LEMMA StripAgrees ==
  ASSUME call.name = "strip", NEW s \in Slices, NEW t \in Targets,
         call.args = <<s, t>>,
         out = [start |-> StripStart(s, t), end |-> StripEnd(s, t),
                both |-> Strip(s, t), trimmed |-> Trim(s)]
  PROVE  CutsAgree
<1> DEFINE T == ToSet(Chars(t))
           white == SetToSeq(Spaces)
<1>1. Subject = s /\ Target = t /\ IsSlice(s) /\ IsSlice(t)
  BY SlicesAre DEF Subject, Target
<1>2. /\ out.start = StripStart(s, t) /\ out.end = StripEnd(s, t)
      /\ out.both = Strip(s, t) /\ out.trimmed = Trim(s)
  OBVIOUS
<1>3. CASE Valid(s)
  <2>1. s \in Seq(Int)
    BY <1>1, <1>3, CharsAre
  <2>2. ASSUME Valid(t)
        PROVE  out.both = Middle(s, T) /\ out.both = StripStart(out.end, t)
    <3>1. t \in Seq(Int) /\ Chars(t) = t
      BY <1>1, <2>2, CharsAre
    <3> DEFINE a == StartCut(s, T)
               b == EndCut(s, T)
    <3>2. /\ a \in Seq(Int) /\ b \in Seq(Int)
          /\ EndCut(a, T) = Middle(s, T) /\ StartCut(b, T) = Middle(s, T)
      BY <2>1, CutsAre
    <3>3. StripStart(s, t) = a /\ StripEnd(s, t) = b
      BY <2>1, <3>1, StripAre
    <3> HIDE DEF a, b
    <3>4. StripEnd(a, t) = EndCut(a, T) /\ StripStart(b, t) = StartCut(b, T)
      BY <3>1, <3>2, StripAre
    <3> QED BY <1>2, <3>2, <3>3, <3>4 DEF Strip
  <2>3. ASSUME ~Valid(t) PROVE out.both = <<>>
    <3> DEFINE e == <<>>
               z == 0
    <3>1. StripStart(s, t) = <<>>
      BY <1>3, <2>3 DEF StripStart, Substr, FindFirstNotOf
    <3>2. StripEnd(e, t) = Before(e, z)
      <4>1. Valid(e)
        BY SlicesAssumption, EmptySeq DEF Valid
      <4>2. NPos + 1 = z
        BY DEF NPos
      <4> QED BY <2>3, <4>1, <4>2 DEF StripEnd, FindLastNotOf
    <3>3. Before(e, z) = <<>>
      <4> DEFINE one == 1
      <4>1. one \in Int /\ z \in Int /\ z < one
        OBVIOUS
      <4> HIDE DEF one, z
      <4>2. SubSeq(e, one, z) = <<>>
        BY <4>1, SubSeqEmpty
      <4> QED BY <4>2 DEF Before, one
    <3> QED BY <1>2, <3>1, <3>2, <3>3 DEF Strip
  <2>4. out.trimmed = Middle(s, Spaces)
    <3> DEFINE a == StartCut(s, Spaces)
    <3>1. a \in Seq(Int) /\ EndCut(a, Spaces) = Middle(s, Spaces)
      BY <2>1, CutsAre
    <3>2. TrimStart(s) = a
      BY <2>1, TrimAre
    <3> HIDE DEF a
    <3>3. TrimEnd(a) = EndCut(a, Spaces)
      BY <3>1, TrimAre
    <3> QED BY <1>2, <3>1, <3>2, <3>3 DEF Trim
  <2>5. CutFrom(s, Middle(s, T), T) /\ CutFrom(s, Middle(s, Spaces), Spaces)
    BY <2>1, MiddleIsCut
  <2>6. ToSet(Chars(white)) = Spaces
    <3>1. white \in Seq(Spaces) /\ ToSet(white) = Spaces
      BY SlicesAssumption, ListIs
    <3> HIDE DEF white
    <3>2. white \in Seq(Int)
      BY <3>1, SeqMonotonic, SlicesAssumption
    <3>3. Chars(white) = white
      BY <3>2, SlicesAssumption DEF Chars, Valid
    <3> QED BY <3>1, <3>3
  <2>7. /\ Valid(t) => CutFrom(s, out.both, ToSet(Chars(t)))
        /\ ~Valid(t) => out.both = <<>>
        /\ CutFrom(s, out.trimmed, ToSet(Chars(white)))
        /\ Valid(t) => out.both = StripStart(out.end, t)
    BY <2>2, <2>3, <2>4, <2>5, <2>6
  <2> HIDE DEF T
  <2> QED BY <1>1, <1>3, <2>7 DEF CutsAgree, CutFrom
<1>4. CASE ~Valid(s)
  <2>1. s = Invalid
    BY <1>1, <1>4, CharsAre
  <2>2. /\ StripStart(s, t) = Invalid /\ StripEnd(s, t) = Invalid
        /\ Strip(s, t) = Invalid /\ Trim(s) = Invalid
    BY <1>4, <2>1 DEF StripStart, StripEnd, Strip, Trim, TrimStart, TrimEnd, Substr
  <2>3. Range(out) = {Invalid}
    BY <2>2, SMTT(20) DEF Range
  <2> QED BY <1>1, <1>4, <2>3 DEF CutsAgree
<1> QED BY <1>3, <1>4

LEMMA SplitIs ==
  ASSUME NEW s \in Seq(Int), NEW n \in 0 .. Len(s)
  PROVE  Before(s, n) \o From(s, n) = s
<1> DEFINE one == 1
           k == Len(s)
<1>1. /\ k \in Nat /\ one \in 1 .. k + 1 /\ n \in one - 1 .. k /\ k \in n .. k
  BY LenProperties
<1> HIDE DEF one
<1>2. SubSeq(s, one, n) \o SubSeq(s, n + 1, k) = SubSeq(s, one, k)
  BY <1>1, ConcatAdjacentSubSeq
<1>3. SubSeq(s, 1, Len(s)) = s
  BY SubSeqFull
<1> QED BY <1>2, <1>3 DEF Before, From, one

LEMMA FromBehind ==
  ASSUME NEW s \in Seq(Int), NEW n \in Nat, n >= Len(s)
  PROVE  From(s, n) = <<>>
<1> DEFINE m == n + 1
           k == Len(s)
<1>1. m \in Int /\ k \in Int /\ k < m
  BY LenProperties
<1> HIDE DEF m, k
<1>2. SubSeq(s, m, k) = <<>>
  BY <1>1, SubSeqEmpty
<1> QED BY <1>2 DEF From, m, k

LEMMA SubstrIs ==
  ASSUME NEW s \in Seq(Int), NEW p \in Nat, NEW l \in Nat
  PROVE  Substr(s, p, l) = IF l >= Len(s) - p THEN From(s, p) ELSE Before(From(s, p), l)
<1>1. Len(s) \in Nat /\ Valid(s) /\ p # NPos
  BY LenProperties, SlicesAssumption DEF Valid, NPos
<1>2. CASE p >= Len(s)
  <2>1. From(s, p) = <<>> /\ l >= Len(s) - p
    BY <1>1, <1>2, FromBehind
  <2> QED BY <1>1, <1>2, <2>1 DEF Substr
<1>3. CASE ~(p >= Len(s))
  BY <1>1, <1>3 DEF Substr
<1> QED BY <1>2, <1>3

LEMMA CutAgrees ==
  ASSUME call.name = "cut", NEW s \in Slices, NEW pos \in Positions, NEW len \in Positions,
         call.args = <<s, pos, len>>,
         out = [front |-> Substr(s, 0, pos), middle |-> Substr(s, pos, len),
                rest |-> RemovePrefixS(s, pos), shorter |-> RemoveSuffixS(s, pos)]
  PROVE  CutsAgree
<1>1. Subject = s /\ IsSlice(s) /\ pos \in Nat /\ len \in Nat /\ call.args[2] = pos
      /\ call.args[3] = len
  BY SlicesAre DEF Subject
<1>2. /\ out.front = Substr(s, 0, pos) /\ out.middle = Substr(s, pos, len)
      /\ out.rest = RemovePrefixS(s, pos) /\ out.shorter = RemoveSuffixS(s, pos)
  OBVIOUS
<1>3. CASE Valid(s)
  <2> DEFINE n == Len(s)
             rest == From(s, pos)
  <2>1. s \in Seq(Int) /\ n \in Nat
    BY <1>1, <1>3, CharsAre, LenProperties
  <2>2. out.rest = rest /\ out.shorter = Before(s, n - pos)
    BY <1>2, <1>3 DEF RemovePrefixS, RemoveSuffixS
  <2>3. out.middle = IF len >= n - pos THEN rest ELSE Before(rest, len)
    BY <1>1, <1>2, <2>1, SubstrIs
  <2>4. out.front \o rest = s
    <3> DEFINE z == 0
    <3>1. z \in Nat /\ z \in 0 .. n /\ n - z = n /\ z + 1 = 1
      BY <2>1
    <3>2. From(s, z) = s
      BY <2>1, SubSeqFull DEF From
    <3>3. out.front = Substr(s, z, pos)
      BY <1>2
    <3> HIDE DEF z
    <3>4. out.front = IF pos >= n - z THEN s ELSE Before(s, pos)
      <4>1. Substr(s, z, pos)
              = IF pos >= Len(s) - z THEN From(s, z) ELSE Before(From(s, z), pos)
        BY <1>1, <2>1, <3>1, SubstrIs
      <4> QED BY <3>2, <3>3, <4>1
    <3>5. CASE pos >= n
      <4>1. rest = <<>>
        BY <1>1, <2>1, <3>5, FromBehind
      <4> QED BY <2>1, <3>1, <3>4, <3>5, <4>1, ConcatEmptySeq
    <3>6. CASE ~(pos >= n)
      <4>1. pos \in 0 .. Len(s)
        BY <1>1, <2>1, <3>6
      <4> QED BY <2>1, <3>1, <3>4, <3>6, <4>1, SplitIs
    <3> QED BY <3>5, <3>6
  <2>5. ASSUME pos <= n PROVE Before(s, n - pos) \o Substr(s, n - pos, pos) = s
    <3> DEFINE k == n - pos
    <3>1. k \in Nat /\ k \in 0 .. Len(s) /\ pos >= n - k
      BY <1>1, <2>1, <2>5
    <3> HIDE DEF k
    <3>2. Substr(s, k, pos) = From(s, k)
      BY <1>1, <2>1, <3>1, SubstrIs
    <3>3. Before(s, k) \o From(s, k) = s
      BY <2>1, <3>1, SplitIs
    <3> QED BY <3>2, <3>3 DEF k
  <2>6. rest \in Seq(Int) /\ Len(rest) = IF pos >= n THEN 0 ELSE n - pos
    <3>1. CASE pos >= n
      BY <1>1, <2>1, <3>1, FromBehind, EmptySeq
    <3>2. CASE ~(pos >= n)
      <4>1. pos \in 0 .. Len(s)
        BY <1>1, <2>1, <3>2
      <4> QED BY <2>1, <3>2, <4>1, FromIs
    <3> QED BY <3>1, <3>2
  <2> HIDE DEF rest
  <2>7. IsPrefix(out.middle, rest) /\ Len(out.middle) = Min({len, Len(rest)})
    <3> DEFINE r == Len(rest)
    <3>1. r \in Nat /\ (len >= n - pos <=> len >= r)
      BY <1>1, <2>1, <2>6
    <3>2. Min({len, r}) = IF len <= r THEN len ELSE r
      <4>1. len \in Int /\ r \in Int
        BY <1>1, <3>1
      <4> HIDE DEF r
      <4> QED BY <4>1, MinPair
    <3>3. CASE len >= r
      <4>1. out.middle = rest
        BY <2>3, <3>1, <3>3
      <4>2. IsPrefix(rest, rest)
        BY <2>6, PrefixIs
      <4>3. Min({len, r}) = r
        BY <1>1, <3>1, <3>2, <3>3
      <4> QED BY <4>1, <4>2, <4>3
    <3>4. CASE ~(len >= r)
      <4> DEFINE m == Before(rest, len)
      <4>1. out.middle = m
        BY <2>3, <3>1, <3>4
      <4>2. len \in 0 .. Len(rest)
        BY <1>1, <3>1, <3>4
      <4>3. m \in Seq(Int) /\ Len(m) = len /\ \A i \in 1 .. len : m[i] = rest[i]
        BY <2>6, <4>2, BeforeIs
      <4> HIDE DEF m
      <4>4. IsPrefix(m, rest)
        <5>1. Len(m) <= Len(rest) /\ \A i \in 1 .. Len(m) : m[i] = rest[i]
          BY <1>1, <3>1, <4>2, <4>3
        <5>2. m \in Seq(Int) /\ rest \in Seq(Int)
          BY <2>6, <4>3
        <5> QED BY <5>1, <5>2, PrefixIs
      <4>5. Min({len, r}) = len
        BY <1>1, <3>1, <3>2, <3>4
      <4> QED BY <4>1, <4>3, <4>4, <4>5
    <3> QED BY <3>3, <3>4
  <2> QED BY <1>1, <1>3, <2>2, <2>4, <2>5, <2>7 DEF CutsAgree
<1>4. CASE ~Valid(s)
  <2>1. s = Invalid
    BY <1>1, <1>4, CharsAre
  <2>2. /\ Substr(s, 0, pos) = Invalid /\ Substr(s, pos, len) = Invalid
        /\ RemovePrefixS(s, pos) = Invalid /\ RemoveSuffixS(s, pos) = Invalid
    BY <1>4, <2>1 DEF Substr, RemovePrefixS, RemoveSuffixS
  <2>3. Range(out) = {Invalid}
    BY <2>2 DEF Range
  <2> QED BY <1>1, <1>4, <2>3 DEF CutsAgree
<1> QED BY <1>3, <1>4

-----------------------------------------------------------------------------
(* The calls: what was called, with which slices, and what it returned. *)

Finding ==
  \E s \in Slices, t \in Targets, pos \in Positions :
    call.args = <<s, t, pos>> /\ out = FindSlice(s, t, pos)

FindingChar ==
  \E s \in Slices, t \in Targets, pos \in Positions :
    /\ Len(Chars(t)) = 1 /\ call.args = <<s, t, pos>>
    /\ \/ call.name = "find_char" /\ out = Find(s, t[1], pos)
       \/ call.name = "rfind_char" /\ out = RFind(s, t[1], pos)

FindingAny ==
  \E s \in Slices, t \in Targets :
    /\ call.args = <<s, t, 0>>
    /\ out = [first |-> FindFirstOf(s, t), last |-> FindLastOf(s, t),
              firstNot |-> FindFirstNotOf(s, t), lastNot |-> FindLastNotOf(s, t)]

Comparing ==
  \E s \in Slices, t \in Slices :
    Valid(s) /\ Valid(t) /\ call.args = <<s, t>> /\ out = Compare(s, t)

Stripping ==
  \E s \in Slices, t \in Targets :
    /\ call.args = <<s, t>>
    /\ out = [start |-> StripStart(s, t), end |-> StripEnd(s, t),
              both |-> Strip(s, t), trimmed |-> Trim(s)]

Cutting ==
  \E s \in Slices, pos \in Positions, len \in Positions :
    /\ call.args = <<s, pos, len>>
    /\ out = [front |-> Substr(s, 0, pos), middle |-> Substr(s, pos, len),
              rest |-> RemovePrefixS(s, pos), shorter |-> RemoveSuffixS(s, pos)]

SliceNames == {"find", "find_char", "rfind_char", "find_any", "compare", "strip", "cut"}

Answered ==
  \/ call.name \notin SliceNames
  \/ call.name = "find" /\ Finding
  \/ call.name \in {"find_char", "rfind_char"} /\ FindingChar
  \/ call.name = "find_any" /\ FindingAny
  \/ call.name = "compare" /\ Comparing
  \/ call.name = "strip" /\ Stripping
  \/ call.name = "cut" /\ Cutting

LEMMA AnsweredInit == Init => Answered
BY DEF Init, NoCall, Answered, SliceNames

LEMMA AnsweredNext == Answered /\ [Next]_vars => Answered'
<1> SUFFICES ASSUME Answered, [Next]_vars
             PROVE  Answered'
  OBVIOUS
<1>1. ASSUME call'.name \notin SliceNames PROVE Answered'
  BY <1>1 DEF Answered
<1>2. CASE CallSet \/ CallGet
  <2>1. call'.name \in {"set", "get"}
    BY <1>2 DEF CallSet, CallGet, Calls
  <2> QED BY <1>1, <2>1 DEF SliceNames
<1>3. CASE CallStrToInt \/ CallStrToIntPair \/ CallToHexString \/ CallDecodeHex
  <2>1. call'.name \in {"int", "int64", "pair", "encode", "decode", "decode_encoded"}
    BY <1>3 DEF CallStrToInt, CallStrToIntPair, CallToHexString, CallDecodeHex, Calls
  <2> QED BY <1>1, <2>1 DEF SliceNames
<1>4. CASE FormatCall
  <2>1. call'.name \in {"bytes", "triple", "time", "list", "quote"}
    BY <1>4 DEF FormatCall, CallHumanReadableBytes, CallWriteTripleDigit2,
                CallTimeToString, CallVectorToString, CallToDoubleQuotedString, Calls
  <2> QED BY <1>1, <2>1 DEF SliceNames
<1>5. CASE SliceCall
  <2>1. CASE CallFind
    BY <2>1 DEF CallFind, Calls, Answered, Finding
  <2>2. CASE CallFindChar
    BY <2>2 DEF CallFindChar, Calls, Answered, FindingChar
  <2>3. CASE CallFindAny
    BY <2>3 DEF CallFindAny, Calls, Answered, FindingAny
  <2>4. CASE CallCompare
    BY <2>4 DEF CallCompare, Calls, Answered, Comparing
  <2>5. CASE CallStrip
    BY <2>5 DEF CallStrip, Calls, Answered, Stripping
  <2>6. CASE CallCut
    BY <2>6 DEF CallCut, Calls, Answered, Cutting
  <2> QED BY <1>5, <2>1, <2>2, <2>3, <2>4, <2>5, <2>6 DEF SliceCall
<1>6. CASE UNCHANGED vars
  BY <1>6 DEF vars, Answered, Finding, FindingChar, FindingAny, Comparing, Stripping, Cutting
<1> QED BY <1>2, <1>3, <1>4, <1>5, <1>6 DEF Next

LEMMA AnsweredAlways == Spec => []Answered
BY AnsweredInit, AnsweredNext, PTL DEF Spec

(* Every search answers what the others answer for the same slices: find()  *)
(* the first place from pos on where starts_with() holds, a search for a    *)
(* character what the search for a slice of one does, find_*_of() the first *)
(* and the last of what the single searches find, and find_*_not_of() what  *)
(* is not found in the target (slice.h:159-238, 338-349), for slices of any *)
(* lengths and any characters.                                              *)
THEOREM Searches == Spec => []SearchesFind
<1>1. Answered => SearchesFind
  <2>1. CASE call.name = "find" /\ Finding
    BY <2>1, FindAgrees DEF Finding
  <2>2. CASE call.name \in {"find_char", "rfind_char"} /\ FindingChar
    BY <2>2, FindCharAgrees DEF FindingChar
  <2>3. CASE call.name = "find_any" /\ FindingAny
    BY <2>3, FindAnyAgrees DEF FindingAny
  <2>4. CASE call.name \notin {"find", "find_char", "rfind_char", "find_any"}
    BY <2>4 DEF SearchesFind
  <2> QED BY <2>1, <2>2, <2>3, <2>4 DEF Answered, SliceNames
<1> QED BY <1>1, AnsweredAlways, PTL

(* compare() is an order for slices of any lengths: 0 for equal slices      *)
(* only, mirrored when the arguments are swapped, transitive, a slice after *)
(* its beginnings, and decided at difference_offset() where neither starts  *)
(* with the other (slice.h:122-148, 310-336).                               *)
THEOREM Comparisons == Spec => []ComparisonsAgree
<1>1. Answered => ComparisonsAgree
  <2>1. CASE call.name = "compare" /\ Comparing
    BY <2>1, ComparisonsHold DEF Comparing
  <2>2. CASE call.name # "compare"
    BY <2>2 DEF ComparisonsAgree
  <2> QED BY <2>1, <2>2 DEF Answered, SliceNames
<1> QED BY <1>1, AnsweredAlways, PTL

(* strip() and trim() take all characters of the target, and no others,     *)
(* from the two ends, in either order; substr(), remove_prefix_s() and      *)
(* remove_suffix_s() take and leave parts that make up the slice, at every  *)
(* position, and a cut of an invalid slice is invalid (slice.h:85-107,      *)
(* 240-256, 401-419).                                                       *)
THEOREM Cuts == Spec => []CutsAgree
<1>1. Answered => CutsAgree
  <2>1. CASE call.name = "strip" /\ Stripping
    BY <2>1, StripAgrees DEF Stripping
  <2>2. CASE call.name = "cut" /\ Cutting
    BY <2>2, CutAgrees DEF Cutting
  <2>3. CASE call.name \notin {"strip", "cut"}
    BY <2>3 DEF CutsAgree
  <2> QED BY <2>1, <2>2, <2>3 DEF Answered, SliceNames
<1> QED BY <1>1, AnsweredAlways, PTL

-----------------------------------------------------------------------------
(* Hexadecimal digits. *)

LEMMA DigitIs ==
  ASSUME NEW v \in 0 .. 15
  PROVE  toHex(v) \in Int /\ fromHex(toHex(v)) = v
<1>1. CASE v <= 9
  <2>1. toHex(v) = 48 + v
    BY <1>1 DEF toHex, AsByte
  <2> QED BY <1>1, <2>1 DEF fromHex
<1>2. CASE v > 9
  <2>1. toHex(v) = 55 + v
    BY <1>2 DEF toHex, AsByte
  <2> QED BY <1>2, <2>1 DEF fromHex
<1> QED BY <1>1, <1>2

LEMMA HexDigitIs ==
  ASSUME NEW c \in Int
  PROVE  fromHex(c) >= 0 <=> c \in HexDigits
BY DEF fromHex, HexDigits, UpperDigits

(* All pairs are decoded when all are pairs of digits. *)
LEMMA HexPairsAre ==
  ASSUME NEW s, NEW h \in Nat, h = Len(s) \div 2
  PROVE  (PairsDecoded(s) = h) <=> (\A k \in 1 .. h : PairOk(s, k))
<1> DEFINE N == {n \in 0 .. h : \A k \in 1 .. n : PairOk(s, k)}
           m == Max(N)
<1>1. PairsDecoded(s) = m
  BY DEF PairsDecoded
<1>2. N \in SUBSET Int /\ N # {} /\ \A n \in N : n <= h
  <2>1. 0 \in N
    OBVIOUS
  <2>2. N \subseteq 0 .. h
    OBVIOUS
  <2> HIDE DEF N
  <2> QED BY <2>1, <2>2
<1>3. m \in N
  <2>1. h \in Int /\ \A x \in N : x <= h
    BY <1>2
  <2> HIDE DEF N
  <2> QED BY ONLY <1>2, <2>1, MaxOf
<1>4. ASSUME m = h PROVE \A k \in 1 .. h : PairOk(s, k)
  BY <1>3, <1>4
<1>5. ASSUME \A k \in 1 .. h : PairOk(s, k) PROVE m = h
  <2>1. h \in N
    BY <1>5
  <2> HIDE DEF N
  <2> QED BY <1>2, <2>1, MaxIs
<1> HIDE DEF m
<1> QED BY <1>1, <1>4, <1>5

LEMMA DecodeIs ==
  ASSUME NEW s \in HexTexts
  PROVE  DecodeHex(s, <<0>>).ok <=>
           Valid(s) /\ Len(s) % 2 = 0 /\ \A k \in DOMAIN s : s[k] \in HexDigits
<1>1. CASE ~Valid(s)
  BY <1>1 DEF DecodeHex
<1>2. CASE Valid(s)
  <2> DEFINE n == Len(s)
             h == n \div 2
  <2>1. s \in Seq(Int) /\ n \in Nat /\ DOMAIN s = 1 .. n /\ \A k \in 1 .. n : s[k] \in Int
    <3>1. s \in Seq(0 .. 255)
      BY <1>2, BytesAssumption DEF Valid
    <3> DEFINE B == 0 .. 255
    <3>2. s \in Seq(B) /\ B \subseteq Int
      BY <3>1
    <3> HIDE DEF B
    <3>3. s \in Seq(Int)
      BY <3>2, SeqMonotonic
    <3> QED BY <3>3, LenProperties, ElementOfSeq
  <2> HIDE DEF n
  <2>2. /\ n % 2 = 0 \/ n % 2 = 1
        /\ n % 2 = 0 => n % 2 # 1
        /\ n % 2 = 0 => n = 2 * h
        /\ h \in Nat
    <3>1. n \in Nat
      BY <2>1
    <3> QED BY ONLY <3>1
  <2>3. PairsDecoded(s) = h <=> \A k \in 1 .. h : PairOk(s, k)
    <3>1. h \in Nat /\ h = Len(s) \div 2
      BY <2>2 DEF n
    <3> HIDE DEF h
    <3> QED BY ONLY <3>1, HexPairsAre
  <2>4. n % 2 = 0 => (DecodeHex(s, <<0>>).ok <=> PairsDecoded(s) = h)
    <3>1. ASSUME n % 2 # 1
          PROVE  DecodeHex(s, <<0>>).ok <=> PairsDecoded(s) = h
      BY <1>2, <3>1 DEF DecodeHex, n
    <3> QED BY <2>2, <3>1
  <2>5. n % 2 = 1 => ~DecodeHex(s, <<0>>).ok
    BY DEF DecodeHex, n
  <2> HIDE DEF h
  <2>6. CASE n % 2 = 1
    BY <2>5, <2>6 DEF n
  <2>7. CASE n % 2 = 0
    <3>0. n = 2 * h
      BY <2>2, <2>7
    <3>1. DecodeHex(s, <<0>>).ok <=> \A k \in 1 .. h : PairOk(s, k)
      BY <2>3, <2>4, <2>7
    <3>2. ASSUME NEW k \in 1 .. h
          PROVE  PairOk(s, k) <=> s[2 * k - 1] \in HexDigits /\ s[2 * k] \in HexDigits
      <4>1. 2 * k - 1 \in 1 .. n /\ 2 * k \in 1 .. n
        BY <2>1, <2>2, <3>0
      <4> QED BY <2>1, <4>1, HexDigitIs DEF PairOk
    <3>3. ASSUME \A k \in 1 .. h : PairOk(s, k), NEW i \in 1 .. n
          PROVE  s[i] \in HexDigits
      <4>1. PICK k \in 1 .. h : i = 2 * k - 1 \/ i = 2 * k
        <5> DEFINE k == (i + 1) \div 2
        <5>1. k \in 1 .. h /\ (i = 2 * k - 1 \/ i = 2 * k)
          BY <2>1, <2>2, <3>0
        <5> HIDE DEF k
        <5> QED BY <5>1
      <4> QED BY <3>2, <3>3, <4>1
    <3>4. ASSUME \A i \in 1 .. n : s[i] \in HexDigits, NEW k \in 1 .. h
          PROVE  PairOk(s, k)
      <4>1. 2 * k - 1 \in 1 .. n /\ 2 * k \in 1 .. n
        BY <2>1, <2>2, <3>0
      <4> QED BY <3>2, <3>4, <4>1
    <3> QED BY <1>2, <2>1, <2>7, <3>1, <3>3, <3>4 DEF n
  <2> QED BY <2>2, <2>6, <2>7
<1> QED BY <1>1, <1>2

(* What ToString(true) writes for a byte is read back as the byte. *)
LEMMA ByteReadBack ==
  ASSUME NEW b \in 0 .. 255, ~SignedChar \/ b < 128
  PROVE  LET t == HexOf(b)
         IN  /\ t[1] \in Int /\ t[2] \in Int
             /\ fromHex(t[1]) \in 0 .. 15 /\ fromHex(t[2]) \in 0 .. 15
             /\ 16 * fromHex(t[1]) + fromHex(t[2]) = b
<1> DEFINE high == b \div 16
           low == b % 16
<1>1. high \in 0 .. 15 /\ low \in 0 .. 15 /\ 16 * high + low = b
  OBVIOUS
<1>2. AsChar(b) = b
  BY DEF AsChar
<1> HIDE DEF high, low
<1>3. HexOf(b)[1] = toHex(high) /\ HexOf(b)[2] = toHex(low)
  BY <1>2 DEF HexOf, high, low
<1>4. /\ toHex(high) \in Int /\ fromHex(toHex(high)) = high
      /\ toHex(low) \in Int /\ fromHex(toHex(low)) = low
  BY <1>1, DigitIs
<1> QED BY <1>1, <1>3, <1>4

LEMMA HexReadBack ==
  ASSUME NEW d \in Seq(0 .. 255), ~SignedChar \/ \A k \in DOMAIN d : d[k] < 128
  PROVE  DecodeHex(ToHexString(d), <<0>>) = [ok |-> TRUE, bytes |-> d]
<1> DEFINE n == Len(d)
           s == ToHexString(d)
           t(k) == HexOf(d[k])
<1>1. n \in Nat /\ DOMAIN d = 1 .. n /\ \A k \in 1 .. n : d[k] \in 0 .. 255
  BY LenProperties, ElementOfSeq
<1>2. s = [i \in 1 .. 2 * n |-> t((i + 1) \div 2)[IF i % 2 = 1 THEN 1 ELSE 2]]
  BY DEF ToHexString
<1>3. ASSUME NEW k \in 1 .. n
      PROVE  /\ t(k)[1] \in Int /\ t(k)[2] \in Int
             /\ fromHex(t(k)[1]) \in 0 .. 15 /\ fromHex(t(k)[2]) \in 0 .. 15
             /\ 16 * fromHex(t(k)[1]) + fromHex(t(k)[2]) = d[k]
  <2> DEFINE b == d[k]
  <2>1. b \in 0 .. 255 /\ (~SignedChar \/ b < 128)
    <3> HIDE DEF n, s, t
    <3> QED BY <1>1
  <2> HIDE DEF b
  <2>2. LET u == HexOf(b)
        IN  /\ u[1] \in Int /\ u[2] \in Int
            /\ fromHex(u[1]) \in 0 .. 15 /\ fromHex(u[2]) \in 0 .. 15
            /\ 16 * fromHex(u[1]) + fromHex(u[2]) = b
    BY <2>1, ByteReadBack
  <2> QED BY <2>2 DEF b
<1> HIDE DEF n, s, t
<1>4. ASSUME NEW k \in 1 .. n PROVE s[2 * k - 1] = t(k)[1] /\ s[2 * k] = t(k)[2]
  <2> DEFINE i == 2 * k - 1
             j == 2 * k
  <2>1. /\ i \in 1 .. 2 * n /\ (i + 1) \div 2 = k /\ i % 2 = 1
        /\ j \in 1 .. 2 * n /\ (j + 1) \div 2 = k /\ j % 2 # 1
    BY <1>1
  <2> HIDE DEF i, j
  <2>2. s[i] = t(k)[1] /\ s[j] = t(k)[2]
    BY <1>2, <2>1
  <2> QED BY <2>2 DEF i, j
<1>5. s \in Seq(Int) /\ Len(s) = 2 * n
  <2> DEFINE m == 2 * n
  <2>1. m \in Nat
    BY <1>1
  <2>2. ASSUME NEW i \in 1 .. m
        PROVE  t((i + 1) \div 2)[IF i % 2 = 1 THEN 1 ELSE 2] \in Int
    <3> DEFINE k == (i + 1) \div 2
    <3>1. k \in 1 .. n
      BY <1>1
    <3> HIDE DEF k
    <3>2. t(k)[1] \in Int /\ t(k)[2] \in Int
      BY <1>3, <3>1
    <3> QED BY <3>2 DEF k
  <2>3. s = [i \in 1 .. m |-> t((i + 1) \div 2)[IF i % 2 = 1 THEN 1 ELSE 2]]
    BY <1>2
  <2> HIDE DEF m
  <2>4. s \in [1 .. m -> Int]
    BY <2>2, <2>3
  <2>5. s \in Seq(Int) /\ Len(s) = m
    BY <2>1, <2>4
  <2> QED BY <2>5 DEF m
<1>6. Valid(s) /\ Len(s) % 2 # 1 /\ Len(s) \div 2 = n
  BY <1>1, <1>5, SlicesAssumption DEF Valid
<1>7. ASSUME NEW k \in 1 .. n PROVE PairOk(s, k) /\ PairByte(s, k) = d[k]
  <2> DEFINE x == fromHex(t(k)[1])
             y == fromHex(t(k)[2])
  <2>1. x \in 0 .. 15 /\ y \in 0 .. 15 /\ 16 * x + y = d[k] /\ d[k] \in 0 .. 255
    BY <1>1, <1>3
  <2>2. fromHex(s[2 * k - 1]) = x /\ fromHex(s[2 * k]) = y
    BY <1>4
  <2> HIDE DEF x, y
  <2>3. (16 * x + y) % 256 = d[k]
    BY <2>1
  <2> QED BY <2>1, <2>2, <2>3 DEF PairOk, PairByte, AsByte
<1>8. PairsDecoded(s) = n
  <2>1. n \in Nat /\ n = Len(s) \div 2
    BY <1>1, <1>6
  <2>2. \A k \in 1 .. n : PairOk(s, k)
    BY <1>7
  <2> QED BY ONLY <2>1, <2>2, HexPairsAre
<1>9. [k \in 1 .. n |-> PairByte(s, k)] = d
  <2>1. [k \in 1 .. n |-> PairByte(s, k)] = [k \in 1 .. n |-> d[k]]
    BY <1>7
  <2>2. d = [k \in 1 .. n |-> d[k]]
    BY <1>1
  <2> QED BY <2>1, <2>2
<1> QED BY <1>6, <1>8, <1>9 DEF DecodeHex, s

Encoding ==
  \E d \in Datas : call.args = <<d>> /\ out = ToHexString(d)

Decoding ==
  \E s \in HexTexts : call.args = <<s>> /\ out = DecodeHex(s, <<0>>)

DecodingEncoded ==
  \E d \in Datas : call.args = <<d>> /\ out = DecodeHex(ToHexString(d), <<0>>)

HexNames == {"encode", "decode", "decode_encoded"}

Coded ==
  \/ call.name \notin HexNames
  \/ call.name = "encode" /\ Encoding
  \/ call.name = "decode" /\ Decoding
  \/ call.name = "decode_encoded" /\ DecodingEncoded

LEMMA CodedInit == Init => Coded
BY DEF Init, NoCall, Coded, HexNames

LEMMA CodedNext == Coded /\ [Next]_vars => Coded'
<1> SUFFICES ASSUME Coded, [Next]_vars
             PROVE  Coded'
  OBVIOUS
<1>1. ASSUME call'.name \notin HexNames PROVE Coded'
  BY <1>1 DEF Coded
<1>2. CASE CallSet \/ CallGet
  <2>1. call'.name \in {"set", "get"}
    BY <1>2 DEF CallSet, CallGet, Calls
  <2> QED BY <1>1, <2>1 DEF HexNames
<1>3. CASE CallStrToInt \/ CallStrToIntPair
  <2>1. call'.name \in {"int", "int64", "pair"}
    BY <1>3 DEF CallStrToInt, CallStrToIntPair, Calls
  <2> QED BY <1>1, <2>1 DEF HexNames
<1>4. CASE FormatCall
  <2>1. call'.name \in {"bytes", "triple", "time", "list", "quote"}
    BY <1>4 DEF FormatCall, CallHumanReadableBytes, CallWriteTripleDigit2,
                CallTimeToString, CallVectorToString, CallToDoubleQuotedString, Calls
  <2> QED BY <1>1, <2>1 DEF HexNames
<1>5. CASE SliceCall
  <2>1. call'.name \in SliceNames
    BY <1>5 DEF SliceCall, CallFind, CallFindChar, CallFindAny, CallCompare, CallStrip,
                CallCut, Calls, SliceNames
  <2> QED BY <1>1, <2>1 DEF HexNames, SliceNames
<1>6. CASE CallToHexString
  BY <1>6 DEF CallToHexString, Calls, Coded, Encoding
<1>7. CASE CallDecodeHex
  <2>1. CASE \E text \in HexTexts : Calls("decode", <<text>>, DecodeHex(text, <<0>>))
    BY <2>1 DEF Calls, Coded, Decoding
  <2>2. CASE call.name = "encode" /\ Calls("decode_encoded", call.args, DecodeHex(out, <<0>>))
    <3>1. Encoding
      BY <2>2 DEF Coded, HexNames
    <3> QED BY <2>2, <3>1 DEF Calls, Coded, Encoding, DecodingEncoded
  <2> QED BY <1>7, <2>1, <2>2 DEF CallDecodeHex
<1>8. CASE UNCHANGED vars
  BY <1>8 DEF vars, Coded, Encoding, Decoding, DecodingEncoded
<1> QED BY <1>2, <1>3, <1>4, <1>5, <1>6, <1>7, <1>8 DEF Next

LEMMA CodedAlways == Spec => []Coded
BY CodedInit, CodedNext, PTL DEF Spec

(* DecodeHex() succeeds on texts of an even number of hexadecimal digits of *)
(* either case and on no others, whatever their length (slice.h:129-134,    *)
(* 385-399).                                                                *)
THEOREM HexAccepted == Spec => []AcceptsHexOnly
<1>1. Coded => AcceptsHexOnly
  <2>1. CASE call.name = "decode" /\ Decoding
    <3>1. PICK s \in HexTexts : call.args = <<s>> /\ out = DecodeHex(s, <<0>>)
      BY <2>1 DEF Decoding
    <3>2. Text = s
      BY <3>1 DEF Text
    <3>3. out.ok <=> Valid(s) /\ Len(s) % 2 = 0 /\ \A k \in DOMAIN s : s[k] \in HexDigits
      BY <3>1, DecodeIs
    <3> QED BY <3>2, <3>3 DEF AcceptsHexOnly
  <2>2. CASE call.name # "decode"
    BY <2>2 DEF AcceptsHexOnly
  <2> QED BY <2>1, <2>2 DEF Coded, HexNames
<1> QED BY <1>1, CodedAlways, PTL

(* DecodeHex() makes of what ToString(true) wrote the bytes it was written  *)
(* from, however many: all bytes where char is unsigned, those below 128    *)
(* everywhere (slice.h:372-399).                                            *)
THEOREM HexRoundTrip == Spec => []RoundTrip
<1>1. Coded => RoundTrip
  <2>1. CASE call.name = "decode_encoded" /\ DecodingEncoded
    <3>1. PICK d \in Datas : call.args = <<d>> /\ out = DecodeHex(ToHexString(d), <<0>>)
      BY <2>1 DEF DecodingEncoded
    <3>2. Text = d /\ d \in Seq(0 .. 255)
      BY <3>1, BytesAssumption DEF Text
    <3>3. (~SignedChar \/ \A k \in DOMAIN d : d[k] < 128) => out = [ok |-> TRUE, bytes |-> d]
      BY <3>1, <3>2, HexReadBack
    <3> QED BY <3>2, <3>3 DEF RoundTrip
  <2>2. CASE call.name # "decode_encoded"
    BY <2>2 DEF RoundTrip
  <2> QED BY <2>1, <2>2 DEF Coded, HexNames
<1> QED BY <1>1, CodedAlways, PTL

-----------------------------------------------------------------------------
(* Integers. *)

Converting(limit) ==
  \E text \in Texts, trim, strict \in BOOLEAN :
    call.args = <<text, trim, strict>> /\ out = Convert(text, trim, strict, limit)

ConvertingPair == \E text \in Texts : call.args = <<text>> /\ out = StrToIntPair(text, Colon)

Getting ==
  \E value \in EnvTexts \cup {Invalid}, default \in BOOLEAN :
    /\ call.args = <<value, default>>
    /\ out = [string |-> GetString(value, <<>>), bool |-> GetBool(value, default, Unreported),
              int |-> GetInt32(value, Default), int64 |-> GetInt64(value, Default)]

NumberNames == {"int", "int64", "pair", "set", "get"}

(* A number is what a call made of its text; the variable holds the value   *)
(* that was set first, and none before.                                     *)
Numbered ==
  /\ \/ call.name \notin NumberNames
     \/ call.name = "int" /\ Converting(IntLimit)
     \/ call.name = "int64" /\ Converting(LongLimit)
     \/ call.name = "pair" /\ ConvertingPair
     \/ call.name = "set" /\ Len(call.args) = 1 /\ env = call.args[1] /\ env \in EnvTexts
     \/ call.name = "get" /\ Getting
  /\ call.name = "none" => env = Invalid

LEMMA NumberedInit == Init => Numbered
BY DEF Init, NoCall, Numbered, NumberNames

LEMMA NumberedNext == Numbered /\ [Next]_vars => Numbered'
<1> SUFFICES ASSUME Numbered, [Next]_vars
             PROVE  Numbered'
  OBVIOUS
<1>1. ASSUME call'.name \notin NumberNames, call'.name # "none" PROVE Numbered'
  BY <1>1 DEF Numbered
<1>2. CASE CallStrToInt
  <2>1. PICK text \in Texts, trim \in BOOLEAN, strict \in BOOLEAN :
          \/ Calls("int", <<text, trim, strict>>, StrToInt(text, trim, strict))
          \/ Calls("int64", <<text, trim, strict>>, StrToInt64(text, trim, strict))
    BY <1>2 DEF CallStrToInt
  <2>2. CASE Calls("int", <<text, trim, strict>>, StrToInt(text, trim, strict))
    BY <2>2 DEF Calls, Numbered, Converting, StrToInt
  <2>3. CASE Calls("int64", <<text, trim, strict>>, StrToInt64(text, trim, strict))
    BY <2>3 DEF Calls, Numbered, Converting, StrToInt64
  <2> QED BY <2>1, <2>2, <2>3
<1>3. CASE CallStrToIntPair
  BY <1>3 DEF CallStrToIntPair, Calls, Numbered, ConvertingPair
<1>4. CASE CallSet
  <2>1. PICK value \in EnvTexts :
          /\ Calls("set", <<IF call.name = "set" THEN call.args[1] ELSE value>>, 0)
          /\ env' = Set(env, value)
    BY <1>4 DEF CallSet
  <2>2. CASE call.name = "set"
    <3>1. env = call.args[1] /\ env \in EnvTexts
      BY <2>2 DEF Numbered, NumberNames
    <3>2. Valid(env)
      BY <3>1, TextsAssumption, SlicesAssumption DEF Valid
    <3>3. env' = env /\ call'.name = "set" /\ call'.args = <<env>>
      BY <2>1, <2>2, <3>1, <3>2 DEF Set, Calls
    <3> QED BY <3>1, <3>3 DEF Numbered
  <2>3. CASE call.name = "none"
    <3>1. env' = value /\ call'.name = "set" /\ call'.args = <<value>>
      BY <2>1, <2>3 DEF Set, Calls, Numbered, Valid
    <3> QED BY <3>1 DEF Numbered
  <2> QED BY <1>4, <2>2, <2>3 DEF CallSet
<1>5. CASE CallGet
  <2>1. PICK default \in BOOLEAN :
          Calls("get", <<IF call.name = "set" THEN call.args[1] ELSE Invalid, default>>,
                [string |-> GetString(env, <<>>), bool |-> GetBool(env, default, Unreported),
                 int |-> GetInt32(env, Default), int64 |-> GetInt64(env, Default)])
    BY <1>5 DEF CallGet
  <2>2. env \in EnvTexts \cup {Invalid} /\ (IF call.name = "set" THEN call.args[1] ELSE Invalid) = env
    BY <1>5 DEF CallGet, Numbered, NumberNames
  <2>3. call'.name = "get" /\ Getting'
    BY <2>1, <2>2 DEF Calls, Getting
  <2> QED BY <2>3 DEF Numbered
<1>6. CASE CallToHexString \/ CallDecodeHex
  <2>1. call'.name \in HexNames
    BY <1>6 DEF CallToHexString, CallDecodeHex, Calls, HexNames
  <2> QED BY <1>1, <2>1 DEF HexNames, NumberNames
<1>7. CASE FormatCall
  <2>1. call'.name \in {"bytes", "triple", "time", "list", "quote"}
    BY <1>7 DEF FormatCall, CallHumanReadableBytes, CallWriteTripleDigit2,
                CallTimeToString, CallVectorToString, CallToDoubleQuotedString, Calls
  <2> QED BY <1>1, <2>1 DEF NumberNames
<1>8. CASE SliceCall
  <2>1. call'.name \in SliceNames
    BY <1>8 DEF SliceCall, CallFind, CallFindChar, CallFindAny, CallCompare, CallStrip,
                CallCut, Calls, SliceNames
  <2> QED BY <1>1, <2>1 DEF NumberNames, SliceNames
<1>9. CASE UNCHANGED vars
  BY <1>9 DEF vars, Numbered, Converting, ConvertingPair, Getting
<1> QED BY <1>2, <1>3, <1>4, <1>5, <1>6, <1>7, <1>8, <1>9 DEF Next

LEMMA NumberedAlways == Spec => []Numbered
BY NumberedInit, NumberedNext, PTL DEF Spec

LEMMA NumberEndsAre ==
  ASSUME NEW s \in Seq(Int), Text = s, NEW u
  PROVE  u \in NumberEnds <=> \E e, h : NumberAt(s, e, h, u)
<1>1. Valid(s) /\ Len(s) \in Nat /\ DOMAIN s = 1 .. Len(s) /\ Invalid \notin Seq(Int)
  BY SlicesAssumption, LenProperties DEF Valid
<1>2. u \in NumberEnds <=>
        u \in 1 .. Len(s) /\ s[u] \notin Spaces /\ Reference!Numbers(Before(s, u)) # {}
  BY <1>1 DEF NumberEnds
<1>3. ASSUME u \in 1 .. Len(s), s[u] \notin Spaces, Reference!Numbers(Before(s, u)) # {}
      PROVE  \E e, h : NumberAt(s, e, h, u)
  <2>1. PICK x : x \in Reference!Numbers(Before(s, u))
    BY <1>3
  <2> QED BY <1>1, <1>3, <2>1, EndsAre
<1>4. ASSUME NEW e, NEW h, NumberAt(s, e, h, u)
      PROVE  u \in 1 .. Len(s) /\ s[u] \notin Spaces /\ Reference!Numbers(Before(s, u)) # {}
  <2>1. u \in 1 .. Len(s) /\ s[u] \in DOMAIN Digit
    <3>1. /\ e \in Nat /\ h \in {0, 1} /\ u \in Nat /\ e + h < u /\ u <= Len(s)
          /\ \A i \in e + h + 1 .. u : s[i] \in DOMAIN Digit
      BY <1>4 DEF NumberAt
    <3>2. u \in e + h + 1 .. u
      BY <3>1
    <3> QED BY <1>1, <3>1, <3>2
  <2>2. s[u] \notin Spaces
    BY <2>1, CharactersAssumption
  <2> DEFINE x == AmountAt(s, e, h, u)
  <2>3. x \in Reference!Numbers(Before(s, u))
    BY <1>1, <1>4, <2>1, <2>2, EndsAre
  <2> QED BY <2>1, <2>2, <2>3
<1> QED BY <1>2, <1>3, <1>4

LEMMA FurthestIs ==
  ASSUME NEW s \in Seq(Int), Text = s, NumberEnds # {}
  PROVE  \E e, h, u : /\ NumberAt(s, e, h, u) /\ Furthest(s, u) /\ u = Max(NumberEnds)
                      /\ Written = AmountAt(s, e, h, u)
<1> DEFINE D == NumberEnds
           u == Max(D)
           high == Len(s)
<1>1. high \in Int /\ Len(s) \in Nat /\ Invalid \notin Seq(Int)
  BY SlicesAssumption, LenProperties
<1>2. \A v : v \in D <=> \E e, h : NumberAt(s, e, h, v)
  BY NumberEndsAre
<1>3. D \in SUBSET Int /\ D # {} /\ \A v \in D : v <= high
  <2>1. ASSUME NEW v \in D PROVE v \in Int /\ v <= high
    <3>1. PICK e, h : NumberAt(s, e, h, v)
      BY <1>2
    <3> QED BY <3>1 DEF NumberAt
  <2> QED BY <2>1
<1> HIDE DEF D, high
<1>4. u \in D /\ \A v \in D : v <= u
  BY <1>1, <1>3, MaxOf
<1> HIDE DEF u
<1>5. PICK e, h : NumberAt(s, e, h, u)
  BY <1>2, <1>4
<1>6. Furthest(s, u)
  BY <1>2, <1>4 DEF Furthest
<1>7. u \in 1 .. Len(s) /\ s[u] \notin Spaces
  BY <1>1, <1>4, LenProperties DEF D, NumberEnds
<1> DEFINE N == Reference!Numbers(Before(s, u))
           a == AmountAt(s, e, h, u)
<1>8. \A x : x \in N <=> \E c, g : NumberAt(s, c, g, u) /\ x = AmountAt(s, c, g, u)
  BY <1>1, <1>7, EndsAre
<1>9. N = {a}
  <2>1. ASSUME NEW c, NEW g, NumberAt(s, c, g, u) PROVE c = e /\ g = h
    BY <1>5, <2>1, NumberUnique
  <2> HIDE DEF N
  <2> QED BY <1>5, <1>8, <2>1
<1>10. Written = CHOOSE n \in N : TRUE
  BY DEF Written, u, D
<1>11. Written = a
  <2> HIDE DEF N, a
  <2> QED BY <1>9, <1>10
<1> QED BY <1>5, <1>6, <1>11 DEF u, D

LEMMA EndsWellIs ==
  ASSUME NEW s \in Seq(Int), Text = s, NEW u \in 1 .. Len(s), u = Max(NumberEnds),
         NEW trim, NEW strict \in BOOLEAN, strict => \A i \in 1 .. Len(s) : s[i] # Nul
  PROVE  EndsWell(trim, strict) <=> Ends(s, u, trim, strict)
<1> DEFINE t == From(s, u)
<1>1. Len(s) \in Nat /\ u \in Nat /\ u <= Len(s) /\ u \in 0 .. Len(s)
  BY LenProperties
<1>2. t \in Seq(Int) /\ Len(t) = Len(s) - u /\ \A i \in 1 .. Len(s) - u : t[i] = s[u + i]
  BY <1>1, FromIs
<1>3. EndsWell(trim, strict) <=>
        ~strict \/ t = <<>> \/ (trim /\ Reference!IsBlank(t))
  BY DEF EndsWell
<1> HIDE DEF t
<1>4. t = <<>> <=> u = Len(s)
  BY <1>1, <1>2, EmptySeq
<1>5. ASSUME u # Len(s) PROVE u < Len(s) /\ (strict => s[u + 1] # Nul)
  <2>1. u + 1 \in 1 .. Len(s)
    BY <1>1, <1>5
  <2> QED BY <1>1, <1>5, <2>1
<1>6. Reference!IsBlank(t) <=> \A i \in 1 .. Len(s) - u : s[u + i] \in Spaces
  <2>1. DOMAIN t = 1 .. Len(s) - u
    BY <1>2, LenProperties
  <2> QED BY <1>2, <2>1 DEF Reference!IsBlank
<1>7. (\A i \in 1 .. Len(s) - u : s[u + i] \in Spaces)
        <=> \A i \in u + 1 .. Len(s) : s[i] \in Spaces
  <2>1. ASSUME \A i \in 1 .. Len(s) - u : s[u + i] \in Spaces, NEW i \in u + 1 .. Len(s)
        PROVE  s[i] \in Spaces
    <3>1. i - u \in 1 .. Len(s) - u /\ u + (i - u) = i
      BY <1>1
    <3> QED BY <2>1, <3>1
  <2>2. ASSUME \A i \in u + 1 .. Len(s) : s[i] \in Spaces, NEW i \in 1 .. Len(s) - u
        PROVE  s[u + i] \in Spaces
    <3>1. u + i \in u + 1 .. Len(s)
      BY <1>1
    <3> QED BY <2>2, <3>1
  <2> QED BY <2>1, <2>2
<1>8. CASE u = Len(s)
  BY <1>3, <1>4, <1>8 DEF Ends
<1>9. CASE u # Len(s)
  BY <1>3, <1>4, <1>5, <1>6, <1>7, <1>9 DEF Ends
<1> QED BY <1>8, <1>9

LEMMA IntegerAgrees ==
  ASSUME NEW s \in Texts, NEW trim \in BOOLEAN, NEW strict \in BOOLEAN,
         NEW limit \in Nat \ {0}, limit <= LongLimit,
         call.args = <<s, trim, strict>>, out = Convert(s, trim, strict, limit),
         strict /\ Valid(s) => \A i \in DOMAIN s : s[i] # Nul
  PROVE  /\ Acceptable /\ Fits(Written, limit) => out = Parsed(Written)
         /\ ~Acceptable \/ ~Fits(Written, LongLimit) => out.err # "ok" /\ out.num = 0
<1>0. Text = s /\ (Acceptable <=> NumberEnds # {} /\ EndsWell(trim, strict))
  BY DEF Text, Acceptable
<1>1. CASE ~Valid(s)
  <2>1. NumberEnds = {}
    BY <1>0, <1>1 DEF NumberEnds
  <2>2. out = Failed("EADDRNOTAVAIL")
    BY <1>1 DEF Convert
  <2> QED BY <1>0, <2>1, <2>2 DEF Failed
<1>2. CASE Valid(s)
  <2>1. s \in Seq(Int) /\ Invalid \notin Seq(Int) /\ Len(s) \in Nat
    BY <1>2, TextsAssumption, SlicesAssumption, LenProperties DEF Valid
  <2>2. /\ (\A e, h, k : ~NumberAt(s, e, h, k)) => Refused(out)
        /\ \A e, h, k : NumberAt(s, e, h, k) /\ Furthest(s, k) =>
             IF Fits(AmountAt(s, e, h, k), LongLimit) /\ Ends(s, k, trim, strict)
             THEN out = Parsed(Narrow(AmountAt(s, e, h, k), limit))
             ELSE Refused(out)
    BY <2>1, ConvertIs
  <2>3. CASE NumberEnds = {}
    <3>1. \A u : u \in NumberEnds <=> \E e, h : NumberAt(s, e, h, u)
      BY <1>0, <2>1, NumberEndsAre
    <3>2. Refused(out)
      BY <2>2, <2>3, <3>1
    <3> QED BY <1>0, <2>3, <3>2 DEF Refused
  <2>4. CASE NumberEnds # {}
    <3>1. PICK e, h, u : /\ NumberAt(s, e, h, u) /\ Furthest(s, u) /\ u = Max(NumberEnds)
                         /\ Written = AmountAt(s, e, h, u)
      BY <1>0, <2>1, <2>4, FurthestIs
    <3>2. u \in 1 .. Len(s)
      BY <2>1, <3>1 DEF NumberAt
    <3>3. EndsWell(trim, strict) <=> Ends(s, u, trim, strict)
      <4>1. strict => \A i \in 1 .. Len(s) : s[i] # Nul
        BY <1>2, <2>1, LenProperties
      <4> QED BY <1>0, <2>1, <3>1, <3>2, <4>1, EndsWellIs
    <3>4. Written \in Int
      BY <2>1, <3>1, AmountInt
    <3>5. IF Fits(Written, LongLimit) /\ EndsWell(trim, strict)
          THEN out = Parsed(Narrow(Written, limit)) ELSE Refused(out)
      BY <2>2, <3>1, <3>3
    <3>6. ASSUME Fits(Written, limit)
          PROVE  Fits(Written, LongLimit) /\ Narrow(Written, limit) = Written
      <4>1. Fits(Written, LongLimit)
        BY <3>4, <3>6, LimitsAssumption DEF Fits
      <4>2. Written + limit \in Nat /\ Written + limit < 2 * limit
        BY <3>4, <3>6 DEF Fits
      <4>3. (Written + limit) % (2 * limit) = Written + limit
        BY <4>2, SmallRemainder
      <4> QED BY <3>4, <4>1, <4>3 DEF Narrow
    <3> QED BY <1>0, <2>4, <3>5, <3>6 DEF Refused
  <2> QED BY <2>3, <2>4
<1> QED BY <1>1, <1>2

LEMMA LimitsAre ==
  /\ IntLimit \in Nat \ {0} /\ LongLimit \in Nat \ {0}
  /\ IntLimit <= LongLimit /\ LongLimit <= LongLimit
BY LimitsAssumption

(* StrToInt() and StrToInt64() give the number of a text that is one number, *)
(* or starts with one and need not be strict, the longest it starts with,   *)
(* and an error for every other text, of whatever length and for any ranges *)
(* of the two types (conversion.h:24-28, 143-183).                          *)
THEOREM IntegersParsed == Spec => []IntegersAgree
<1>1. Numbered => IntegersAgree
  <2>1. CASE call.name = "int" /\ Converting(IntLimit)
    <3>1. PICK s \in Texts, trim \in BOOLEAN, strict \in BOOLEAN :
            call.args = <<s, trim, strict>> /\ out = Convert(s, trim, strict, IntLimit)
      BY <2>1 DEF Converting
    <3>2. Text = s /\ call.args[3] = strict
      BY <3>1 DEF Text
    <3>3. ASSUME strict /\ Valid(s) => \A i \in DOMAIN s : s[i] # Nul
          PROVE  /\ Acceptable /\ Fits(Written, IntLimit) => out = Parsed(Written)
                 /\ ~Acceptable \/ ~Fits(Written, LongLimit) => out.err # "ok" /\ out.num = 0
      BY <3>1, <3>3, LimitsAre, IntegerAgrees
    <3> QED BY <2>1, <3>2, <3>3 DEF IntegersAgree
  <2>2. CASE call.name = "int64" /\ Converting(LongLimit)
    <3>1. PICK s \in Texts, trim \in BOOLEAN, strict \in BOOLEAN :
            call.args = <<s, trim, strict>> /\ out = Convert(s, trim, strict, LongLimit)
      BY <2>2 DEF Converting
    <3>2. Text = s /\ call.args[3] = strict
      BY <3>1 DEF Text
    <3>3. ASSUME strict /\ Valid(s) => \A i \in DOMAIN s : s[i] # Nul
          PROVE  /\ Acceptable /\ Fits(Written, LongLimit) => out = Parsed(Written)
                 /\ ~Acceptable \/ ~Fits(Written, LongLimit) => out.err # "ok" /\ out.num = 0
      BY <3>1, <3>3, LimitsAre, IntegerAgrees
    <3> QED BY <2>2, <3>2, <3>3 DEF IntegersAgree
  <2>3. CASE call.name \notin {"int", "int64"}
    BY <2>3 DEF IntegersAgree
  <2> QED BY <2>1, <2>2, <2>3 DEF Numbered, NumberNames
<1> QED BY <1>1, NumberedAlways, PTL

(* StrToIntPair() accepts exactly the texts of two numbers around a         *)
(* separator and returns both, or {0, 0}: for texts of any length without   *)
(* Nul, and any widths (conversion.h:41, 229-259).                          *)
THEOREM PairsParsed == Spec => []PairsAgree
<1>1. Numbered => PairsAgree
  <2>1. CASE call.name = "pair" /\ ConvertingPair
    <3>1. PICK s \in Texts : call.args = <<s>> /\ out = StrToIntPair(s, Colon)
      BY <2>1 DEF ConvertingPair
    <3>2. Text = s
      BY <3>1 DEF Text
    <3> DEFINE pairs == IF Valid(s) THEN Reference!PairsAround(s, Colon) ELSE {}
               fit(limit) == {p \in pairs : Fits(p[1], limit) /\ Fits(p[2], limit)}
    <3>3. ASSUME Valid(s) => \A i \in DOMAIN s : s[i] # Nul
          PROVE  PairIs(out, pairs)
      <4>1. CASE ~Valid(s)
        <5>1. out = Both(Failed("EADDRNOTAVAIL"), Failed("EADDRNOTAVAIL"))
          BY <3>1, <4>1 DEF StrToIntPair
        <5>2. PairRefused(out)
          BY <5>1, BothIs DEF Failed
        <5> QED BY <4>1, <5>2 DEF PairIs
      <4>2. CASE Valid(s)
        <5>1. s \in Seq(Int) /\ Invalid \notin Seq(Int) /\ DOMAIN s = 1 .. Len(s)
          BY <4>2, TextsAssumption, SlicesAssumption, LenProperties DEF Valid
        <5>2. \A i \in 1 .. Len(s) : s[i] # Nul
          BY <3>3, <4>2, <5>1
        <5>3. PairIs(out, Reference!PairsAround(s, Colon))
          BY <3>1, <5>1, <5>2, TextsAssumption, PairParsed
        <5> QED BY <4>2, <5>3
      <4> QED BY <4>1, <4>2
    <3>4. ASSUME PairIs(out, pairs)
          PROVE  /\ out.err = "ok" <=> fit(LongLimit) # {}
                 /\ out.err # "ok" => out.nums = <<0, 0>>
                 /\ fit(IntLimit) # {} => out.nums \in fit(IntLimit)
      <4> HIDE DEF pairs
      <4>1. CASE pairs = {} /\ PairRefused(out)
        BY <4>1 DEF PairRefused
      <4>2. ASSUME NEW x \in Int, NEW y \in Int, pairs = {<<x, y>>},
                   IF Fits(x, LongLimit) /\ Fits(y, LongLimit)
                   THEN out = [err |-> "ok", nums |-> <<Narrow(x, IntLimit), Narrow(y, IntLimit)>>]
                   ELSE PairRefused(out)
            PROVE  /\ out.err = "ok" <=> fit(LongLimit) # {}
                   /\ out.err # "ok" => out.nums = <<0, 0>>
                   /\ fit(IntLimit) # {} => out.nums \in fit(IntLimit)
        <5>1. \A limit : fit(limit) = IF Fits(x, limit) /\ Fits(y, limit) THEN {<<x, y>>} ELSE {}
          BY <4>2
        <5>2. out.err = "ok" <=> Fits(x, LongLimit) /\ Fits(y, LongLimit)
          BY <4>2 DEF PairRefused
        <5>3. out.err # "ok" => out.nums = <<0, 0>>
          BY <4>2 DEF PairRefused
        <5>4. ASSUME Fits(x, IntLimit), Fits(y, IntLimit) PROVE out.nums = <<x, y>>
          <6>1. Fits(x, LongLimit) /\ Fits(y, LongLimit)
            BY <5>4, LimitsAssumption DEF Fits
          <6>2. Narrow(x, IntLimit) = x /\ Narrow(y, IntLimit) = y
            BY <5>4, LimitsAre, NarrowIs
          <6> QED BY <4>2, <6>1, <6>2
        <5> HIDE DEF fit
        <5> QED BY <5>1, <5>2, <5>3, <5>4
      <4> QED BY <3>4, <4>1, <4>2 DEF PairIs
    <3> QED BY <2>1, <3>2, <3>3, <3>4 DEF PairsAgree
  <2>2. CASE call.name # "pair"
    BY <2>2 DEF PairsAgree
  <2> QED BY <2>1, <2>2 DEF Numbered, NumberNames
<1> QED BY <1>1, NumberedAlways, PTL

-----------------------------------------------------------------------------
(* What an environment variable holds. *)

(* Sequences of small letters and digits. *)
Word(u) == u \in Seq(Int) /\ \A i \in 1 .. Len(u) : u[i] \in 97 .. 122 \cup 48 .. 57

LEMMA WordsAre == \A u \in Truthy \cup Falsy : Word(u)
<1> DEFINE a == <<49>>
           b == <<116, 114, 117, 101>>
           c == <<111, 110>>
           d == <<121>>
           e == <<121, 101, 115>>
           f == <<48>>
           g == <<102, 97, 108, 115, 101>>
           h == <<111, 102, 102>>
           k == <<110>>
           l == <<110, 111>>
<1>1. Word(a) /\ Word(d) /\ Word(f) /\ Word(k)
  BY DEF Word
<1>2. Word(b)
  BY DEF Word
<1>3. Word(c) /\ Word(l)
  BY DEF Word
<1>4. Word(e) /\ Word(h)
  BY DEF Word
<1>5. Word(g)
  BY DEF Word
<1>6. Truthy = {a, b, c, d, e} /\ Falsy = {f, g, h, k, l}
  BY DEF Truthy, Falsy
<1> HIDE DEF a, b, c, d, e, f, g, h, k, l
<1> QED BY <1>1, <1>2, <1>3, <1>4, <1>5, <1>6

(* Small letters are compared with a text in letters of either case. *)
LEMMA LowerIs ==
  ASSUME NEW s \in Seq(Int), NEW W, \A u \in W : Word(u)
  PROVE  ToLower(s) \in W <=> IsOneOf(s, W)
<1> DEFINE low(c) == IF c \in 65 .. 90 THEN c + 32 ELSE c
           same(c, x) == c = x \/ (x \in 97 .. 122 /\ c = x - 32)
           t == ToLower(s)
           n == Len(s)
<1>1. n \in Nat /\ DOMAIN s = 1 .. n /\ \A i \in 1 .. n : s[i] \in Int
  BY LenProperties, ElementOfSeq
<1>2. t = [i \in 1 .. n |-> low(s[i])]
  BY <1>1 DEF ToLower
<1>3. t \in Seq(Int) /\ Len(t) = n /\ \A i \in 1 .. n : t[i] = low(s[i])
  <2>1. \A i \in 1 .. n : low(s[i]) \in Int
    BY <1>1
  <2> HIDE DEF t, n, low
  <2>2. t \in [1 .. n -> Int]
    BY <1>2, <2>1
  <2>3. t \in Seq(Int) /\ Len(t) = n
    BY <1>1, <2>2
  <2> QED BY <1>2, <2>3
<1>4. ASSUME NEW c \in Int, NEW x \in 97 .. 122 \cup 48 .. 57
      PROVE  low(c) = x <=> same(c, x)
  BY <1>4
<1> HIDE DEF t, low
<1>5. ASSUME NEW u \in W
      PROVE  t = u <=> Len(u) = n /\ \A i \in DOMAIN u : same(s[i], u[i])
  <2>1. u \in Seq(Int) /\ DOMAIN u = 1 .. Len(u) /\ \A i \in 1 .. Len(u) : u[i] \in 97 .. 122 \cup 48 .. 57
    BY LenProperties, <1>5 DEF Word
  <2> HIDE DEF n, same
  <2>2. ASSUME Len(u) = n, NEW i \in 1 .. n PROVE t[i] = u[i] <=> same(s[i], u[i])
    <3>1. s[i] \in Int /\ u[i] \in 97 .. 122 \cup 48 .. 57 /\ t[i] = low(s[i])
      BY <1>1, <1>3, <2>1, <2>2
    <3> QED BY <1>4, <3>1
  <2>3. ASSUME Len(u) = n, \A i \in 1 .. n : t[i] = u[i] PROVE t = u
    BY <1>3, <2>1, <2>3, SeqEqual
  <2> QED BY <1>3, <2>1, <2>2, <2>3
<1>6. IsOneOf(s, W) <=> \E u \in W : Len(u) = n /\ \A i \in DOMAIN u : same(s[i], u[i])
  BY DEF IsOneOf
<1> HIDE DEF same, n
<1>7. IsOneOf(s, W) <=> \E u \in W : t = u
  BY <1>5, <1>6
<1> QED BY <1>7 DEF t

(* The numbers of the width of long a value stands for. *)
LongNumbers(value) == {n \in Reference!Numbers(value) : Fits(n, LongLimit)}

LEMMA NumberOrIs ==
  ASSUME NEW value \in Seq(Int), \A i \in 1 .. Len(value) : value[i] # Nul, NEW limit
  PROVE  NumberOr(value, Convert(value, TRUE, TRUE, limit), Default) \in
           IF LongNumbers(value) = {} THEN {Default}
           ELSE {Narrow(n, limit) : n \in LongNumbers(value)}
<1> DEFINE N == Reference!Numbers(value)
           r == Convert(value, TRUE, TRUE, limit)
           o == NumberOr(value, r, Default)
<1>1. Invalid \notin Seq(Int) /\ Valid(value)
  BY SlicesAssumption DEF Valid
<1>2. /\ \A x \in N : r = IF Fits(x, LongLimit) THEN Parsed(Narrow(x, limit)) ELSE Failed("ERANGE")
      /\ N = {} => r.err # "ok" /\ r.num = 0
  BY <1>1, ConvertMeans DEF Means
<1>3. o = IF r.err = "ok" THEN r.num ELSE Default
  BY <1>1 DEF NumberOr
<1>4. \A x : Parsed(x).err = "ok" /\ Parsed(x).num = x
  BY DEF Parsed
<1>5. Failed("ERANGE").err # "ok"
  BY DEF Failed
<1>6. \A x \in N : N = {x}
  BY <1>1, NumbersOne
<1> HIDE DEF r, o, N
<1>7. CASE N = {}
  BY <1>2, <1>3, <1>7 DEF LongNumbers, o, N, r
<1>8. ASSUME NEW x \in N PROVE o \in IF LongNumbers(value) = {} THEN {Default}
                                     ELSE {Narrow(n, limit) : n \in LongNumbers(value)}
  <2>1. LongNumbers(value) = IF Fits(x, LongLimit) THEN {x} ELSE {}
    BY <1>6, <1>8 DEF LongNumbers, N
  <2>2. o = IF Fits(x, LongLimit) THEN Narrow(x, limit) ELSE Default
    BY <1>2, <1>3, <1>4, <1>5, <1>8
  <2> QED BY <2>1, <2>2
<1> QED BY <1>7, <1>8 DEF o, r

(* The value that was set first is the one that is read, as the texts of    *)
(* truth values and numbers are read, however long it is and whatever the   *)
(* widths of the integers; the default stands for everything else, and only *)
(* what is no truth value is reported as an error (env_var.h:10-74).        *)
THEOREM EnvironmentRead == Spec => []EnvironmentAnswers
<1>1. Numbered => EnvironmentAnswers
  <2>1. CASE call.name = "get" /\ Getting
    <3>1. PICK value \in EnvTexts \cup {Invalid}, default \in BOOLEAN :
            /\ call.args = <<value, default>>
            /\ out = [string |-> GetString(value, <<>>),
                      bool |-> GetBool(value, default, Unreported),
                      int |-> GetInt32(value, Default), int64 |-> GetInt64(value, Default)]
      BY <2>1 DEF Getting
    <3>2. Text = value /\ call.args[2] = default
      BY <3>1 DEF Text
    <3>3. /\ out.string = GetString(value, <<>>) /\ out.bool = GetBool(value, default, Unreported)
          /\ out.int = GetInt32(value, Default) /\ out.int64 = GetInt64(value, Default)
      BY <3>1
    <3>4. CASE ~Valid(value)
      <4>1. /\ out.string = <<>> /\ out.bool = [is |-> default, error |-> Unreported]
            /\ out.int = Default /\ out.int64 = Default
        BY <3>3, <3>4 DEF GetString, GetBool, GetInt32, GetInt64, NumberOr
      <4> QED BY <2>1, <3>2, <3>4, <4>1 DEF EnvironmentAnswers
    <3>5. CASE Valid(value)
      <4> DEFINE word == Reference!Core(value)
      <4>1. /\ value \in Seq(Int) /\ Invalid \notin Seq(Int)
            /\ \A i \in 1 .. Len(value) : value[i] # Nul
        BY <3>1, <3>5, TextsAssumption, SlicesAssumption, LenProperties DEF Valid
      <4>2. Trim(value) = word
        BY <4>1, TrimIsCore
      <4>3. word \in Seq(Int)
        <5>1. PICK f, l : Window(value, f, l) /\ Trim(value) = SubSeq(value, f + 1, l)
          BY <4>1, TrimIs
        <5> DEFINE m == f + 1
        <5>2. m \in Nat \ {0} /\ l \in 0 .. Len(value) /\ m <= l + 1
          BY <4>1, <5>1, LenProperties DEF Window
        <5>3. Trim(value) = SubSeq(value, m, l)
          BY <5>1
        <5> HIDE DEF m
        <5>4. SubSeq(value, m, l) \in Seq(Int)
          BY <4>1, <5>2, SliceIs
        <5> QED BY <4>2, <5>3, <5>4
      <4> HIDE DEF word
      <4>4. /\ ToLower(word) \in Truthy <=> IsOneOf(word, Truthy)
            /\ ToLower(word) \in Falsy <=> IsOneOf(word, Falsy)
        <5>1. (\A u \in Truthy : Word(u)) /\ (\A u \in Falsy : Word(u))
          BY WordsAre
        <5> QED BY <4>3, <5>1, LowerIs
      <4>5. IsOneOf(word, Truthy \cup Falsy) <=> IsOneOf(word, Truthy) \/ IsOneOf(word, Falsy)
        BY DEF IsOneOf
      <4>6. GetBool(value, default, Unreported) =
              IF IsOneOf(word, Truthy) THEN [is |-> TRUE, error |-> Unreported]
              ELSE IF IsOneOf(word, Falsy) THEN [is |-> FALSE, error |-> Unreported]
              ELSE [is |-> default, error |-> value]
        BY <3>5, <4>2, <4>4 DEF GetBool
      <4>7. /\ out.bool.is = IF IsOneOf(word, Truthy) THEN TRUE
                             ELSE IF IsOneOf(word, Falsy) THEN FALSE ELSE default
            /\ out.bool.error = IF ~IsOneOf(word, Truthy \cup Falsy) THEN value ELSE Unreported
        BY <3>3, <4>5, <4>6
      <4>8. out.string = value
        BY <3>3, <3>5 DEF GetString
      <4>9. out.int \in IF LongNumbers(value) = {} THEN {Default}
                        ELSE {Narrow(n, IntLimit) : n \in LongNumbers(value)}
        BY <3>3, <4>1, NumberOrIs DEF GetInt32, StrToInt
      <4>10. out.int64 \in IF LongNumbers(value) = {} THEN {Default} ELSE LongNumbers(value)
        <5>1. out.int64 \in IF LongNumbers(value) = {} THEN {Default}
                            ELSE {Narrow(n, LongLimit) : n \in LongNumbers(value)}
          BY <3>3, <4>1, NumberOrIs DEF GetInt64, StrToInt64
        <5>2. ASSUME NEW n \in LongNumbers(value) PROVE Narrow(n, LongLimit) = n
          <6>1. n \in Int /\ Fits(n, LongLimit)
            BY <4>1, <5>2, NumbersOne DEF LongNumbers
          <6> QED BY <6>1, LimitsAre, NarrowIs
        <5> QED BY <5>1, <5>2
      <4> QED BY <2>1, <3>2, <3>5, <4>7, <4>8, <4>9, <4>10
           DEF EnvironmentAnswers, LongNumbers, word
    <3> QED BY <3>4, <3>5
  <2>2. CASE call.name # "get"
    BY <2>2 DEF EnvironmentAnswers
  <2> QED BY <2>1, <2>2 DEF Numbered, NumberNames
<1> QED BY <1>1, NumberedAlways, PTL

-----------------------------------------------------------------------------
(* Numbers written with all their digits. *)

LEMMA DigitOf ==
  /\ DOMAIN Digit = 48 .. 57 /\ Minus = 45
  /\ \A d \in 0 .. 9 : Zero + d \in 48 .. 57 /\ Digit[Zero + d] = d
<1>1. Digit = [c \in 48 .. 57 |-> c - 48] /\ Minus = 45
  BY AsciiAssumption DEF Hyphen
<1>2. DOMAIN Digit = 48 .. 57
  BY <1>1
<1>3. ASSUME NEW d \in 0 .. 9 PROVE Zero + d \in 48 .. 57 /\ Digit[Zero + d] = d
  <2> DEFINE c == 48 + d
  <2>1. c \in 48 .. 57 /\ c - 48 = d
    OBVIOUS
  <2> HIDE DEF c
  <2>2. Digit[c] = d
    BY <1>1, <2>1
  <2> QED BY <2>1, <2>2 DEF c, Zero
<1> QED BY <1>1, <1>2, <1>3

(* One more digit of a remainder. *)
LEMMA RemainderStep ==
  ASSUME NEW n \in Nat, NEW p \in Nat \ {0}
  PROVE  n % (10 * p) = ((n \div p) % 10) * p + (n % p)
<1> DEFINE q == n \div p
           r == n % p
           a == q \div 10
           d == q % 10
           t == 10 * p
           A == n \div t
           R == n % t
           ap == a * p
           dp == d * p
<1>1. q \in Int /\ r \in 0 .. p - 1 /\ n = q * p + r
  BY DivisionLaw
<1>2. a \in Int /\ d \in 0 .. 9 /\ q = 10 * a + d
  <2> HIDE DEF q
  <2> QED BY <1>1
<1>3. t \in Nat \ {0} /\ t = 10 * p
  OBVIOUS
<1> HIDE DEF t
<1>4. A \in Int /\ R \in 0 .. t - 1 /\ n = A * t + R
  <2>1. n \in Int /\ t \in Nat \ {0}
    BY <1>3
  <2> QED BY ONLY <2>1, DivisionLaw
<1> HIDE DEF q, r, a, d, A, R
<1>5. /\ ap \in Int /\ dp \in Int /\ 0 <= dp /\ dp <= 9 * p
      /\ n = 10 * ap + dp + r /\ a * t = 10 * ap
  <2>1. ap \in Int /\ dp \in Int
    BY <1>2
  <2>2. 0 <= dp /\ dp <= 9 * p
    BY <1>2
  <2>3. q * p = 10 * ap + dp
    BY <1>2
  <2>4. a * t = 10 * ap
    BY <1>2, <1>3
  <2> QED BY <1>1, <2>1, <2>2, <2>3, <2>4
<1> HIDE DEF ap, dp
<1>6. a * t + (dp + r) = A * t + R /\ 0 <= dp + r /\ dp + r < t /\ dp + r \in Int
  BY <1>1, <1>3, <1>4, <1>5
<1>7. a = A
  BY <1>2, <1>3, <1>4, <1>6, QuotientUnique
<1>8. A * t = 10 * ap
  BY <1>5, <1>7
<1>9. R = dp + r
  BY <1>1, <1>4, <1>5, <1>8
<1>10. n % t = d * p + r
  BY <1>9 DEF R, dp
<1> QED BY ONLY <1>10 DEF t, d, q, r

LEMMA DigitsSum ==
  ASSUME NEW n \in Nat, NEW k \in Nat
  PROVE  SumFunctionOnSet([i \in 1 .. k |-> ((n \div Ten[k - i]) % 10) * Ten[k - i]], 1 .. k)
           = n % Ten[k]
<1> DEFINE digit(j) == ((n \div Ten[j]) % 10) * Ten[j]
           f(m) == [i \in 1 .. m |-> digit(m - i)]
           G == {m \in Nat : SumFunctionOnSet(f(m), 1 .. m) = n % Ten[m]}
<1>1. ASSUME NEW j \in Nat
      PROVE  Ten[j] \in Nat \ {0} /\ Ten[j + 1] = 10 * Ten[j] /\ digit(j) \in Int
  <2>1. Ten[j] \in Nat \ {0} /\ Ten[j + 1] = 10 * Ten[j]
    BY TenIs
  <2> DEFINE p == Ten[j]
  <2>2. (n \div p) % 10 \in Int
    <3> HIDE DEF p
    <3> QED BY <2>1 DEF p
  <2> QED BY <2>1, <2>2
<1>2. 0 \in G
  <2>1. 1 .. 0 = {}
    OBVIOUS
  <2>2. Ten[0] = 1
    BY TenIs
  <2>3. n % Ten[0] = 0
    BY <2>2
  <2> QED BY <2>1, <2>3, SumEmpty
<1>3. ASSUME NEW m \in Nat, m \in G PROVE m + 1 \in G
  <2> DEFINE g == f(m + 1)
             h == f(m)
             z == digit(m)
  <2>1. \A i \in 1 .. m : h[i] = digit(m - i) /\ g[i + 1] = h[i]
    <3>1. ASSUME NEW i \in 1 .. m
          PROVE  /\ i \in 1 .. m /\ i + 1 \in 1 .. m + 1
                 /\ (m + 1) - (i + 1) = m - i
      OBVIOUS
    <3> HIDE DEF digit
    <3> QED BY <3>1
  <2>2. g[1] = z
    <3>1. 1 \in 1 .. m + 1 /\ (m + 1) - 1 = m
      OBVIOUS
    <3> HIDE DEF digit
    <3>2. g[1] = digit((m + 1) - 1)
      BY <3>1
    <3> QED BY <3>1, <3>2
  <2>3. \A i \in 1 .. m + 1 : g[i] \in Int
    <3>1. ASSUME NEW i \in 1 .. m + 1 PROVE (m + 1) - i \in Nat
      OBVIOUS
    <3> HIDE DEF digit
    <3> QED BY <1>1, <3>1
  <2>4. n % Ten[m + 1] = z + (n % Ten[m])
    <3>1. Ten[m] \in Nat \ {0} /\ Ten[m + 1] = 10 * Ten[m]
      BY TenIs
    <3> QED BY <3>1, RemainderStep
  <2>5. SumFunctionOnSet(h, 1 .. m) = n % Ten[m]
    BY <1>3
  <2> DEFINE w == n % Ten[m]
             v == n % Ten[m + 1]
  <2>6. w \in Int /\ z \in Int
    <3> DEFINE p == Ten[m]
    <3>1. p \in Nat \ {0}
      BY <1>1
    <3> HIDE DEF p
    <3>2. n % p \in Int
      BY <3>1
    <3> QED BY <1>1, <3>2 DEF p
  <2> HIDE DEF z, g, h
  <2>9. v = z + w /\ SumFunctionOnSet(h, 1 .. m) = w
    BY <2>4, <2>5 DEF w, v
  <2> HIDE DEF w, v
  <2>7. SumFunctionOnSet(g, 1 .. m + 1) = SumFunctionOnSet(h, 1 .. m) + g[1]
    BY <2>1, <2>3, SumTail
  <2>8. SumFunctionOnSet(g, 1 .. m + 1) = v
    BY <2>2, <2>6, <2>7, <2>9
  <2> QED BY <2>8 DEF g, v
<1> HIDE DEF G
<1>4. k \in G
  BY <1>2, <1>3, NatInd
<1> QED BY <1>4 DEF G

(* The lowest digits of a number. *)
LEMMA LowDigitsAre ==
  ASSUME NEW n \in Nat, NEW k \in Nat
  PROVE  /\ LowDigits(n, k) \in Seq(48 .. 57) /\ Len(LowDigits(n, k)) = k
         /\ \A i \in 1 .. k : LowDigits(n, k)[i] = Zero + ((n \div Ten[k - i]) % 10)
         /\ Horner(LowDigits(n, k)) = n % Ten[k]
<1> DEFINE d == LowDigits(n, k)
           C == 48 .. 57
           v(i) == (n \div Ten[k - i]) % 10
           e == [i \in 1 .. k |-> v(i) * Ten[k - i]]
<1>1. ASSUME NEW i \in 1 .. k PROVE v(i) \in 0 .. 9
  <2>1. k - i \in Nat
    OBVIOUS
  <2> DEFINE p == Ten[k - i]
  <2>2. p \in Nat \ {0}
    BY <2>1, TenIs
  <2> HIDE DEF p
  <2> DEFINE q == n \div p
  <2>3. q \in Int
    BY <2>2
  <2> HIDE DEF q
  <2>4. q % 10 \in 0 .. 9
    BY <2>3
  <2> QED BY <2>4 DEF p, q
<1>2. d = [i \in 1 .. k |-> Zero + v(i)]
  BY DEF LowDigits
<1> HIDE DEF d, v
<1>3. \A i \in 1 .. k : d[i] = Zero + v(i) /\ d[i] \in C /\ Digit[d[i]] = v(i)
  BY <1>1, <1>2, DigitOf
<1>4. d \in [1 .. k -> C]
  BY <1>2, <1>3
<1> HIDE DEF C
<1>5. d \in Seq(C) /\ Len(d) = k /\ DOMAIN d = 1 .. k
  BY <1>4, SeqDef, LenProperties
<1>6. PlaceValues(d) = e
  BY <1>3, <1>5 DEF PlaceValues
<1>7. SumFunctionOnSet(e, 1 .. k) = n % Ten[k]
  BY DigitsSum DEF v
<1>8. DOMAIN Digit = C
  BY DigitOf DEF C
<1> HIDE DEF e
<1>9. Horner(d) = n % Ten[k]
  BY <1>5, <1>6, <1>7, <1>8, HornerIs
<1> QED BY <1>3, <1>5, <1>9 DEF d, C, v

(* A number has as many digits as it needs. *)
LEMMA DigitsOfIs ==
  ASSUME NEW n \in Nat
  PROVE  /\ DigitsOf(n) \in Nat \ {0} /\ n < Ten[DigitsOf(n)]
         /\ DigitsOf(n) > 1 => Ten[DigitsOf(n) - 1] <= n
<1> DEFINE G == {m \in Nat : m < Ten[m]}
           D == {k \in 1 .. n + 1 : n < Ten[k]}
           x == Min(D)
           one == 1
<1>1. /\ \A m \in Nat : Ten[m] \in Nat \ {0}
      /\ Ten[0] = 1 /\ \A m \in Nat : Ten[m + 1] = 10 * Ten[m]
  BY TenIs
<1>2. 0 \in G
  BY <1>1
<1>3. ASSUME NEW m \in Nat, m \in G PROVE m + 1 \in G
  BY <1>1, <1>3
<1>4. n \in G
  <2> HIDE DEF G
  <2> QED BY <1>2, <1>3, NatInd
<1>5. n + 1 \in D
  <2>1. n + 1 \in 1 .. n + 1
    OBVIOUS
  <2>2. n < Ten[n + 1]
    BY <1>1, <1>4
  <2> QED BY <2>1, <2>2
<1>6. D \in SUBSET Int /\ D # {} /\ one \in Int /\ \A k \in D : one <= k
  BY <1>5
<1>7. x \in D /\ \A k \in D : x <= k
  <2> HIDE DEF D, one
  <2> QED BY <1>6, MinOf
<1> HIDE DEF x
<1>8. x \in 1 .. n + 1 /\ n < Ten[x]
  BY <1>7
<1>9. x > 1 => Ten[x - 1] <= n
  <2> SUFFICES ASSUME x > 1, ~(Ten[x - 1] <= n) PROVE FALSE
    OBVIOUS
  <2>1. x - 1 \in 1 .. n + 1 /\ x - 1 \in Nat
    BY <1>8
  <2>2. n < Ten[x - 1]
    BY <1>1, <2>1
  <2>3. x - 1 \in D
    BY <2>1, <2>2
  <2> QED BY <1>7, <1>8, <2>3
<1>10. \E k \in 1 .. n + 1 : n < Ten[k] /\ (k > 1 => Ten[k - 1] <= n)
  BY <1>8, <1>9
<1> DEFINE k == DigitsOf(n)
<1>11. k \in 1 .. n + 1 /\ n < Ten[k] /\ (k > 1 => Ten[k - 1] <= n)
  BY <1>10 DEF DigitsOf
<1> HIDE DEF k
<1>12. k \in Nat \ {0}
  BY <1>11
<1> QED BY <1>11, <1>12 DEF k

(* A text that is a number to its end, after b blanks and g signs. *)
LEMMA NumberReads ==
  ASSUME NEW s \in Seq(Int), NEW b, NEW g, NumberAt(s, b, g, Len(s))
  PROVE  Reference!Numbers(s) = {AmountAt(s, b, g, Len(s))}
<1> DEFINE x == AmountAt(s, b, g, Len(s))
           n == Len(s)
<1>1. Invalid \notin Seq(Int)
  BY SlicesAssumption
<1>2. \A i \in n + 1 .. Len(s) : s[i] \in Spaces
  BY LenProperties
<1>3. NumberAt(s, b, g, n) /\ x = AmountAt(s, b, g, n)
  OBVIOUS
<1> HIDE DEF x, n
<1>4. x \in Reference!Numbers(s)
  BY <1>1, <1>2, <1>3, NumbersAre
<1>5. Reference!Numbers(s) = {x}
  BY <1>1, <1>4, NumbersOne
<1> QED BY <1>5 DEF x

LEMMA DigitsRead ==
  ASSUME NEW s \in Seq(48 .. 57), NEW n \in Nat \ {0}, Len(s) = n
  PROVE  Reference!Numbers(s) = {Horner(s)}
<1> DEFINE z == 0
<1>1. s \in Seq(Int) /\ \A i \in 1 .. n : s[i] \in 48 .. 57
  <2>1. \A i \in 1 .. n : s[i] \in 48 .. 57
    BY ElementOfSeq
  <2> DEFINE C == 48 .. 57
  <2>2. s \in Seq(C) /\ C \subseteq Int
    OBVIOUS
  <2> HIDE DEF C
  <2>3. s \in Seq(Int)
    BY <2>2, SeqMonotonic
  <2> QED BY <2>1, <2>3
<1>2. NumberAt(s, z, z, n)
  BY <1>1, DigitOf DEF NumberAt
<1>3. AmountAt(s, z, z, n) = Horner(s)
  <2>1. SubSeq(s, z + z + 1, n) = s
    <3>1. SubSeq(s, 1, Len(s)) = s
      BY SubSeqFull
    <3> QED BY <3>1
  <2>2. s[z + 1] # Minus
    <3>1. z + 1 = 1 /\ 1 \in 1 .. n
      OBVIOUS
    <3>2. s[1] \in 48 .. 57 /\ Minus = 45
      BY <1>1, <3>1, DigitOf
    <3> QED BY <3>1, <3>2
  <2> QED BY <2>1, <2>2 DEF AmountAt
<1> HIDE DEF z
<1> QED BY <1>1, <1>2, <1>3, NumberReads

-----------------------------------------------------------------------------
(* Times. *)

(* From i to l, the text shows the last k digits of v.                      *)
ShowsAt(s, i, l, v, k) ==
  /\ s \in Seq(Int) /\ v \in Nat /\ k \in Nat \ {0}
  /\ i \in Nat \ {0} /\ l = i + k - 1 /\ l <= Len(s)
  /\ \A j \in 1 .. k : s[i + j - 1] = LowDigits(v, k)[j]

LEMMA ShownReads ==
  ASSUME NEW s, NEW i, NEW l, NEW v, NEW k, ShowsAt(s, i, l, v, k)
  PROVE  Reference!Numbers(SubSeq(s, i, l)) = {v % Ten[k]}
<1> DEFINE w == SubSeq(s, i, l)
           d == LowDigits(v, k)
<1>0. s \in Seq(Int) /\ v \in Nat /\ k \in Nat \ {0}
  BY DEF ShowsAt
<1>1. i \in Nat \ {0} /\ l \in 0 .. Len(s) /\ i <= l + 1 /\ l - i + 1 = k
  <2>1. /\ i \in Nat \ {0} /\ k \in Nat \ {0} /\ l = i + k - 1 /\ l <= Len(s)
    BY DEF ShowsAt
  <2>2. Len(s) \in Nat
    BY <1>0, LenProperties
  <2> QED BY ONLY <2>1, <2>2
<1>2. /\ w \in Seq(Int) /\ Len(w) = l - i + 1
      /\ \A j \in 1 .. l - i + 1 : w[j] = s[i + j - 1]
  BY <1>0, <1>1, SliceIs
<1>3. /\ d \in Seq(48 .. 57) /\ Len(d) = k /\ Horner(d) = v % Ten[k]
  BY <1>0, LowDigitsAre
<1>4. \A j \in 1 .. k : s[i + j - 1] = d[j]
  BY DEF ShowsAt
<1> HIDE DEF w, d
<1>5. Len(w) = Len(d) /\ \A j \in 1 .. Len(w) : w[j] = d[j]
  BY <1>1, <1>2, <1>3, <1>4
<1>6. d \in Seq(Int)
  <2> DEFINE C == 48 .. 57
  <2>1. d \in Seq(C) /\ C \subseteq Int
    BY <1>3
  <2> HIDE DEF C
  <2> QED BY <2>1, SeqMonotonic
<1>7. w = d
  BY <1>2, <1>5, <1>6, SeqEqual
<1>8. Reference!Numbers(d) = {Horner(d)}
  BY <1>0, <1>3, DigitsRead
<1> QED BY <1>3, <1>7, <1>8 DEF w

LEMMA TenSmall ==
  Ten[0] = 1 /\ Ten[1] = 10 /\ Ten[2] = 100 /\ Ten[3] = 1000 /\ Ten[4] = 10000
<1>1. Ten[0] = 1 /\ \A n \in Nat : Ten[n + 1] = 10 * Ten[n]
  BY TenIs
<1>2. Ten[0 + 1] = 10 * Ten[0] /\ Ten[1 + 1] = 10 * Ten[1]
  BY <1>1
<1>3. Ten[2 + 1] = 10 * Ten[2] /\ Ten[3 + 1] = 10 * Ten[3]
  BY <1>1
<1> QED BY <1>1, <1>2, <1>3

LEMMA TwoDigits ==
  ASSUME NEW v \in Nat
  PROVE  /\ LowDigits(v, 2)[1] = 48 + ((v \div 10) % 10)
         /\ LowDigits(v, 2)[2] = 48 + (v % 10)
         /\ LowDigits(v, 2) \in Seq(Int) /\ Len(LowDigits(v, 2)) = 2
         /\ LowDigits(v, 2)[1] \in Int /\ LowDigits(v, 2)[2] \in Int
<1> DEFINE k == 2
           d == LowDigits(v, k)
<1>1. k \in Nat
  OBVIOUS
<1>2. /\ d \in Seq(48 .. 57) /\ Len(d) = k
      /\ \A i \in 1 .. k : d[i] = Zero + ((v \div Ten[k - i]) % 10)
  <2> HIDE DEF k
  <2> QED BY <1>1, LowDigitsAre
<1>3. d \in Seq(Int)
  <2> DEFINE C == 48 .. 57
  <2> HIDE DEF d
  <2>1. d \in Seq(C) /\ C \subseteq Int
    BY <1>2
  <2> HIDE DEF C
  <2> QED BY <2>1, SeqMonotonic
<1> HIDE DEF d
<1>4. d[1] = Zero + ((v \div Ten[2 - 1]) % 10) /\ d[2] = Zero + ((v \div Ten[2 - 2]) % 10)
  BY <1>2
<1>5. d[1] = 48 + ((v \div 10) % 10) /\ d[2] = 48 + ((v \div 1) % 10)
  BY <1>4, TenSmall DEF Zero
<1>6. v \div 1 = v
  OBVIOUS
<1>7. d[1] \in Int /\ d[2] \in Int
  <2>1. \A i \in 1 .. Len(d) : d[i] \in Int
    BY <1>3, ElementOfSeq
  <2> QED BY <1>2, <2>1
<1> QED BY <1>2, <1>3, <1>5, <1>6, <1>7 DEF d

(* The multiplication gives the tens of numbers below a hundred.            *)
LEMMA TensAre ==
  ASSUME NEW a \in 0 .. 99, NEW b \in 0 .. 99, NEW c \in 0 .. 99
  PROVE  LET t == Tens(<<a, b, c>>)
         IN  t[1] = a \div 10 /\ t[2] = b \div 10 /\ t[3] = c \div 10
<1> DEFINE w == <<a, b, c>>
           p == Times(w, 205)
<1>1. ASSUME NEW v \in 0 .. 99
      PROVE  /\ ((205 * v) \div 2048) % 16 = v \div 10
             /\ (205 * v) \div 16777216 = 0
             /\ (205 * v) % 16777216 = 205 * v /\ (205 * v) % 65536 = 205 * v
  OBVIOUS
<1>2. w[1] = a /\ w[2] = b /\ w[3] = c
  OBVIOUS
<1> HIDE DEF w
<1>3. p = <<205 * a, 205 * b, 205 * c>>
  <2> DEFINE low == 205 * w[1]
             mid == 205 * w[2] + low \div Bits24
  <2>1. p = <<low % Bits24, mid % Bits24, (205 * w[3] + mid \div Bits24) % Bits16>>
    BY DEF Times
  <2>2. low = 205 * a /\ low \div Bits24 = 0 /\ low % Bits24 = 205 * a
    BY <1>1, <1>2 DEF Bits24
  <2>3. mid = 205 * b /\ mid \div Bits24 = 0 /\ mid % Bits24 = 205 * b
    <3>1. mid = 205 * b
      BY <1>2, <2>2
    <3> QED BY <1>1, <3>1 DEF Bits24
  <2>4. (205 * w[3] + mid \div Bits24) % Bits16 = 205 * c
    <3>1. 205 * w[3] + mid \div Bits24 = 205 * c
      BY <1>2, <2>3
    <3> QED BY <1>1, <3>1 DEF Bits16
  <2> QED BY <2>1, <2>2, <2>3, <2>4
<1> HIDE DEF p
<1>4. p[1] = 205 * a /\ p[2] = 205 * b /\ p[3] = 205 * c
  BY <1>3
<1>5. Tens(w) = [i \in 1 .. 3 |-> (p[i] \div 2048) % 16]
  BY DEF Tens, p
<1>6. /\ Tens(w)[1] = (p[1] \div 2048) % 16
      /\ Tens(w)[2] = (p[2] \div 2048) % 16
      /\ Tens(w)[3] = (p[3] \div 2048) % 16
  BY <1>5
<1> QED BY <1>1, <1>4, <1>6 DEF w

(* Three texts of two characters, with a separator between them.            *)
Triple(s, x, y, z, sep) ==
  /\ x \in Seq(Int) /\ y \in Seq(Int) /\ z \in Seq(Int) /\ sep \in Int
  /\ Len(x) = 2 /\ Len(y) = 2 /\ Len(z) = 2
  /\ s = x \o <<sep>> \o y \o <<sep>> \o z

LEMMA FiveParts ==
  ASSUME NEW s, NEW x, NEW y, NEW z, NEW sep, Triple(s, x, y, z, sep)
  PROVE  /\ s \in Seq(Int) /\ Len(s) = 8
         /\ s[1] = x[1] /\ s[2] = x[2] /\ s[3] = sep /\ s[4] = y[1] /\ s[5] = y[2]
         /\ s[6] = sep /\ s[7] = z[1] /\ s[8] = z[2]
<1> USE DEF Triple
<1>0. ASSUME NEW c \in Seq(Int), NEW d \in Seq(Int), NEW e, e = c \o d
      PROVE  /\ e \in Seq(Int) /\ Len(e) = Len(c) + Len(d)
             /\ \A i \in 1 .. Len(c) + Len(d) : e[i] = IF i <= Len(c) THEN c[i] ELSE d[i - Len(c)]
  BY <1>0, ConcatProperties
<1>1. PICK q : q = <<sep>> /\ q \in Seq(Int) /\ Len(q) = 1 /\ q[1] = sep
  <2> DEFINE q == <<sep>>
  <2>1. q \in Seq(Int) /\ Len(q) = 1 /\ q[1] = sep
    OBVIOUS
  <2>2. q = <<sep>>
    OBVIOUS
  <2> HIDE DEF q
  <2> QED BY <2>1, <2>2
<1>2. PICK s1 : s1 = x \o q
  OBVIOUS
<1>3. PICK s2 : s2 = s1 \o y
  OBVIOUS
<1>4. PICK s3 : s3 = s2 \o q
  OBVIOUS
<1>5. s = s3 \o z
  BY <1>1, <1>2, <1>3, <1>4
<1>6. s1 \in Seq(Int) /\ Len(s1) = 3 /\ s1[1] = x[1] /\ s1[2] = x[2] /\ s1[3] = sep
  <2>1. /\ s1 \in Seq(Int) /\ Len(s1) = Len(x) + Len(q)
        /\ \A i \in 1 .. Len(x) + Len(q) : s1[i] = IF i <= Len(x) THEN x[i] ELSE q[i - Len(x)]
    <3>1. q \in Seq(Int)
      BY <1>1
    <3>2. x \in Seq(Int)
      OBVIOUS
    <3> QED BY ONLY <3>1, <3>2, <1>0, <1>2
  <2> QED BY <1>1, <2>1
<1>7. /\ s2 \in Seq(Int) /\ Len(s2) = 5
      /\ s2[1] = s1[1] /\ s2[2] = s1[2] /\ s2[3] = s1[3] /\ s2[4] = y[1] /\ s2[5] = y[2]
  <2>1. /\ s2 \in Seq(Int) /\ Len(s2) = Len(s1) + Len(y)
        /\ \A i \in 1 .. Len(s1) + Len(y) :
             s2[i] = IF i <= Len(s1) THEN s1[i] ELSE y[i - Len(s1)]
    BY <1>0, <1>3, <1>6
  <2> QED BY <1>6, <2>1
<1>8. /\ s3 \in Seq(Int) /\ Len(s3) = 6 /\ s3[6] = sep
      /\ s3[1] = s2[1] /\ s3[2] = s2[2] /\ s3[3] = s2[3] /\ s3[4] = s2[4] /\ s3[5] = s2[5]
  <2>1. /\ s3 \in Seq(Int) /\ Len(s3) = Len(s2) + Len(q)
        /\ \A i \in 1 .. Len(s2) + Len(q) :
             s3[i] = IF i <= Len(s2) THEN s2[i] ELSE q[i - Len(s2)]
    <3>1. q \in Seq(Int) /\ s2 \in Seq(Int)
      BY <1>1, <1>7
    <3> QED BY ONLY <3>1, <1>0, <1>4
  <2> QED BY <1>1, <1>7, <2>1
<1>9. /\ s \in Seq(Int) /\ Len(s) = 8 /\ s[7] = z[1] /\ s[8] = z[2]
      /\ s[1] = s3[1] /\ s[2] = s3[2] /\ s[3] = s3[3]
      /\ s[4] = s3[4] /\ s[5] = s3[5] /\ s[6] = s3[6]
  <2>1. /\ s \in Seq(Int) /\ Len(s) = Len(s3) + Len(z)
        /\ \A i \in 1 .. Len(s3) + Len(z) :
             s[i] = IF i <= Len(s3) THEN s3[i] ELSE z[i - Len(s3)]
    BY <1>0, <1>5, <1>8
  <2> QED BY <1>8, <2>1
<1> QED BY <1>6, <1>7, <1>8, <1>9

(* What Write3Digit2() writes.                                              *)
Fields(r, a, b, c, mark) ==
  /\ a \in 0 .. 99 /\ b \in 0 .. 99 /\ c \in 0 .. 99 /\ mark \in Int
  /\ r = Write3Digit2(a, b, c, mark)

LEMMA ThreeFields ==
  ASSUME NEW u, NEW a, NEW b, NEW c, NEW mark, Fields(u, a, b, c, mark)
  PROVE  /\ u \in Seq(Int) /\ Len(u) = 8 /\ u[3] = mark /\ u[6] = mark
         /\ u[1] = 48 + a \div 10 /\ u[2] = 48 + (a % 10)
         /\ u[4] = 48 + b \div 10 /\ u[5] = 48 + (b % 10)
         /\ u[7] = 48 + c \div 10 /\ u[8] = 48 + (c % 10)
<1> DEFINE w == <<a, b, c>>
           t == Tens(w)
           bcd == [i \in 1 .. 3 |-> w[i] + 6 * t[i]]
           two(i) == <<Zero + ((bcd[i] \div 16) % 16), Zero + (bcd[i] % 16)>>
           e1 == two(1)
           e2 == two(2)
           e3 == two(3)
<1>0. a \in 0 .. 99 /\ b \in 0 .. 99 /\ c \in 0 .. 99 /\ mark \in Int
  <2> HIDE DEF w, t, bcd, two, e1, e2, e3
  <2> QED BY DEF Fields
<1>1. t[1] = a \div 10 /\ t[2] = b \div 10 /\ t[3] = c \div 10
  BY <1>0, TensAre
<1>2. w[1] = a /\ w[2] = b /\ w[3] = c
  OBVIOUS
<1>3. Write3Digit2(a, b, c, mark) = e1 \o <<mark>> \o e2 \o <<mark>> \o e3
  BY DEF Write3Digit2
<1> HIDE DEF t, w
<1>4. /\ bcd[1] = a + 6 * (a \div 10) /\ bcd[2] = b + 6 * (b \div 10)
      /\ bcd[3] = c + 6 * (c \div 10)
  <2>1. bcd[1] = w[1] + 6 * t[1] /\ bcd[2] = w[2] + 6 * t[2] /\ bcd[3] = w[3] + 6 * t[3]
    OBVIOUS
  <2> QED BY <1>1, <1>2, <2>1
<1> HIDE DEF bcd
<1>5. ASSUME NEW v \in 0 .. 99, NEW e, e = v + 6 * (v \div 10)
      PROVE  /\ Zero + ((e \div 16) % 16) = 48 + v \div 10 /\ Zero + (e % 16) = 48 + (v % 10)
             /\ Zero + ((e \div 16) % 16) \in Int /\ Zero + (e % 16) \in Int
  BY <1>5 DEF Zero
<1>6. /\ e1 \in Seq(Int) /\ Len(e1) = 2 /\ e1[1] = 48 + a \div 10 /\ e1[2] = 48 + (a % 10)
  <2> DEFINE h == Zero + ((bcd[1] \div 16) % 16)
             l == Zero + (bcd[1] % 16)
  <2>1. h = 48 + a \div 10 /\ l = 48 + (a % 10) /\ h \in Int /\ l \in Int
    BY <1>0, <1>4, <1>5
  <2>2. e1 = <<h, l>>
    OBVIOUS
  <2> HIDE DEF h, l
  <2> QED BY <2>1, <2>2
<1>7. /\ e2 \in Seq(Int) /\ Len(e2) = 2 /\ e2[1] = 48 + b \div 10 /\ e2[2] = 48 + (b % 10)
  <2> DEFINE h == Zero + ((bcd[2] \div 16) % 16)
             l == Zero + (bcd[2] % 16)
  <2>1. h = 48 + b \div 10 /\ l = 48 + (b % 10) /\ h \in Int /\ l \in Int
    BY <1>0, <1>4, <1>5
  <2>2. e2 = <<h, l>>
    OBVIOUS
  <2> HIDE DEF h, l
  <2> QED BY <2>1, <2>2
<1>8. /\ e3 \in Seq(Int) /\ Len(e3) = 2 /\ e3[1] = 48 + c \div 10 /\ e3[2] = 48 + (c % 10)
  <2> DEFINE h == Zero + ((bcd[3] \div 16) % 16)
             l == Zero + (bcd[3] % 16)
  <2>1. h = 48 + c \div 10 /\ l = 48 + (c % 10) /\ h \in Int /\ l \in Int
    BY <1>0, <1>4, <1>5
  <2>2. e3 = <<h, l>>
    OBVIOUS
  <2> HIDE DEF h, l
  <2> QED BY <2>1, <2>2
<1> DEFINE r == e1 \o <<mark>> \o e2 \o <<mark>> \o e3
<1> HIDE DEF e1, e2, e3
<1>9. /\ r \in Seq(Int) /\ Len(r) = 8
      /\ r[1] = e1[1] /\ r[2] = e1[2] /\ r[3] = mark /\ r[4] = e2[1] /\ r[5] = e2[2]
      /\ r[6] = mark /\ r[7] = e3[1] /\ r[8] = e3[2]
  <2>1. Triple(r, e1, e2, e3, mark)
    BY <1>0, <1>6, <1>7, <1>8 DEF Triple
  <2> HIDE DEF r
  <2> QED BY <2>1, FiveParts
<1> HIDE DEF r
<1>10. u = r
  BY <1>3 DEF r, Fields
<1> QED BY <1>6, <1>7, <1>8, <1>9, <1>10

(* At f and t, which are neighbours, are the two digits of x.               *)
TwoAt(r, f, t, x) ==
  /\ r \in Seq(Int) /\ f \in Nat \ {0} /\ t = f + 1 /\ t <= Len(r) /\ x \in 0 .. 99
  /\ r[f] = 48 + x \div 10 /\ r[t] = 48 + (x % 10)

LEMMA PairShown ==
  ASSUME NEW r, NEW f, NEW t, NEW x, TwoAt(r, f, t, x)
  PROVE  Reference!Numbers(SubSeq(r, f, t)) = {x}
<1> DEFINE two == 2
           d == LowDigits(x, two)
<1>0. /\ r \in Seq(Int) /\ f \in Nat \ {0} /\ t = f + 1 /\ t <= Len(r) /\ x \in 0 .. 99
      /\ r[f] = 48 + x \div 10 /\ r[f + 1] = 48 + (x % 10)
  BY DEF TwoAt
<1>1. d[1] = 48 + ((x \div 10) % 10) /\ d[2] = 48 + (x % 10)
  <2>1. x \in Nat
    BY <1>0
  <2> QED BY ONLY <2>1, TwoDigits DEF d, two
<1>2. (x \div 10) % 10 = x \div 10 /\ x % 100 = x
  <2>1. x \in 0 .. 99
    BY <1>0
  <2> QED BY ONLY <2>1
<1>3. \A j \in 1 .. 2 : r[f + j - 1] = d[j]
  <2>1. f + 1 - 1 = f /\ f + 2 - 1 = f + 1
    BY <1>0
  <2> HIDE DEF d
  <2> QED BY <1>0, <1>1, <1>2, <2>1, SMTT(20)
<1>4. ShowsAt(r, f, t, x, two)
  BY <1>0, <1>3, LenProperties DEF ShowsAt
<1>5. Ten[two] = 100
  BY TenSmall
<1> HIDE DEF two, d
<1>6. Reference!Numbers(SubSeq(r, f, t)) = {x % Ten[two]}
  BY <1>4, ShownReads
<1> QED BY <1>2, <1>5, <1>6

(* What TimeToString() puts together.                                       *)
Stamp(s, x, y, z, sep) ==
  /\ x \in Seq(Int) /\ y \in Seq(Int) /\ z \in Seq(Int) /\ sep \in Int
  /\ Len(x) = 2 /\ Len(y) = 8 /\ Len(z) = 8
  /\ s = x \o y \o <<sep>> \o z

LEMMA StampParts ==
  ASSUME NEW s, NEW x, NEW y, NEW z, NEW sep, Stamp(s, x, y, z, sep)
  PROVE  /\ s \in Seq(Int) /\ Len(s) = 19 /\ s[1] = x[1] /\ s[2] = x[2] /\ s[11] = sep
         /\ \A i \in 1 .. 8 : s[i + 2] = y[i] /\ s[i + 11] = z[i]
<1>10. x \in Seq(Int) /\ y \in Seq(Int) /\ z \in Seq(Int) /\ sep \in Int
  BY DEF Stamp
<1>11. Len(x) = 2 /\ Len(y) = 8 /\ Len(z) = 8
  BY DEF Stamp
<1>12. s = x \o y \o <<sep>> \o z
  BY DEF Stamp
<1>0. ASSUME NEW c \in Seq(Int), NEW d \in Seq(Int), NEW e, e = c \o d
      PROVE  /\ e \in Seq(Int) /\ Len(e) = Len(c) + Len(d)
             /\ \A i \in 1 .. Len(c) + Len(d) : e[i] = IF i <= Len(c) THEN c[i] ELSE d[i - Len(c)]
  BY <1>0, ConcatProperties
<1>1. PICK q : q = <<sep>> /\ q \in Seq(Int) /\ Len(q) = 1 /\ q[1] = sep
  <2> DEFINE q == <<sep>>
  <2>1. q \in Seq(Int) /\ Len(q) = 1 /\ q[1] = sep
    BY <1>10
  <2>2. q = <<sep>>
    OBVIOUS
  <2> HIDE DEF q
  <2> QED BY <2>1, <2>2
<1>2. PICK s1 : s1 = x \o y
  OBVIOUS
<1>3. PICK s2 : s2 = s1 \o q
  OBVIOUS
<1>4. s = s2 \o z
  BY <1>1, <1>2, <1>3, <1>12
<1>5. /\ s1 \in Seq(Int) /\ Len(s1) = 10 /\ s1[1] = x[1] /\ s1[2] = x[2]
      /\ \A i \in 1 .. 8 : s1[i + 2] = y[i]
  <2>1. /\ s1 \in Seq(Int) /\ Len(s1) = Len(x) + Len(y)
        /\ \A i \in 1 .. Len(x) + Len(y) : s1[i] = IF i <= Len(x) THEN x[i] ELSE y[i - Len(x)]
    BY <1>0, <1>2, <1>10
  <2>2. ASSUME NEW i \in 1 .. 8 PROVE s1[i + 2] = y[i]
    <3> DEFINE j == i + 2
    <3>1. j \in 1 .. 10 /\ ~(j <= 2) /\ j - 2 = i
      OBVIOUS
    <3> HIDE DEF j
    <3>2. s1[j] = y[i]
      BY <1>11, <2>1, <3>1
    <3> QED BY <3>2 DEF j
  <2> QED BY <1>11, <2>1, <2>2
<1>6. /\ s2 \in Seq(Int) /\ Len(s2) = 11 /\ s2[11] = sep
      /\ \A i \in 1 .. 10 : s2[i] = s1[i]
  <2>1. /\ s2 \in Seq(Int) /\ Len(s2) = Len(s1) + Len(q)
        /\ \A i \in 1 .. Len(s1) + Len(q) :
             s2[i] = IF i <= Len(s1) THEN s1[i] ELSE q[i - Len(s1)]
    <3>1. q \in Seq(Int) /\ s1 \in Seq(Int)
      BY <1>1, <1>5
    <3> QED BY ONLY <3>1, <1>0, <1>3
  <2> QED BY <1>1, <1>5, <2>1
<1>7. /\ s \in Seq(Int) /\ Len(s) = 19
      /\ \A i \in 1 .. 11 : s[i] = s2[i]
      /\ \A i \in 1 .. 8 : s[i + 11] = z[i]
  <2>1. /\ s \in Seq(Int) /\ Len(s) = Len(s2) + Len(z)
        /\ \A i \in 1 .. Len(s2) + Len(z) :
             s[i] = IF i <= Len(s2) THEN s2[i] ELSE z[i - Len(s2)]
    <3>1. s2 \in Seq(Int) /\ z \in Seq(Int)
      BY <1>6, <1>10
    <3> QED BY ONLY <3>1, <1>0, <1>4
  <2>2. ASSUME NEW i \in 1 .. 8 PROVE s[i + 11] = z[i]
    <3> DEFINE j == i + 11
    <3>1. j \in 1 .. 19 /\ ~(j <= 11) /\ j - 11 = i
      OBVIOUS
    <3> HIDE DEF j
    <3>2. s[j] = z[i]
      BY <1>6, <1>11, <2>1, <3>1, SMTT(20)
    <3> QED BY <3>2 DEF j
  <2> QED BY <1>6, <1>11, <2>1, <2>2
<1>8. ASSUME NEW i \in 1 .. 8 PROVE s[i + 2] = y[i]
  <2> DEFINE j == i + 2
  <2>1. j \in 1 .. 10 /\ j \in 1 .. 11
    OBVIOUS
  <2> HIDE DEF j
  <2>2. s[j] = s1[j]
    BY <1>6, <1>7, <2>1
  <2> QED BY <1>5, <2>2 DEF j
<1>9. s[1] = x[1] /\ s[2] = x[2] /\ s[11] = sep
  BY <1>5, <1>6, <1>7, SMTT(20)
<1> QED BY <1>7, <1>8, <1>9

(* The last four digits of a year, written as two times two.                *)
LEMMA YearDigits ==
  ASSUME NEW y \in Nat, NEW v, v = y + 1900, NEW c, c = (y \div 100 + 19) % 100
  PROVE  /\ c \in 0 .. 99
         /\ (v \div 1000) % 10 = c \div 10 /\ (v \div 100) % 10 = c % 10
         /\ (v \div 10) % 10 = (y % 100) \div 10 /\ v % 10 = (y % 100) % 10
<1> DEFINE q == y \div 100
           r == y % 100
           g == q + 19
<1>1. q \in Nat /\ r \in 0 .. 99 /\ y = 100 * q + r
  OBVIOUS
<1> HIDE DEF q, r
<1>2. g \in Nat /\ v = 100 * g + r /\ c = g % 100
  BY <1>1 DEF q
<1> HIDE DEF g
<1>3. v \div 1000 = g \div 10 /\ v \div 100 = g /\ v \div 10 = 10 * g + r \div 10 /\ v % 10 = r % 10
  BY <1>1, <1>2
<1>4. c \in 0 .. 99 /\ (g \div 10) % 10 = c \div 10 /\ g % 10 = c % 10
  BY <1>2
<1>5. (10 * g + r \div 10) % 10 = r \div 10
  BY <1>1, <1>2
<1> QED BY <1>3, <1>4, <1>5 DEF r

-----------------------------------------------------------------------------
(* The calls that write texts. *)

FormatNames == {"bytes", "triple", "time", "list", "quote"}

(* A text is what a call made of its arguments. *)
Formatted ==
  /\ call.name = "bytes" => \E b \in Sizes :
       call.args = b /\ out = HumanReadableBytes(b[1], b[2])
  /\ call.name = "triple" => \E t \in Triples :
       call.args = t /\ out = WriteTripleDigit2(t[1], t[2], t[3], TimeColon)
  /\ call.name = "time" => \E t \in Dates : call.args = <<t>> /\ out = TimeToString(t)
  /\ call.name = "list" => \E xs \in Vectors :
       call.args = <<xs>> /\ out = VectorToString(xs, <<Comma, Blank>>, <<Open>>, <<Close>>)
  /\ call.name = "quote" => \E s \in Strings :
       call.args = <<s>> /\ out = ToDoubleQuotedString(s)

LEMMA FormattedInit == Init => Formatted
BY DEF Init, NoCall, Formatted

LEMMA FormattedNext == Formatted /\ [Next]_vars => Formatted'
<1> SUFFICES ASSUME Formatted, [Next]_vars
             PROVE  Formatted'
  OBVIOUS
<1>1. ASSUME call'.name \notin FormatNames PROVE Formatted'
  BY <1>1 DEF Formatted, FormatNames
<1>2. CASE FormatCall
  <2>1. CASE CallHumanReadableBytes
    BY <2>1 DEF CallHumanReadableBytes, Calls, Formatted
  <2>2. CASE CallWriteTripleDigit2
    BY <2>2 DEF CallWriteTripleDigit2, Calls, Formatted
  <2>3. CASE CallTimeToString
    BY <2>3 DEF CallTimeToString, Calls, Formatted
  <2>4. CASE CallVectorToString
    BY <2>4 DEF CallVectorToString, Calls, Formatted
  <2>5. CASE CallToDoubleQuotedString
    BY <2>5 DEF CallToDoubleQuotedString, Calls, Formatted
  <2> QED BY <1>2, <2>1, <2>2, <2>3, <2>4, <2>5 DEF FormatCall
<1>3. CASE CallSet \/ CallGet
  <2>1. call'.name \in {"set", "get"}
    BY <1>3 DEF CallSet, CallGet, Calls
  <2> QED BY <1>1, <2>1 DEF FormatNames
<1>4. CASE CallStrToInt \/ CallStrToIntPair
  <2>1. call'.name \in {"int", "int64", "pair"}
    BY <1>4 DEF CallStrToInt, CallStrToIntPair, Calls
  <2> QED BY <1>1, <2>1 DEF FormatNames
<1>5. CASE CallToHexString \/ CallDecodeHex
  <2>1. call'.name \in {"encode", "decode", "decode_encoded"}
    BY <1>5 DEF CallToHexString, CallDecodeHex, Calls
  <2> QED BY <1>1, <2>1 DEF FormatNames
<1>6. CASE SliceCall
  <2>1. call'.name \in SliceNames
    BY <1>6 DEF SliceCall, CallFind, CallFindChar, CallFindAny, CallCompare, CallStrip,
                CallCut, Calls, SliceNames
  <2> QED BY <1>1, <2>1 DEF FormatNames, SliceNames
<1>7. CASE UNCHANGED vars
  BY <1>7 DEF vars, Formatted
<1> QED BY <1>2, <1>3, <1>4, <1>5, <1>6, <1>7 DEF Next

LEMMA FormattedAlways == Spec => []Formatted
BY FormattedInit, FormattedNext, PTL DEF Spec

LEMMA TripleShown ==
  ASSUME NEW t \in Triples, NEW s, s = WriteTripleDigit2(t[1], t[2], t[3], TimeColon)
  PROVE  /\ \A i \in 1 .. 3 : Reference!Numbers(SubSeq(s, 3 * i - 2, 3 * i - 1)) = {t[i] % 100}
         /\ Len(s) = 8 /\ s[3] = TimeColon /\ s[6] = TimeColon
<1> DEFINE a == t[1] % 100
           b == t[2] % 100
           c == t[3] % 100
           w == Write3Digit2(a, b, c, TimeColon)
<1>1. a \in 0 .. 99 /\ b \in 0 .. 99 /\ c \in 0 .. 99
  <2>0. Triples \subseteq Nat \X Nat \X Nat
    BY FormatsAssumption
  <2>1. t \in Nat \X Nat \X Nat
    BY <2>0
  <2>2. t[1] \in Nat /\ t[2] \in Nat /\ t[3] \in Nat
    BY <2>1
  <2>3. ASSUME NEW n \in Nat PROVE n % 100 \in 0 .. 99
    OBVIOUS
  <2> QED BY <2>2, <2>3
<1>2. s = w
  BY DEF WriteTripleDigit2
<1> HIDE DEF a, b, c
<1>3. /\ w \in Seq(Int) /\ Len(w) = 8 /\ w[3] = TimeColon /\ w[6] = TimeColon
      /\ w[1] = 48 + a \div 10 /\ w[2] = 48 + (a % 10)
      /\ w[4] = 48 + b \div 10 /\ w[5] = 48 + (b % 10)
      /\ w[7] = 48 + c \div 10 /\ w[8] = 48 + (c % 10)
  <2>1. Fields(w, a, b, c, TimeColon)
    BY <1>1 DEF Fields, TimeColon
  <2> HIDE DEF w
  <2> QED BY <2>1, ThreeFields
<1> HIDE DEF w
<1>4. Reference!Numbers(SubSeq(w, 1, 2)) = {a}
  <2>1. TwoAt(w, 1, 2, a)
    BY <1>1, <1>3 DEF TwoAt
  <2> QED BY <2>1, PairShown
<1>5. Reference!Numbers(SubSeq(w, 4, 5)) = {b}
  <2>1. TwoAt(w, 4, 5, b)
    BY <1>1, <1>3 DEF TwoAt
  <2> QED BY <2>1, PairShown
<1>6. Reference!Numbers(SubSeq(w, 7, 8)) = {c}
  <2>1. TwoAt(w, 7, 8, c)
    BY <1>1, <1>3 DEF TwoAt
  <2> QED BY <2>1, PairShown
<1>7. ASSUME NEW i \in 1 .. 3
      PROVE  Reference!Numbers(SubSeq(w, 3 * i - 2, 3 * i - 1)) = {t[i] % 100}
  <2>1. CASE i = 1
    <3>1. 3 * i - 2 = 1 /\ 3 * i - 1 = 2 /\ t[i] % 100 = a
      BY <2>1 DEF a
    <3> QED BY <1>4, <3>1
  <2>2. CASE i = 2
    <3>1. 3 * i - 2 = 4 /\ 3 * i - 1 = 5 /\ t[i] % 100 = b
      BY <2>2 DEF b
    <3> QED BY <1>5, <3>1
  <2>3. CASE i = 3
    <3>1. 3 * i - 2 = 7 /\ 3 * i - 1 = 8 /\ t[i] % 100 = c
      BY <2>3 DEF c
    <3> QED BY <1>6, <3>1
  <2>4. i \in {1, 2, 3}
    OBVIOUS
  <2> QED BY <2>1, <2>2, <2>3, <2>4
<1> QED BY <1>2, <1>3, <1>7

LEMMA DateShown ==
  ASSUME NEW t \in Dates, NEW s, s = TimeToString(t)
  PROVE  /\ Reference!Numbers(SubSeq(s, 1, 4)) = {(t.year + 1900) % 10000}
         /\ Reference!Numbers(SubSeq(s, 6, 7)) = {t.mon + 1}
         /\ Reference!Numbers(SubSeq(s, 9, 10)) = {t.mday}
         /\ Reference!Numbers(SubSeq(s, 12, 13)) = {t.hour}
         /\ Reference!Numbers(SubSeq(s, 15, 16)) = {t.min}
         /\ Reference!Numbers(SubSeq(s, 18, 19)) = {t.sec}
         /\ Len(s) = 19 /\ s[5] = Slash /\ s[8] = Slash
         /\ s[11] = Hyphen /\ s[14] = TimeColon /\ s[17] = TimeColon
<1> DEFINE h == (t.year \div 100 + 19) % 100
           y == t.year % 100
           m == t.mon + 1
           v == t.year + 1900
           p == LowDigits(h, 2)
           q == Write3Digit2(y, m, t.mday, Slash)
           r == Write3Digit2(t.hour, t.min, t.sec, TimeColon)
<1>1. /\ t.year \in Nat /\ t.mday \in 0 .. 99 /\ t.hour \in 0 .. 99
      /\ t.min \in 0 .. 99 /\ t.sec \in 0 .. 99 /\ m \in 0 .. 99
  <2>1. Dates \subseteq [year : Nat, mon : 0 .. 11, mday : 1 .. 31,
                        hour : 0 .. 23, min : 0 .. 59, sec : 0 .. 60]
    BY FormatsAssumption
  <2>2. /\ t.year \in Nat /\ t.mon \in 0 .. 11 /\ t.mday \in 1 .. 31
        /\ t.hour \in 0 .. 23 /\ t.min \in 0 .. 59 /\ t.sec \in 0 .. 60
    BY <2>1
  <2> QED BY <2>2
<1>2. y \in 0 .. 99 /\ v \in Nat /\ v = t.year + 1900
  BY <1>1
<1>3. /\ h \in 0 .. 99
      /\ (v \div 1000) % 10 = h \div 10 /\ (v \div 100) % 10 = h % 10
      /\ (v \div 10) % 10 = y \div 10 /\ v % 10 = y % 10
  BY <1>1, YearDigits
<1>4. s = p \o q \o <<Hyphen>> \o r
  BY DEF TimeToString, WriteDigit2
<1> HIDE DEF h, y, m, v
<1>5. /\ p[1] = 48 + ((h \div 10) % 10) /\ p[2] = 48 + (h % 10)
      /\ p \in Seq(Int) /\ Len(p) = 2
  <2>1. h \in Nat
    BY <1>3
  <2> QED BY ONLY <2>1, TwoDigits DEF p
<1> HIDE DEF p
<1>6. /\ q \in Seq(Int) /\ Len(q) = 8 /\ q[3] = Slash /\ q[6] = Slash
      /\ q[1] = 48 + y \div 10 /\ q[2] = 48 + (y % 10)
      /\ q[4] = 48 + m \div 10 /\ q[5] = 48 + (m % 10)
      /\ q[7] = 48 + t.mday \div 10 /\ q[8] = 48 + (t.mday % 10)
  <2>1. Fields(q, y, m, t.mday, Slash)
    BY <1>1, <1>2 DEF Fields, Slash
  <2> HIDE DEF q
  <2> QED BY <2>1, ThreeFields
<1>7. /\ r \in Seq(Int) /\ Len(r) = 8 /\ r[3] = TimeColon /\ r[6] = TimeColon
      /\ r[1] = 48 + t.hour \div 10 /\ r[2] = 48 + (t.hour % 10)
      /\ r[4] = 48 + t.min \div 10 /\ r[5] = 48 + (t.min % 10)
      /\ r[7] = 48 + t.sec \div 10 /\ r[8] = 48 + (t.sec % 10)
  <2>1. Fields(r, t.hour, t.min, t.sec, TimeColon)
    BY <1>1 DEF Fields, TimeColon
  <2> HIDE DEF r
  <2> QED BY <2>1, ThreeFields
<1> HIDE DEF q, r
<1>8. /\ s \in Seq(Int) /\ Len(s) = 19 /\ s[1] = p[1] /\ s[2] = p[2] /\ s[11] = Hyphen
      /\ \A i \in 1 .. 8 : s[i + 2] = q[i] /\ s[i + 11] = r[i]
  <2>1. Stamp(s, p, q, r, Hyphen)
    BY <1>4, <1>5, <1>6, <1>7 DEF Stamp, Hyphen
  <2> QED BY <2>1, StampParts
<1>9. /\ s[1 + 2] = q[1] /\ s[2 + 2] = q[2] /\ s[3 + 2] = q[3] /\ s[4 + 2] = q[4]
      /\ s[5 + 2] = q[5] /\ s[6 + 2] = q[6] /\ s[7 + 2] = q[7] /\ s[8 + 2] = q[8]
  BY <1>8
<1>10. /\ s[1 + 11] = r[1] /\ s[2 + 11] = r[2] /\ s[3 + 11] = r[3] /\ s[4 + 11] = r[4]
       /\ s[5 + 11] = r[5] /\ s[6 + 11] = r[6] /\ s[7 + 11] = r[7] /\ s[8 + 11] = r[8]
  BY <1>8
<1>11. /\ s[3] = 48 + y \div 10 /\ s[4] = 48 + (y % 10) /\ s[5] = Slash
       /\ s[6] = 48 + m \div 10 /\ s[7] = 48 + (m % 10) /\ s[8] = Slash
       /\ s[9] = 48 + t.mday \div 10 /\ s[10] = 48 + (t.mday % 10)
  BY <1>6, <1>9
<1>12. /\ s[12] = 48 + t.hour \div 10 /\ s[13] = 48 + (t.hour % 10) /\ s[14] = TimeColon
       /\ s[15] = 48 + t.min \div 10 /\ s[16] = 48 + (t.min % 10) /\ s[17] = TimeColon
       /\ s[18] = 48 + t.sec \div 10 /\ s[19] = 48 + (t.sec % 10)
  BY <1>7, <1>10
<1>13. s[1] = 48 + ((h \div 10) % 10) /\ s[2] = 48 + (h % 10)
  BY <1>5, <1>8
<1>14. Reference!Numbers(SubSeq(s, 6, 7)) = {m}
  <2>1. TwoAt(s, 6, 7, m)
    BY <1>1, <1>8, <1>11 DEF TwoAt
  <2> QED BY <2>1, PairShown
<1>15. Reference!Numbers(SubSeq(s, 9, 10)) = {t.mday}
  <2>1. TwoAt(s, 9, 10, t.mday)
    BY <1>1, <1>8, <1>11 DEF TwoAt
  <2> QED BY <2>1, PairShown
<1>16. Reference!Numbers(SubSeq(s, 12, 13)) = {t.hour}
  <2>1. TwoAt(s, 12, 13, t.hour)
    BY <1>1, <1>8, <1>12 DEF TwoAt
  <2> QED BY <2>1, PairShown
<1>17. Reference!Numbers(SubSeq(s, 15, 16)) = {t.min}
  <2>1. TwoAt(s, 15, 16, t.min)
    BY <1>1, <1>8, <1>12 DEF TwoAt
  <2> QED BY <2>1, PairShown
<1>18. Reference!Numbers(SubSeq(s, 18, 19)) = {t.sec}
  <2>1. TwoAt(s, 18, 19, t.sec)
    BY <1>1, <1>8, <1>12 DEF TwoAt
  <2> QED BY <2>1, PairShown
<1>19. Reference!Numbers(SubSeq(s, 1, 4)) = {v % 10000}
  <2> DEFINE d == LowDigits(v, 4)
  <2>1. d[1] = s[1] /\ d[2] = s[2] /\ d[3] = s[3] /\ d[4] = s[4]
    <3>1. /\ d[1] = 48 + ((v \div 1000) % 10) /\ d[2] = 48 + ((v \div 100) % 10)
          /\ d[3] = 48 + ((v \div 10) % 10) /\ d[4] = 48 + (v % 10)
      <4>1. \A i \in 1 .. 4 : d[i] = Zero + ((v \div Ten[4 - i]) % 10)
        BY DEF LowDigits
      <4> HIDE DEF d
      <4>2. /\ d[1] = Zero + ((v \div Ten[4 - 1]) % 10) /\ d[2] = Zero + ((v \div Ten[4 - 2]) % 10)
            /\ d[3] = Zero + ((v \div Ten[4 - 3]) % 10) /\ d[4] = Zero + ((v \div Ten[4 - 4]) % 10)
        BY <4>1
      <4>3. v \div 1 = v
        BY <1>2
      <4> QED BY <4>2, <4>3, TenSmall DEF Zero
    <3> HIDE DEF d
    <3>2. (h \div 10) % 10 = h \div 10
      BY <1>3
    <3> QED BY <1>3, <1>11, <1>13, <3>1, <3>2
  <2> HIDE DEF d
  <2>2. ShowsAt(s, 1, 4, v, 4)
    <3>1. \A j \in 1 .. 4 : s[1 + j - 1] = d[j]
      <4>1. ASSUME NEW j \in 1 .. 4 PROVE s[1 + j - 1] = d[j]
        <5>1. j \in {1, 2, 3, 4} /\ 1 + j - 1 = j
          OBVIOUS
        <5> QED BY <2>1, <5>1
      <4> QED BY <4>1
    <3>2. /\ s \in Seq(Int) /\ v \in Nat /\ 4 \in Nat \ {0}
          /\ 1 \in Nat \ {0} /\ 4 = 1 + 4 - 1 /\ 4 <= Len(s)
      BY <1>2, <1>8
    <3> QED BY <3>1, <3>2 DEF ShowsAt, d
  <2>3. Reference!Numbers(SubSeq(s, 1, 4)) = {v % Ten[4]}
    BY <2>2, ShownReads
  <2> QED BY <2>3, TenSmall
<1> QED BY <1>8, <1>11, <1>12, <1>14, <1>15, <1>16, <1>17, <1>18, <1>19 DEF m, v

(* Each of the numbers of a time is where "YYYY/mm/dd HH:MM:SS" has it, with *)
(* all its digits, for all times from the year 1900 on: no field carries    *)
(* into another one (chrono.h:33, 94-107, 158-177; format.h:93-95).         *)
THEOREM TimesWritten == Spec => []TimesShown
<1>1. ASSUME Formatted PROVE TimesShown
  <2>1. CASE call.name = "triple"
    <3>1. PICK t \in Triples :
            call.args = t /\ out = WriteTripleDigit2(t[1], t[2], t[3], TimeColon)
      BY <1>1, <2>1 DEF Formatted
    <3>2. /\ \A i \in 1 .. 3 : Reference!Numbers(SubSeq(out, 3 * i - 2, 3 * i - 1)) = {t[i] % 100}
          /\ Len(out) = 8 /\ out[3] = TimeColon /\ out[6] = TimeColon
      BY <3>1, TripleShown
    <3> QED BY <2>1, <3>1, <3>2 DEF TimesShown
  <2>2. CASE call.name = "time"
    <3>1. PICK t \in Dates : call.args = <<t>> /\ out = TimeToString(t)
      BY <1>1, <2>2 DEF Formatted
    <3>2. call.args[1] = t
      BY <3>1
    <3>3. /\ Reference!Numbers(SubSeq(out, 1, 4)) = {(t.year + 1900) % 10000}
          /\ Reference!Numbers(SubSeq(out, 6, 7)) = {t.mon + 1}
          /\ Reference!Numbers(SubSeq(out, 9, 10)) = {t.mday}
          /\ Reference!Numbers(SubSeq(out, 12, 13)) = {t.hour}
          /\ Reference!Numbers(SubSeq(out, 15, 16)) = {t.min}
          /\ Reference!Numbers(SubSeq(out, 18, 19)) = {t.sec}
          /\ Len(out) = 19 /\ out[5] = Slash /\ out[8] = Slash
          /\ out[11] = Hyphen /\ out[14] = TimeColon /\ out[17] = TimeColon
      BY <3>1, DateShown
    <3> QED BY <2>2, <3>2, <3>3 DEF TimesShown
  <2>3. CASE call.name \notin {"triple", "time"}
    BY <2>3 DEF TimesShown
  <2> QED BY <2>1, <2>2, <2>3
<1> QED BY <1>1, FormattedAlways, PTL

-----------------------------------------------------------------------------
(* Several texts, one behind the other. *)

(* What there is when the first, the second, ... text has been appended.    *)
Growing(seqs, h) ==
  [i \in 1 .. Len(seqs) |-> IF i = 1 THEN seqs[i] ELSE h[i - 1] \o seqs[i]]

Flattened(seqs) == CHOOSE h : h = Growing(seqs, h)

LEMMA FlattenGrows ==
  ASSUME NEW seqs, Len(seqs) # 0
  PROVE  FlattenSeq(seqs) = Flattened(seqs)[Len(seqs)]
BY DEF FlattenSeq, Flattened, Growing

LEMMA FlattenedFix ==
  ASSUME NEW seqs, NEW h, h = Growing(seqs, h)
  PROVE  Flattened(seqs) = Growing(seqs, Flattened(seqs))
BY DEF Flattened

(* h[i] is made of the first i texts. *)
Grows(C, seqs, n, h) ==
  /\ n \in Nat /\ n = Len(seqs) /\ \A i \in 1 .. n : h[i] \in Seq(C)
  /\ 1 <= n => h[1] = seqs[1]
  /\ \A i \in 1 .. n - 1 : h[i + 1] = h[i] \o seqs[i + 1]

LEMMA FlattenIs ==
  ASSUME NEW C, NEW seqs \in Seq(Seq(C)), seqs # <<>>
  PROVE  /\ Grows(C, seqs, Len(seqs), Flattened(seqs))
         /\ FlattenSeq(seqs) = Flattened(seqs)[Len(seqs)] /\ Len(seqs) >= 1
<1> DEFINE n == Len(seqs)
           V == Seq(C)
           base == seqs[1]
           step == [i \in Nat |-> [v \in V |-> IF i + 2 <= n THEN v \o seqs[i + 2] ELSE v]]
<1>1. n \in Nat /\ n >= 1 /\ n # 0
  BY EmptySeq
<1>2. \A i \in 1 .. n : seqs[i] \in V
  BY ElementOfSeq
<1>3. ASSUME NEW i \in Nat, NEW v \in V
      PROVE  /\ step[i][v] = IF i + 2 <= n THEN v \o seqs[i + 2] ELSE v
             /\ step[i][v] \in V
  <2>1. step[i][v] = IF i + 2 <= n THEN v \o seqs[i + 2] ELSE v
    OBVIOUS
  <2>2. CASE i + 2 <= n
    <3>1. i + 2 \in 1 .. n
      BY <1>1, <2>2
    <3>2. seqs[i + 2] \in V
      BY <1>2, <3>1
    <3> DEFINE u == seqs[i + 2]
    <3> HIDE DEF u, step
    <3>3. v \in Seq(C) /\ u \in Seq(C)
      BY <3>2 DEF u
    <3>4. v \o u \in Seq(C)
      BY ONLY <3>3, ConcatProperties
    <3>5. step[i][v] = v \o u
      BY <2>1, <2>2 DEF u
    <3> QED BY <2>1, <3>4, <3>5
  <2>3. CASE ~(i + 2 <= n)
    BY <2>1, <2>3
  <2> QED BY <2>1, <2>2, <2>3
<1>4. step \in [Nat -> [V -> V]]
  <2>1. ASSUME NEW i \in Nat PROVE step[i] \in [V -> V]
    <3>1. \A v \in V : step[i][v] \in V
      BY <1>3
    <3>2. step[i] = [v \in V |-> IF i + 2 <= n THEN v \o seqs[i + 2] ELSE v]
      OBVIOUS
    <3> DEFINE g == step[i]
    <3>3. g = [v \in V |-> g[v]]
      BY <3>2
    <3> HIDE DEF step, V
    <3> QED BY <3>1, <3>3
  <2>2. step = [i \in Nat |-> step[i]]
    OBVIOUS
  <2> HIDE DEF step, V
  <2> QED BY <2>1, <2>2
<1>5. base \in V
  BY <1>1, <1>2
<1>6. Steps(V, base, step)
  <2> HIDE DEF step, V, base
  <2> QED BY <1>4, <1>5 DEF Steps
<1> HIDE DEF step, base, V
<1>7. PICK f : Goes(V, base, step, f)
  BY <1>6, IteratesExist
<1>8. f \in [Nat -> V] /\ f[0] = base /\ \A i \in Nat : f[i + 1] = step[i][f[i]]
  BY <1>7 DEF Goes
<1> DEFINE h == [i \in 1 .. n |-> f[i - 1]]
<1> HIDE DEF n
<1>9. ASSUME NEW i \in 1 .. n PROVE h[i] = f[i - 1] /\ h[i] \in V
  <2>1. i - 1 \in Nat
    OBVIOUS
  <2> QED BY <1>8, <2>1
<1>10. ASSUME NEW i \in 1 .. n, i # 1 PROVE h[i] = h[i - 1] \o seqs[i]
  <2> DEFINE j == i - 2
  <2>1. j \in Nat /\ j + 1 = i - 1 /\ j + 2 = i /\ i - 1 \in 1 .. n /\ (i - 1) - 1 = j /\ i <= n
    BY <1>1, <1>10
  <2> HIDE DEF j
  <2>2. h[i] = f[j + 1] /\ h[i - 1] = f[j]
    BY <1>9, <2>1
  <2>3. f[j] \in V
    BY <1>8, <2>1
  <2>4. f[j + 1] = f[j] \o seqs[j + 2]
    BY <1>3, <1>8, <2>1, <2>3
  <2> QED BY <2>1, <2>2, <2>4
<1>11. h[1] = seqs[1]
  <2>1. 1 \in 1 .. n /\ 1 - 1 = 0
    BY <1>1
  <2> HIDE DEF h
  <2> QED BY <1>8, <1>9, <2>1 DEF base
<1>12. h = [i \in 1 .. n |-> h[i]]
  OBVIOUS
<1> HIDE DEF h
<1>13. h = Growing(seqs, h)
  <2>1. \A i \in 1 .. n : h[i] = IF i = 1 THEN seqs[i] ELSE h[i - 1] \o seqs[i]
    BY <1>10, <1>11
  <2> QED BY <1>12, <2>1 DEF Growing, n
<1> DEFINE e == Flattened(seqs)
<1>14. e = Growing(seqs, e)
  BY <1>13, FlattenedFix
<1> HIDE DEF e
<1>15. \A i \in 1 .. n : e[i] = IF i = 1 THEN seqs[i] ELSE e[i - 1] \o seqs[i]
  <2>1. \A i \in 1 .. n : Growing(seqs, e)[i] = IF i = 1 THEN seqs[i] ELSE e[i - 1] \o seqs[i]
    BY DEF Growing, n
  <2> QED BY <1>14, <2>1
<1>16. ASSUME NEW i \in 1 .. n - 1 PROVE e[i + 1] = e[i] \o seqs[i + 1]
  <2> DEFINE j == i + 1
  <2>1. j \in 1 .. n /\ j # 1 /\ j - 1 = i
    BY <1>1
  <2> HIDE DEF j
  <2> QED BY <1>15, <2>1 DEF j
<1>17. e[1] = seqs[1]
  <2>1. 1 \in 1 .. n
    BY <1>1
  <2> QED BY <1>15, <2>1
<1>18. \A i \in 1 .. n : e[i] \in Seq(C)
  <2> DEFINE G == {i \in Nat : i + 1 <= n => e[i + 1] \in Seq(C)}
  <2>1. 0 \in G
    <3>1. 1 \in 1 .. n /\ 0 + 1 = 1
      BY <1>1
    <3> QED BY <1>2, <1>17, <3>1 DEF V
  <2>2. ASSUME NEW i \in Nat, i \in G PROVE i + 1 \in G
    <3> SUFFICES ASSUME (i + 1) + 1 <= n PROVE e[(i + 1) + 1] \in Seq(C)
      OBVIOUS
    <3> DEFINE j == i + 1
               u == seqs[j + 1]
               v == e[j]
    <3>1. j \in 1 .. n - 1 /\ j + 1 \in 1 .. n /\ i + 1 <= n
      BY <1>1
    <3>2. v \in Seq(C)
      BY <2>2, <3>1
    <3>3. e[j + 1] = v \o u /\ u \in Seq(C)
      BY <1>2, <1>16, <3>1 DEF V
    <3> HIDE DEF u, v
    <3>4. v \o u \in Seq(C)
      BY ONLY <3>2, <3>3, ConcatProperties
    <3> QED BY <3>3, <3>4
  <2> HIDE DEF G
  <2>3. \A i \in Nat : i \in G
    BY <2>1, <2>2, NatInd
  <2>4. ASSUME NEW i \in 1 .. n PROVE e[i] \in Seq(C)
    <3>1. i - 1 \in Nat /\ (i - 1) + 1 = i /\ i <= n
      BY <1>1
    <3>2. i - 1 \in G
      BY <2>3, <3>1
    <3> QED BY <3>1, <3>2 DEF G
  <2> QED BY <2>4
<1>19. FlattenSeq(seqs) = e[n]
  BY <1>1, FlattenGrows DEF e, n
<1>20. Grows(C, seqs, n, e)
  BY <1>1, <1>16, <1>17, <1>18 DEF Grows, n
<1> QED BY <1>1, <1>19, <1>20 DEF e, n

-----------------------------------------------------------------------------
(* Lists. *)

(* One text behind the other. *)
LEMMA Joined ==
  ASSUME NEW C, NEW x \in Seq(C), NEW y \in Seq(C), NEW u, u = x \o y
  PROVE  /\ u \in Seq(C) /\ Len(u) = Len(x) + Len(y) /\ Len(x) \in Nat /\ Len(y) \in Nat
         /\ \A i \in 1 .. Len(x) : u[i] = x[i]
         /\ \A i \in 1 .. Len(y) : u[Len(x) + i] = y[i]
<1>1. Len(x) \in Nat /\ Len(y) \in Nat
  BY LenProperties
<1>2. /\ u \in Seq(C) /\ Len(u) = Len(x) + Len(y)
      /\ \A i \in 1 .. Len(x) + Len(y) : u[i] = IF i <= Len(x) THEN x[i] ELSE y[i - Len(x)]
  BY ConcatProperties
<1>3. ASSUME NEW i \in 1 .. Len(x) PROVE u[i] = x[i]
  BY <1>1, <1>2
<1>4. ASSUME NEW i \in 1 .. Len(y) PROVE u[Len(x) + i] = y[i]
  <2> DEFINE k == Len(x) + i
  <2>1. k \in 1 .. Len(x) + Len(y) /\ ~(k <= Len(x)) /\ k - Len(x) = i
    BY <1>1
  <2> HIDE DEF k
  <2>2. u[k] = y[i]
    BY <1>2, <2>1
  <2> QED BY <2>2 DEF k
<1> QED BY <1>1, <1>2, <1>3, <1>4

LEMMA ConcatThree ==
  ASSUME NEW C, NEW x \in Seq(C), NEW y \in Seq(C), NEW z \in Seq(C)
  PROVE  (x \o y) \o z = x \o (y \o z)
BY ConcatAssociative

LEMMA TwoChars ==
  ASSUME NEW C, NEW x \in C, NEW y \in C
  PROVE  <<x, y>> = <<x>> \o <<y>>
<1> DEFINE a == <<x>>
           b == <<y>>
           u == a \o b
           w == <<x, y>>
<1>1. a \in Seq(C) /\ b \in Seq(C) /\ w \in Seq(C)
  OBVIOUS
<1>2. Len(a) = 1 /\ Len(b) = 1 /\ Len(w) = 2 /\ a[1] = x /\ b[1] = y /\ w[1] = x /\ w[2] = y
  OBVIOUS
<1> HIDE DEF a, b, w
<1>3. /\ u \in Seq(C) /\ Len(u) = Len(a) + Len(b)
      /\ \A i \in 1 .. Len(a) + Len(b) : u[i] = IF i <= Len(a) THEN a[i] ELSE b[i - Len(a)]
  BY <1>1, ConcatProperties
<1> HIDE DEF u
<1>4. Len(u) = 2 /\ u[1] = x /\ u[2] = y
  <2>1. u[1] = IF 1 <= Len(a) THEN a[1] ELSE b[1 - Len(a)]
    BY <1>2, <1>3
  <2>2. u[2] = IF 2 <= Len(a) THEN a[2] ELSE b[2 - Len(a)]
    BY <1>2, <1>3
  <2> QED BY <1>2, <1>3, <2>1, <2>2
<1>5. \A i \in 1 .. Len(u) : u[i] = w[i]
  <2>1. \A i \in 1 .. Len(u) : i = 1 \/ i = 2
    BY <1>4
  <2> QED BY <1>2, <1>4, <2>1
<1>6. u = w
  BY <1>1, <1>2, <1>3, <1>4, <1>5, SeqEqual
<1> QED BY <1>6 DEF u, w, a, b

LEMMA OneChar == ASSUME NEW C, NEW c \in C PROVE <<c>> \in Seq(C) /\ Len(<<c>>) = 1 /\ <<c>>[1] = c
OBVIOUS

(* u is s with a separator and d behind it. *)
Extended(C, s, sep, d, u) ==
  /\ s \in Seq(C) /\ d \in Seq(C) /\ u \in Seq(C)
  /\ Len(u) = Len(s) + 1 + Len(d) /\ u[Len(s) + 1] = sep
  /\ \A i \in 1 .. Len(s) : u[i] = s[i]
  /\ \A i \in 1 .. Len(d) : u[Len(s) + 1 + i] = d[i] /\ d[i] # sep

LEMMA ExtendedBy ==
  ASSUME NEW C, NEW s \in Seq(C), NEW sep \in C, NEW d \in Seq(C),
         \A i \in 1 .. Len(d) : d[i] # sep
  PROVE  Extended(C, s, sep, d, s \o (<<sep>> \o d))
<1> DEFINE q == <<sep>>
           v == q \o d
           u == s \o v
<1>1. q \in Seq(C) /\ Len(q) = 1 /\ q[1] = sep
  BY OneChar
<1> HIDE DEF q
<1>2. /\ v \in Seq(C) /\ Len(v) = Len(q) + Len(d) /\ Len(d) \in Nat
      /\ \A i \in 1 .. Len(q) : v[i] = q[i]
      /\ \A i \in 1 .. Len(d) : v[Len(q) + i] = d[i]
  <2>1. q \in Seq(C) /\ d \in Seq(C)
    BY <1>1
  <2>2. v = q \o d
    OBVIOUS
  <2> HIDE DEF v
  <2> QED BY ONLY <2>1, <2>2, Joined
<1> HIDE DEF v
<1>3. v \in Seq(C) /\ Len(v) = 1 + Len(d) /\ v[1] = sep /\ \A i \in 1 .. Len(d) : v[1 + i] = d[i]
  BY <1>1, <1>2
<1>4. /\ u \in Seq(C) /\ Len(u) = Len(s) + Len(v) /\ Len(s) \in Nat
      /\ \A i \in 1 .. Len(s) : u[i] = s[i]
      /\ \A i \in 1 .. Len(v) : u[Len(s) + i] = v[i]
  <2>1. s \in Seq(C) /\ v \in Seq(C)
    BY <1>3
  <2>2. u = s \o v
    OBVIOUS
  <2> HIDE DEF u
  <2> QED BY ONLY <2>1, <2>2, Joined
<1> HIDE DEF u
<1>5. u[Len(s) + 1] = sep
  <2>1. 1 \in 1 .. Len(v)
    BY <1>2, <1>3
  <2> QED BY <1>3, <1>4, <2>1
<1>6. ASSUME NEW i \in 1 .. Len(d) PROVE u[Len(s) + 1 + i] = d[i]
  <2> DEFINE j == 1 + i
  <2>1. j \in 1 .. Len(v) /\ Len(s) + 1 + i = Len(s) + j
    BY <1>2, <1>3, <1>4
  <2>2. v[j] = d[i]
    BY <1>3
  <2> HIDE DEF j
  <2> QED BY <1>4, <2>1, <2>2
<1>7. Len(u) = Len(s) + 1 + Len(d)
  BY <1>2, <1>3, <1>4
<1>8. Extended(C, s, sep, d, u)
  BY <1>4, <1>5, <1>6, <1>7 DEF Extended
<1> QED BY <1>8 DEF u, v, q

(* What is behind the last separator is one more part. *)
LEMMA PartsExtend ==
  ASSUME NEW C, NEW s, NEW sep, NEW d, NEW u, Extended(C, s, sep, d, u)
  PROVE  /\ Len(Reference!Parts(u, sep)) = Len(Reference!Parts(s, sep)) + 1
         /\ Reference!Parts(u, sep)[Len(Reference!Parts(s, sep)) + 1] = d
         /\ \A k \in 1 .. Len(Reference!Parts(s, sep)) :
              Reference!Parts(u, sep)[k] = Reference!Parts(s, sep)[k]
<1>1. /\ s \in Seq(C) /\ d \in Seq(C) /\ u \in Seq(C) /\ Len(s) \in Nat /\ Len(d) \in Nat
      /\ Len(u) = Len(s) + 1 + Len(d) /\ u[Len(s) + 1] = sep
      /\ \A i \in 1 .. Len(s) : u[i] = s[i]
      /\ \A i \in 1 .. Len(d) : u[Len(s) + 1 + i] = d[i] /\ d[i] # sep
  BY LenProperties DEF Extended
<1>2. PICK f, n : /\ Ascends(f, n, EndsOf(s, sep)) /\ n >= 2 /\ f[n] = Len(s) + 1
                  /\ \A i \in 1 .. n : f[i] \in 0 .. Len(s) + 1
  BY <1>1, EndsAscend
<1>3. /\ n \in Nat /\ f \in [1 .. n -> Int]
      /\ \A i, j \in 1 .. n : i < j => f[i] < f[j]
      /\ \A x : x \in EndsOf(s, sep) <=> \E i \in 1 .. n : x = f[i]
  BY <1>2 DEF Ascends
<1> DEFINE l == Len(u) + 1
           m == n + 1
           g == [k \in 1 .. m |-> IF k = m THEN l ELSE f[k]]
<1>4. m \in Nat /\ m = n + 1 /\ l \in Int /\ l > Len(s) + 1 /\ m - 1 = n
  BY <1>1, <1>3
<1>5. /\ g[m] = l /\ \A k \in 1 .. n : g[k] = f[k]
      /\ g \in [1 .. m -> Int]
  <2>1. \A k \in 1 .. n : k \in 1 .. m /\ k # m
    BY <1>3, <1>4
  <2>2. m \in 1 .. m
    BY <1>2, <1>4
  <2>3. \A k \in 1 .. m : k = m \/ k \in 1 .. n
    BY <1>3, <1>4
  <2> HIDE DEF m, l
  <2> QED BY <1>3, <1>4, <2>1, <2>2, <2>3
<1>6. ASSUME NEW x PROVE x \in EndsOf(u, sep) <=> x \in EndsOf(s, sep) \/ x = l
  <2>1. ASSUME x \in 1 .. Len(u), u[x] = sep PROVE x \in EndsOf(s, sep)
    <3>1. CASE x <= Len(s)
      <4>1. x \in 1 .. Len(s)
        BY <1>1, <2>1, <3>1
      <4> QED BY <1>1, <2>1, <4>1 DEF EndsOf
    <3>2. CASE x = Len(s) + 1
      BY <3>2 DEF EndsOf
    <3>3. CASE x > Len(s) + 1
      <4> DEFINE j == x - Len(s) - 1
      <4>1. j \in 1 .. Len(d) /\ Len(s) + 1 + j = x
        BY <1>1, <2>1, <3>3
      <4> HIDE DEF j
      <4> QED BY <1>1, <2>1, <4>1
    <3>4. x \in Int
      BY <2>1
    <3> QED BY <1>1, <3>1, <3>2, <3>3, <3>4
  <2>2. ASSUME x \in 1 .. Len(s), s[x] = sep PROVE x \in EndsOf(u, sep)
    <3>1. x \in 1 .. Len(u) /\ u[x] = sep
      BY <1>1, <2>2
    <3> QED BY <3>1 DEF EndsOf
  <2>3. Len(s) + 1 \in EndsOf(u, sep)
    <3>1. Len(s) + 1 \in 1 .. Len(u)
      BY <1>1
    <3> QED BY <1>1, <3>1 DEF EndsOf
  <2>4. l \in EndsOf(u, sep) /\ 0 \in EndsOf(u, sep) /\ 0 \in EndsOf(s, sep)
    BY DEF EndsOf
  <2>5. /\ x \in EndsOf(s, sep) <=> x = 0 \/ x = Len(s) + 1 \/ (x \in 1 .. Len(s) /\ s[x] = sep)
        /\ x \in EndsOf(u, sep) <=> x = 0 \/ x = l \/ (x \in 1 .. Len(u) /\ u[x] = sep)
    BY DEF EndsOf
  <2> HIDE DEF l
  <2> QED BY <2>1, <2>2, <2>3, <2>4, <2>5
<1> HIDE DEF m, g, l
<1>7. Ascends(g, m, EndsOf(u, sep))
  <2>1. ASSUME NEW k \in 1 .. m PROVE k = m \/ k \in 1 .. n
    BY <1>3, <1>4
  <2>2. ASSUME NEW i \in 1 .. m, NEW j \in 1 .. m, i < j PROVE g[i] < g[j]
    <3>1. i \in 1 .. n
      BY <1>3, <1>4, <2>2
    <3>2. f[i] \in Int /\ f[i] <= Len(s) + 1
      BY <1>1, <1>2, <3>1
    <3>3. CASE j = m
      BY <1>1, <1>4, <1>5, <3>1, <3>2, <3>3
    <3>4. CASE j \in 1 .. n
      BY <1>3, <1>5, <2>2, <3>1, <3>4
    <3> QED BY <2>1, <3>3, <3>4
  <2>3. ASSUME NEW x PROVE x \in EndsOf(u, sep) <=> \E i \in 1 .. m : x = g[i]
    <3>1. ASSUME x \in EndsOf(s, sep) PROVE \E i \in 1 .. m : x = g[i]
      <4>1. PICK i \in 1 .. n : x = f[i]
        BY <1>3, <3>1
      <4>2. i \in 1 .. m
        BY <1>3, <1>4
      <4> QED BY <1>5, <4>1, <4>2
    <3>2. m \in 1 .. m
      BY <1>2, <1>4
    <3>3. ASSUME NEW i \in 1 .. m PROVE g[i] \in EndsOf(s, sep) \/ g[i] = l
      <4>1. CASE i = m
        BY <1>5, <4>1
      <4>2. CASE i \in 1 .. n
        BY <1>3, <1>5, <4>2
      <4> QED BY <2>1, <4>1, <4>2
    <3> QED BY <1>5, <1>6, <3>1, <3>2, <3>3
  <2> QED BY <1>4, <1>5, <2>2, <2>3 DEF Ascends
<1> DEFINE P == Reference!Parts(s, sep)
           Q == Reference!Parts(u, sep)
<1>8. P = [k \in 1 .. n - 1 |-> SubSeq(s, f[k] + 1, f[k + 1] - 1)]
  BY <1>1, <1>2, PartsOf
<1>9. Q = [k \in 1 .. m - 1 |-> SubSeq(u, g[k] + 1, g[k + 1] - 1)]
  BY <1>1, <1>7, PartsOf
<1>10. P \in Seq(Seq(C)) /\ Q \in Seq(Seq(C))
  BY <1>1, PartsType
<1> HIDE DEF P, Q
<1>11. Len(P) = n - 1 /\ Len(Q) = n
  <2>1. DOMAIN P = 1 .. n - 1 /\ DOMAIN Q = 1 .. m - 1
    BY <1>8, <1>9
  <2>2. DOMAIN P = 1 .. Len(P) /\ DOMAIN Q = 1 .. Len(Q) /\ Len(P) \in Nat /\ Len(Q) \in Nat
    BY <1>10, LenProperties
  <2> QED BY <1>2, <1>3, <1>4, <2>1, <2>2
<1>12. ASSUME NEW k \in 1 .. n - 1 PROVE Q[k] = P[k]
  <2> DEFINE a == f[k] + 1
             b == f[k + 1] - 1
             one == 1
             h == Len(s)
  <2>1. k \in 1 .. n /\ k + 1 \in 1 .. n /\ k < k + 1 /\ k \in 1 .. m - 1
    BY <1>3, <1>4
  <2>2. f[k] < f[k + 1] /\ f[k] \in 0 .. Len(s) + 1 /\ f[k + 1] \in 0 .. Len(s) + 1
    BY <1>2, <1>3, <2>1
  <2>3. a \in Nat \ {0} /\ b \in 0 .. Len(s) /\ b \in 0 .. Len(u) /\ a <= b + 1
    <3> DEFINE v == f[k]
               w == f[k + 1]
    <3>1. v < w /\ v \in 0 .. Len(s) + 1 /\ w \in 0 .. Len(s) + 1
      BY <2>2
    <3>2. Len(s) \in Nat /\ Len(d) \in Nat /\ Len(u) = Len(s) + 1 + Len(d)
      BY <1>1
    <3> HIDE DEF v, w
    <3>3. v + 1 \in Nat \ {0} /\ w - 1 \in 0 .. Len(s) /\ w - 1 \in 0 .. Len(u) /\ v + 1 <= (w - 1) + 1
      BY <3>1, <3>2
    <3> QED BY <3>3 DEF v, w
  <2>4. Q[k] = SubSeq(u, a, b) /\ P[k] = SubSeq(s, a, b)
    <3>1. g[k] = f[k] /\ g[k + 1] = f[k + 1]
      BY <1>5, <2>1
    <3> QED BY <1>8, <1>9, <2>1, <3>1
  <2> HIDE DEF a, b
  <2> DEFINE p == SubSeq(s, a, b)
             q == SubSeq(u, a, b)
  <2>5. p \in Seq(C) /\ Len(p) = b - a + 1 /\ \A i \in 1 .. b - a + 1 : p[i] = s[a + i - 1]
    <3>1. s \in Seq(C) /\ a \in Nat \ {0} /\ b \in 0 .. Len(s) /\ a <= b + 1
      BY <1>1, <2>3
    <3> QED BY ONLY <3>1, SliceIs DEF p
  <2>6. q \in Seq(C) /\ Len(q) = b - a + 1 /\ \A i \in 1 .. b - a + 1 : q[i] = u[a + i - 1]
    <3>1. u \in Seq(C) /\ a \in Nat \ {0} /\ b \in 0 .. Len(u) /\ a <= b + 1
      BY <1>1, <2>3
    <3> QED BY ONLY <3>1, SliceIs DEF q
  <2> HIDE DEF p, q
  <2>7. ASSUME NEW i \in 1 .. Len(p) PROVE p[i] = q[i]
    <3>1. i \in 1 .. b - a + 1 /\ a + i - 1 \in 1 .. Len(s)
      BY <2>3, <2>5
    <3>2. u[a + i - 1] = s[a + i - 1]
      BY <1>1, <3>1
    <3> QED BY <2>5, <2>6, <3>1, <3>2
  <2>8. p = q
    BY <2>5, <2>6, <2>7, SeqEqual
  <2> QED BY <2>4, <2>8 DEF p, q
<1>13. Q[n] = d
  <2> DEFINE a == Len(s) + 2
             b == Len(u)
             q == SubSeq(u, a, b)
  <2>1. a \in Nat \ {0} /\ b \in 0 .. Len(u) /\ a <= b + 1 /\ b - a + 1 = Len(d) /\ u \in Seq(C)
    BY <1>1
  <2>2. Q[n] = q
    <3>1. n \in 1 .. n /\ n \in 1 .. m - 1 /\ g[n] = Len(s) + 1 /\ g[n + 1] = Len(u) + 1
      BY <1>2, <1>3, <1>4, <1>5 DEF l
    <3>2. Q[n] = SubSeq(u, g[n] + 1, g[n + 1] - 1)
      BY <1>9, <3>1
    <3>3. g[n] + 1 = a /\ g[n + 1] - 1 = b
      BY <1>1, <3>1
    <3> QED BY <3>2, <3>3
  <2>3. a = Len(s) + 2
    OBVIOUS
  <2> HIDE DEF a, b
  <2>4. q \in Seq(C) /\ Len(q) = b - a + 1 /\ \A i \in 1 .. b - a + 1 : q[i] = u[a + i - 1]
    BY ONLY <2>1, SliceIs DEF q
  <2> HIDE DEF q
  <2>5. ASSUME NEW i \in 1 .. Len(q) PROVE q[i] = d[i]
    <3>1. i \in 1 .. Len(d) /\ i \in 1 .. b - a + 1 /\ a + i - 1 = Len(s) + 1 + i
      BY <1>1, <2>1, <2>3, <2>4
    <3> QED BY <1>1, <2>4, <3>1
  <2>6. Len(q) = Len(d)
    BY <2>1, <2>4
  <2> QED BY <1>1, <2>2, <2>4, <2>5, <2>6, SeqEqual
<1>14. (n - 1) + 1 = n
  BY <1>3
<1> QED BY <1>11, <1>12, <1>13, <1>14 DEF P, Q

(* Behind b blanks and g signs, which are p, are the digits d.              *)
Prefixed(s, p, b, g, d) ==
  /\ b \in Nat /\ g \in {0, 1} /\ p \in Seq(Int) /\ Len(p) = b + g
  /\ \A i \in 1 .. b : p[i] \in Spaces
  /\ g = 1 => p[b + 1] = Minus
  /\ d \in Seq(48 .. 57) /\ d # <<>>
  /\ s = p \o d

LEMMA PrefixedReads ==
  ASSUME NEW s, NEW p, NEW b, NEW g, NEW d, Prefixed(s, p, b, g, d)
  PROVE  /\ Reference!Numbers(s) = {IF g = 1 THEN -Horner(d) ELSE Horner(d)}
         /\ s \in Seq(Int) /\ Len(s) = b + g + Len(d)
         /\ \A i \in 1 .. Len(s) : \/ i \in 1 .. Len(p) /\ s[i] = p[i]
                                   \/ s[i] \in 48 .. 57
<1> DEFINE C == 48 .. 57
           k == b + g
           n == Len(s)
<1>1. /\ b \in Nat /\ g \in {0, 1} /\ p \in Seq(Int) /\ Len(p) = b + g
      /\ \A i \in 1 .. b : p[i] \in Spaces
      /\ g = 1 => p[b + 1] = Minus
      /\ d \in Seq(C) /\ s = p \o d
  BY DEF Prefixed
<1>2. d \in Seq(Int)
  <2>1. C \subseteq Int
    OBVIOUS
  <2> HIDE DEF C
  <2> QED BY <1>1, <2>1, SeqMonotonic
<1>3. /\ s \in Seq(Int) /\ Len(s) = Len(p) + Len(d) /\ Len(p) \in Nat /\ Len(d) \in Nat
      /\ \A i \in 1 .. Len(p) : s[i] = p[i]
      /\ \A i \in 1 .. Len(d) : s[Len(p) + i] = d[i]
  <2>1. p \in Seq(Int) /\ s = p \o d
    BY <1>1
  <2> QED BY ONLY <1>2, <2>1, Joined
<1>4. Len(d) >= 1
  <2>1. d # <<>>
    BY DEF Prefixed
  <2>2. Len(d) \in Nat \ {0}
    BY <1>2, <2>1, EmptySeq
  <2> QED BY <2>2
<1>5. \A i \in 1 .. Len(d) : d[i] \in C
  <2> HIDE DEF C
  <2> QED BY <1>1, ElementOfSeq
<1>6. /\ k \in Nat /\ k < n /\ n = k + Len(d) /\ n \in Nat
      /\ \A i \in 1 .. k : s[i] = p[i]
      /\ \A i \in 1 .. n - k : s[k + i] = d[i]
  <2>1. k = Len(p)
    BY <1>1
  <2> HIDE DEF k
  <2>2. n - k = Len(d)
    BY <1>3, <2>1
  <2> QED BY <1>3, <1>4, <2>1, <2>2
<1> HIDE DEF n
<1>7. ASSUME NEW i \in k + 1 .. n PROVE s[i] \in C
  <2> DEFINE j == i - k
  <2> HIDE DEF C, k
  <2>1. j \in 1 .. n - k /\ j \in 1 .. Len(d) /\ k + j = i
    BY <1>6
  <2> HIDE DEF j
  <2> QED BY <1>5, <1>6, <2>1
<1>8. NumberAt(s, b, g, n)
  <2>1. \A i \in 1 .. b : s[i] \in Spaces
    BY <1>1, <1>6
  <2>2. g = 1 => s[b + 1] = Minus
    BY <1>1, <1>6
  <2>3. \A i \in b + g + 1 .. n : s[i] \in DOMAIN Digit
    <3>1. DOMAIN Digit = C
      BY DigitOf
    <3> HIDE DEF C
    <3> QED BY <1>7, <3>1
  <2>4. b + g < n /\ n <= Len(s) /\ n \in Nat
    BY <1>6 DEF n
  <2> QED BY <1>1, <2>1, <2>2, <2>3, <2>4 DEF NumberAt
<1>9. SubSeq(s, b + g + 1, n) = d
  <2> DEFINE a == k + 1
             w == SubSeq(s, a, n)
  <2>1. s \in Seq(Int) /\ a \in Nat \ {0} /\ n \in 0 .. Len(s) /\ a <= n + 1
    BY <1>3, <1>6 DEF n
  <2>2. a = k + 1 /\ n - a + 1 = Len(d)
    BY <1>3, <1>6
  <2> HIDE DEF a
  <2>3. w \in Seq(Int) /\ Len(w) = n - a + 1 /\ \A i \in 1 .. n - a + 1 : w[i] = s[a + i - 1]
    BY ONLY <2>1, SliceIs DEF w
  <2> HIDE DEF w
  <2>4. ASSUME NEW i \in 1 .. Len(w) PROVE w[i] = d[i]
    <3> DEFINE l == Len(d)
    <3>1. a = k + 1 /\ n - a + 1 = l /\ Len(w) = n - a + 1 /\ n = k + l
      BY <1>6, <2>2, <2>3
    <3>2. l \in Nat /\ k \in Nat /\ n \in Nat /\ i \in 1 .. Len(w)
      BY <1>3, <1>6
    <3> HIDE DEF l, k, n
    <3>3. i \in 1 .. n - a + 1 /\ i \in 1 .. n - k /\ i \in 1 .. l /\ a + i - 1 = k + i
      BY ONLY <3>1, <3>2
    <3>4. w[i] = s[k + i]
      BY <2>3, <3>3
    <3>5. s[k + i] = d[i]
      BY <1>6, <3>3
    <3> QED BY <3>4, <3>5
  <2>5. w = d
    BY <1>2, <2>2, <2>3, <2>4, SeqEqual
  <2> QED BY <2>5 DEF w, a
<1>10. AmountAt(s, b, g, n) = IF g = 1 THEN -Horner(d) ELSE Horner(d)
  <2>1. s[b + 1] = Minus <=> g = 1
    <3>1. CASE g = 1
      BY <1>1, <1>6, <3>1
    <3>2. CASE g = 0
      <4>1. b + 1 \in k + 1 .. n
        BY <1>1, <1>6, <3>2
      <4>2. s[b + 1] \in C
        BY <1>7, <4>1
      <4> QED BY <3>2, <4>2, DigitOf
    <3> QED BY <1>1, <3>1, <3>2
  <2> QED BY <1>9, <2>1 DEF AmountAt
<1>11. Reference!Numbers(s) = {AmountAt(s, b, g, n)}
  BY <1>3, <1>8, NumberReads DEF n
<1>12. ASSUME NEW i \in 1 .. Len(s)
       PROVE  (i \in 1 .. Len(p) /\ s[i] = p[i]) \/ s[i] \in C
  <2>1. CASE i <= k
    BY <1>1, <1>3, <2>1
  <2>2. CASE i > k
    BY <1>3, <1>6, <1>7, <2>2, SMTT(20) DEF n
  <2> QED BY <1>1, <1>3, <2>1, <2>2
<1>13. Len(s) = b + g + Len(d)
  BY <1>1, <1>3
<1> QED BY <1>3, <1>10, <1>11, <1>12, <1>13

(* A number in a list, which has a blank before it or not.                  *)
ItemOf(b, n) == (IF b = 1 THEN <<Blank>> ELSE <<>>) \o Decimal(n)

LEMMA ItemReads ==
  ASSUME NEW b \in {0, 1}, NEW n \in Int
  PROVE  /\ ItemOf(b, n) \in Seq(Int) /\ Reference!Numbers(ItemOf(b, n)) = {n}
         /\ \A i \in 1 .. Len(ItemOf(b, n)) : ItemOf(b, n)[i] # Comma
         /\ Decimal(n) \in Seq(Int) /\ Len(Decimal(n)) \in Nat \ {0}
<1> DEFINE a == Abs(n)
           k == DigitsOf(a)
           d == LowDigits(a, k)
           g == IF n < 0 THEN 1 ELSE 0
           sign == IF n < 0 THEN <<Hyphen>> ELSE <<>>
           blank == IF b = 1 THEN <<Blank>> ELSE <<>>
           p == blank \o sign
           s == ItemOf(b, n)
<1>1. a \in Nat /\ n = IF g = 1 THEN -a ELSE a
  BY DEF Abs
<1>2. k \in Nat \ {0} /\ a < Ten[k]
  <2> HIDE DEF a
  <2> QED BY <1>1, DigitsOfIs
<1>3. d \in Seq(48 .. 57) /\ Len(d) = k /\ Horner(d) = a % Ten[k]
  <2> HIDE DEF a, k
  <2> QED BY <1>1, <1>2, LowDigitsAre
<1>4. Horner(d) = a
  <2> DEFINE t == Ten[k]
  <2>1. t \in Nat \ {0}
    BY <1>2, TenIs
  <2>2. a \in Nat /\ a < t
    BY <1>1, <1>2
  <2> HIDE DEF t, a
  <2>3. a % t = a
    BY <2>1, <2>2, SmallRemainder
  <2> QED BY <1>3, <2>3 DEF t
<1>5. /\ sign \in Seq(Int) /\ Len(sign) = g /\ (g = 1 => sign[1] = Minus) /\ g \in {0, 1}
      /\ blank \in Seq(Int) /\ Len(blank) = b /\ (b = 1 => blank[1] = Blank)
  <2>1. <<Hyphen>> \in Seq(Int) /\ Len(<<Hyphen>>) = 1 /\ <<Hyphen>>[1] = Hyphen
    BY DEF Hyphen
  <2>2. <<Blank>> \in Seq(Int) /\ Len(<<Blank>>) = 1 /\ <<Blank>>[1] = Blank
    BY DEF Blank
  <2>3. <<>> \in Seq(Int) /\ Len(<<>>) = 0
    BY EmptySeq
  <2>4. Minus = Hyphen
    BY AsciiAssumption
  <2>5. CASE n < 0
    BY <2>1, <2>2, <2>3, <2>4, <2>5
  <2>6. CASE ~(n < 0)
    BY <2>1, <2>2, <2>3, <2>4, <2>6
  <2> QED BY <2>5, <2>6
<1>6. Decimal(n) = sign \o d
  BY DEF Decimal
<1>7. d \in Seq(Int)
  <2> DEFINE C == 48 .. 57
  <2> HIDE DEF d
  <2>1. d \in Seq(C) /\ C \subseteq Int
    BY <1>3
  <2> HIDE DEF C
  <2> QED BY <2>1, SeqMonotonic
<1> HIDE DEF a, k, d, sign, blank, g
<1>8. s = p \o d
  <2> DEFINE C == Int
  <2>1. blank \in Seq(C) /\ sign \in Seq(C) /\ d \in Seq(C)
    BY <1>5, <1>7
  <2> HIDE DEF C
  <2>2. (blank \o sign) \o d = blank \o (sign \o d)
    BY ONLY <2>1, ConcatThree
  <2>3. s = blank \o Decimal(n)
    BY DEF ItemOf, blank
  <2> QED BY <1>6, <2>2, <2>3 DEF p
<1>9. /\ p \in Seq(Int) /\ Len(p) = b + g
      /\ \A i \in 1 .. b : p[i] = Blank
      /\ g = 1 => p[b + 1] = Minus
      /\ \A i \in 1 .. Len(p) : p[i] = Blank \/ p[i] = Minus
  <2>1. /\ p \in Seq(Int) /\ Len(p) = Len(blank) + Len(sign)
        /\ \A i \in 1 .. Len(blank) : p[i] = blank[i]
        /\ \A i \in 1 .. Len(sign) : p[Len(blank) + i] = sign[i]
    <3>1. blank \in Seq(Int) /\ sign \in Seq(Int)
      BY <1>5
    <3> QED BY ONLY <3>1, Joined DEF p
  <2> HIDE DEF p
  <2>2. /\ p \in Seq(Int) /\ Len(p) = b + g
        /\ \A i \in 1 .. b : p[i] = blank[i]
        /\ \A i \in 1 .. g : p[b + i] = sign[i]
    BY <1>5, <2>1
  <2>3. \A i \in 1 .. b : p[i] = Blank
    BY <1>5, <2>2
  <2>4. g = 1 => p[b + 1] = Minus
    BY <1>5, <2>2
  <2>5. ASSUME NEW i \in 1 .. Len(p) PROVE p[i] = Blank \/ p[i] = Minus
    <3>1. CASE i <= b
      BY <2>2, <2>3, <3>1
    <3>2. CASE ~(i <= b)
      <4>1. g = 1 /\ i = b + 1
        BY <1>5, <2>2, <3>2
      <4> QED BY <2>4, <4>1
    <3> QED BY <3>1, <3>2
  <2> QED BY <2>2, <2>3, <2>4, <2>5
<1>10. d # <<>>
  BY <1>2, <1>3
<1> HIDE DEF p, s
<1>11. Prefixed(s, p, b, g, d)
  <2>1. Blank \in Spaces
    BY AsciiAssumption
  <2>2. b \in Nat
    OBVIOUS
  <2> QED BY <1>3, <1>5, <1>8, <1>9, <1>10, <2>1, <2>2 DEF Prefixed
<1>12. /\ Reference!Numbers(s) = {IF g = 1 THEN -Horner(d) ELSE Horner(d)}
       /\ s \in Seq(Int)
       /\ \A i \in 1 .. Len(s) : (i \in 1 .. Len(p) /\ s[i] = p[i]) \/ s[i] \in 48 .. 57
  BY <1>11, PrefixedReads
<1>13. Reference!Numbers(s) = {n}
  BY <1>1, <1>4, <1>12
<1>14. ASSUME NEW i \in 1 .. Len(s) PROVE s[i] # Comma
  <2>1. Minus = 45 /\ Blank = 32 /\ Comma = 44
    BY DigitOf DEF Blank, Comma
  <2>2. s[i] \in 48 .. 57 \/ s[i] = 32 \/ s[i] = 45
    BY <1>9, <1>12, <2>1
  <2> QED BY <2>1, <2>2
<1>15. Decimal(n) \in Seq(Int) /\ Len(Decimal(n)) \in Nat \ {0}
  <2>1. /\ Decimal(n) \in Seq(Int) /\ Len(Decimal(n)) = Len(sign) + Len(d) /\ Len(sign) \in Nat
    <3>1. sign \in Seq(Int) /\ d \in Seq(Int)
      BY <1>5, <1>7
    <3> QED BY ONLY <3>1, <1>6, Joined
  <2> QED BY <1>2, <1>3, <2>1
<1> QED BY <1>12, <1>13, <1>14, <1>15 DEF s

(* What VectorToString() puts between the brackets, one text per element.   *)
Items(xs) ==
  [k \in DOMAIN xs |-> (IF k > 1 THEN <<Comma, Blank>> ELSE <<>>) \o Decimal(xs[k])]

(* u is what stands in front of an element, but for the first one.          *)
LEMMA ItemIs ==
  ASSUME NEW xs \in Seq(Int), NEW k \in 1 .. Len(xs)
  PROVE  /\ Items(xs)[k] = IF k > 1 THEN <<Comma>> \o ItemOf(1, xs[k]) ELSE ItemOf(0, xs[k])
         /\ Items(xs)[k] \in Seq(Int)
<1>1. k \in Nat \ {0} /\ k \in DOMAIN xs /\ xs[k] \in Int
  BY ElementOfSeq, LenProperties
<1>2. Items(xs)[k] = (IF k > 1 THEN <<Comma, Blank>> ELSE <<>>) \o Decimal(xs[k])
  BY <1>1 DEF Items
<1>3. /\ Decimal(xs[k]) \in Seq(Int)
      /\ ItemOf(0, xs[k]) \in Seq(Int) /\ ItemOf(1, xs[k]) \in Seq(Int)
  BY <1>1, ItemReads
<1>4. CASE k > 1
  <2> DEFINE C == Int
             a == <<Comma>>
             b == <<Blank>>
             d == Decimal(xs[k])
  <2>1. a \in Seq(C) /\ b \in Seq(C) /\ d \in Seq(C)
    BY <1>3 DEF Comma, Blank
  <2>2. <<Comma, Blank>> = a \o b
    <3>1. Comma \in Int /\ Blank \in Int
      BY DEF Comma, Blank
    <3> QED BY <3>1, TwoChars
  <2>3. ItemOf(1, xs[k]) = b \o d
    BY DEF ItemOf
  <2>4. Items(xs)[k] = (a \o b) \o d
    BY <1>2, <1>4, <2>2
  <2> HIDE DEF C, a, b, d
  <2>5. (a \o b) \o d = a \o (b \o d) /\ b \o d \in Seq(C)
    BY ONLY <2>1, ConcatThree, ConcatProperties, SMTT(20)
  <2>6. a \o (b \o d) \in Seq(C)
    BY ONLY <2>1, <2>5, ConcatProperties
  <2>7. Items(xs)[k] = a \o ItemOf(1, xs[k]) /\ Items(xs)[k] \in Seq(C)
    BY <2>3, <2>4, <2>5, <2>6
  <2> QED BY <1>4, <2>7 DEF a, C
<1>5. CASE ~(k > 1)
  <2>1. ItemOf(0, xs[k]) = <<>> \o Decimal(xs[k])
    BY DEF ItemOf
  <2> QED BY <1>2, <1>3, <1>5, <2>1
<1> QED BY <1>4, <1>5

(* The parts of the first k elements are the elements.                      *)
ReadsTo(xs, h, k) ==
  /\ Len(Reference!Parts(h[k], Comma)) = k
  /\ \A i \in 1 .. k : Reference!Parts(h[k], Comma)[i]
                         = IF i > 1 THEN ItemOf(1, xs[i]) ELSE ItemOf(0, xs[i])

LEMMA ItemsRead ==
  ASSUME NEW xs \in Seq(Int), NEW h, Grows(Int, Items(xs), Len(xs), h)
  PROVE  \A k \in 1 .. Len(xs) : ReadsTo(xs, h, k)
<1> DEFINE n == Len(xs)
           G == {k \in Nat : k + 1 <= n => ReadsTo(xs, h, k + 1)}
<1>1. /\ n \in Nat /\ \A i \in 1 .. n : h[i] \in Seq(Int)
      /\ 1 <= n => h[1] = Items(xs)[1]
      /\ \A i \in 1 .. n - 1 : h[i + 1] = h[i] \o Items(xs)[i + 1]
  BY DEF Grows
<1>2. \A k \in 1 .. n : xs[k] \in Int
  BY ElementOfSeq
<1>3. 0 \in G
  <2>1. ASSUME 1 <= n PROVE ReadsTo(xs, h, 1)
    <3>1. 1 \in 1 .. n /\ ~(1 > 1)
      BY <1>1, <2>1
    <3>2. PICK x : x = xs[1]
      OBVIOUS
    <3>3. x \in Int
      BY <1>2, <3>1, <3>2
    <3>4. h[1] = ItemOf(0, x)
      BY <1>1, <2>1, <3>1, <3>2, ItemIs
    <3> DEFINE s == ItemOf(0, x)
    <3>5. s \in Seq(Int) /\ \A i \in 1 .. Len(s) : s[i] # Comma
      BY <3>3, ItemReads
    <3> HIDE DEF s
    <3>6. Reference!Parts(s, Comma) = <<s>>
      BY <3>5, PartsWhole
    <3>7. h[1] = s
      BY <3>4 DEF s
    <3>8. /\ Len(<<s>>) = 1 /\ <<s>>[1] = s
      OBVIOUS
    <3>9. Len(Reference!Parts(h[1], Comma)) = 1 /\ Reference!Parts(h[1], Comma)[1] = ItemOf(0, xs[1])
      BY <3>2, <3>6, <3>7, <3>8 DEF s
    <3> QED BY <3>9 DEF ReadsTo
  <2> QED BY <2>1
<1>4. ASSUME NEW j \in Nat, j \in G PROVE j + 1 \in G
  <2> DEFINE k == j + 1
  <2>1. k \in Nat /\ j + 1 + 1 = k + 1 /\ k + 1 > 1 /\ k >= 1
    OBVIOUS
  <2> HIDE DEF n
  <2>2. k <= n => ReadsTo(xs, h, k)
    BY <1>4
  <2> HIDE DEF k
  <2> SUFFICES ASSUME k + 1 <= n PROVE ReadsTo(xs, h, k + 1)
    BY <2>1 DEF k
  <2>3. k \in 1 .. n - 1 /\ k \in 1 .. n /\ k + 1 \in 1 .. n /\ k <= n
    BY <1>1, <2>1
  <2>4. PICK x : x = xs[k + 1]
    OBVIOUS
  <2>5. x \in Int
    BY <1>2, <2>3, <2>4
  <2> DEFINE C == Int
             s == h[k]
             d == ItemOf(1, x)
             u == h[k + 1]
             P == Reference!Parts(s, Comma)
             Q == Reference!Parts(u, Comma)
  <2>6. Items(xs)[k + 1] = <<Comma>> \o d
    BY <2>1, <2>3, <2>4, ItemIs DEF n
  <2>7. u = s \o (<<Comma>> \o d)
    BY <1>1, <2>3, <2>6
  <2>8. d \in Seq(Int) /\ \A i \in 1 .. Len(d) : d[i] # Comma
    BY <2>5, ItemReads
  <2>9. s \in Seq(Int)
    BY <1>1, <2>3
  <2>10. Extended(Int, s, Comma, d, u)
    <3>1. Comma \in C /\ s \in Seq(C) /\ d \in Seq(C) /\ \A i \in 1 .. Len(d) : d[i] # Comma
      BY <2>8, <2>9 DEF Comma
    <3> HIDE DEF C, s, d, u
    <3>2. Extended(C, s, Comma, d, s \o (<<Comma>> \o d))
      BY ONLY <3>1, ExtendedBy
    <3> QED BY <2>7, <3>2 DEF C
  <2> HIDE DEF s, d, u
  <2>11. /\ Len(Q) = Len(P) + 1 /\ Q[Len(P) + 1] = d /\ \A i \in 1 .. Len(P) : Q[i] = P[i]
    BY <2>10, PartsExtend
  <2>12. /\ Len(P) = k
         /\ \A i \in 1 .. k : P[i] = IF i > 1 THEN ItemOf(1, xs[i]) ELSE ItemOf(0, xs[i])
    BY <2>2, <2>3 DEF ReadsTo, s
  <2> HIDE DEF P, Q
  <2>13. Len(Q) = k + 1 /\ Q[k + 1] = d /\ \A i \in 1 .. k : Q[i] = P[i]
    BY <2>11, <2>12
  <2>14. ASSUME NEW i \in 1 .. k + 1
         PROVE  Q[i] = IF i > 1 THEN ItemOf(1, xs[i]) ELSE ItemOf(0, xs[i])
    <3>1. CASE i = k + 1
      BY <2>1, <2>4, <2>13, <3>1 DEF d
    <3>2. CASE i # k + 1
      <4>1. i \in 1 .. k
        BY <2>1, <3>2
      <4> QED BY <2>12, <2>13, <4>1
    <3> QED BY <3>1, <3>2
  <2> QED BY <2>13, <2>14 DEF ReadsTo, Q, u
<1>5. \A k \in Nat : k \in G
  <2> HIDE DEF G
  <2> QED BY <1>3, <1>4, NatInd
<1>6. ASSUME NEW k \in 1 .. n PROVE ReadsTo(xs, h, k)
  <2> DEFINE j == k - 1
  <2>1. j \in Nat /\ j + 1 = k /\ k <= n
    BY <1>1
  <2> HIDE DEF j
  <2>2. j \in G
    BY <1>5, <2>1
  <2> QED BY <2>1, <2>2
<1> QED BY <1>6 DEF n

LEMMA ItemsTexts ==
  ASSUME NEW xs \in Seq(Int)
  PROVE  Items(xs) \in Seq(Seq(Int)) /\ Len(Items(xs)) = Len(xs)
<1> DEFINE n == Len(xs)
           V == Seq(Int)
           F == Items(xs)
<1>1. n \in Nat /\ DOMAIN xs = 1 .. n
  BY LenProperties
<1>2. \A k \in 1 .. n : F[k] \in V
  BY ItemIs
<1>3. DOMAIN F = 1 .. n /\ F = [k \in 1 .. n |-> F[k]]
  BY <1>1 DEF Items
<1> HIDE DEF F, V, n
<1>4. F \in [1 .. n -> V]
  BY <1>2, <1>3
<1>5. F \in Seq(V)
  BY <1>1, <1>4
<1>6. Len(F) = n
  BY <1>1, <1>3, <1>5, LenProperties
<1> QED BY <1>5, <1>6 DEF F, V, n

(* What is between the brackets is read back, and only if there is nothing  *)
(* to write it is empty.                                                    *)
LEMMA InsideReads ==
  ASSUME NEW xs \in Seq(Int), NEW m, m = FlattenSeq(Items(xs))
  PROVE  /\ m \in Seq(Int)
         /\ xs = <<>> => m = <<>>
         /\ xs # <<>> => /\ Len(Reference!Parts(m, Comma)) = Len(xs)
                         /\ \A k \in 1 .. Len(xs) :
                              Reference!Numbers(Reference!Parts(m, Comma)[k]) = {xs[k]}
<1> DEFINE F == Items(xs)
           n == Len(xs)
           V == Seq(Int)
<1>1. F \in Seq(V) /\ Len(F) = n /\ n \in Nat
  BY ItemsTexts, LenProperties
<1>2. CASE xs = <<>>
  <2>1. n = 0
    BY <1>2
  <2>2. F = <<>>
    BY <1>1, <2>1, EmptySeq
  <2>3. m = <<>>
    BY <1>1, <2>1, <2>2 DEF FlattenSeq
  <2> QED BY <1>2, <2>3
<1>3. CASE xs # <<>>
  <2>1. n # 0
    BY <1>3, EmptySeq
  <2>2. F # <<>>
    BY <1>1, <2>1
  <2> DEFINE h == Flattened(F)
  <2>3. Grows(Int, F, Len(F), h) /\ m = h[Len(F)] /\ n >= 1
    <3>1. F \in Seq(Seq(Int)) /\ F # <<>>
      BY <1>1, <2>2
    <3> HIDE DEF F
    <3>2. /\ Grows(Int, F, Len(F), Flattened(F))
          /\ FlattenSeq(F) = Flattened(F)[Len(F)] /\ Len(F) >= 1
      BY <3>1, FlattenIs
    <3> QED BY <1>1, <3>2 DEF F
  <2> HIDE DEF h
  <2>4. Grows(Int, Items(xs), Len(xs), h) /\ m = h[n] /\ n \in 1 .. n
    BY <1>1, <2>3
  <2>5. \A k \in 1 .. n : ReadsTo(xs, h, k)
    BY <2>4, ItemsRead
  <2>6. /\ Len(Reference!Parts(m, Comma)) = n
        /\ \A k \in 1 .. n : Reference!Parts(m, Comma)[k]
                               = IF k > 1 THEN ItemOf(1, xs[k]) ELSE ItemOf(0, xs[k])
    BY <2>4, <2>5 DEF ReadsTo
  <2>7. ASSUME NEW k \in 1 .. n
        PROVE  Reference!Numbers(Reference!Parts(m, Comma)[k]) = {xs[k]}
    <3>1. xs[k] \in Int
      BY ElementOfSeq
    <3>2. /\ Reference!Numbers(ItemOf(0, xs[k])) = {xs[k]}
          /\ Reference!Numbers(ItemOf(1, xs[k])) = {xs[k]}
      BY <3>1, ItemReads
    <3> QED BY <2>6, <3>2
  <2>8. m \in Seq(Int)
    BY <2>3, <2>4, <1>1 DEF Grows
  <2> QED BY <1>3, <2>6, <2>7, <2>8
<1> QED BY <1>2, <1>3

(* The text without its first and its last character. *)
Between(C, a, m, b, s) ==
  a \in C /\ b \in C /\ m \in Seq(C) /\ s = (<<a>> \o m) \o <<b>>

LEMMA BetweenBrackets ==
  ASSUME NEW C, NEW a, NEW b, NEW m, NEW s, Between(C, a, m, b, s)
  PROVE  s[1] = a /\ Last(s) = b /\ SubSeq(s, 2, Len(s) - 1) = m
<1> DEFINE p == <<a>>
           q == <<b>>
           w == p \o m
           l == Len(m)
<1>0. a \in C /\ b \in C /\ m \in Seq(C)
  BY DEF Between
<1>1. /\ p \in Seq(C) /\ Len(p) = 1 /\ p[1] = a
      /\ q \in Seq(C) /\ Len(q) = 1 /\ q[1] = b
  BY <1>0, OneChar
<1>2. s = w \o q
  BY DEF Between
<1> HIDE DEF p, q
<1>3. /\ w \in Seq(C) /\ Len(w) = Len(p) + l /\ l \in Nat
      /\ \A i \in 1 .. Len(p) : w[i] = p[i]
      /\ \A i \in 1 .. l : w[Len(p) + i] = m[i]
  <2>1. p \in Seq(C) /\ m \in Seq(C)
    BY <1>0, <1>1
  <2> QED BY ONLY <2>1, Joined DEF w, l
<1> HIDE DEF w
<1>4. /\ s \in Seq(C) /\ Len(s) = Len(w) + Len(q)
      /\ \A i \in 1 .. Len(w) : s[i] = w[i]
      /\ \A i \in 1 .. Len(q) : s[Len(w) + i] = q[i]
  <2>1. w \in Seq(C) /\ q \in Seq(C)
    BY <1>1, <1>3
  <2> QED BY ONLY <2>1, <1>2, Joined
<1> HIDE DEF l
<1>5. Len(w) = l + 1 /\ Len(s) = l + 2 /\ w[1] = a /\ \A i \in 1 .. l : w[1 + i] = m[i]
  BY <1>1, <1>3, <1>4
<1>6. s[1] = a /\ s[l + 2] = b
  <2>1. 1 \in 1 .. Len(w) /\ 1 \in 1 .. Len(q) /\ Len(w) + 1 = l + 2
    BY <1>1, <1>3, <1>5
  <2> QED BY <1>1, <1>4, <1>5, <2>1
<1>7. Last(s) = b
  BY <1>5, <1>6 DEF Last
<1> DEFINE two == 2
           r == l + 1
           v == SubSeq(s, two, r)
<1>8. two \in Nat \ {0} /\ r \in 0 .. Len(s) /\ two <= r + 1 /\ r - two + 1 = l /\ r = Len(s) - 1
  BY <1>3, <1>5
<1>9. \A i \in 1 .. l : two + i - 1 = 1 + i /\ 1 + i \in 1 .. Len(w)
  BY <1>3, <1>5
<1> HIDE DEF two, r
<1>10. v \in Seq(C) /\ Len(v) = r - two + 1 /\ \A i \in 1 .. r - two + 1 : v[i] = s[two + i - 1]
  <2>1. s \in Seq(C) /\ two \in Nat \ {0} /\ r \in 0 .. Len(s) /\ two <= r + 1
    BY <1>4, <1>8
  <2> QED BY ONLY <2>1, SliceIs DEF v
<1> HIDE DEF v
<1>11. ASSUME NEW i \in 1 .. Len(v) PROVE v[i] = m[i]
  <2>1. i \in 1 .. l /\ i \in 1 .. r - two + 1 /\ two + i - 1 = 1 + i /\ 1 + i \in 1 .. Len(w)
    BY <1>8, <1>9, <1>10
  <2>2. v[i] = s[1 + i]
    BY <1>10, <2>1
  <2>3. s[1 + i] = w[1 + i]
    BY <1>4, <2>1
  <2>4. w[1 + i] = m[i]
    BY <1>5, <2>1
  <2> QED BY <2>2, <2>3, <2>4
<1>12. v = m
  BY <1>0, <1>8, <1>10, <1>11, SeqEqual DEF l
<1>13. SubSeq(s, 2, Len(s) - 1) = m
  BY <1>8, <1>12 DEF v, two
<1> QED BY <1>6, <1>7, <1>13

(* A list that was written, in its default form, is read back as the        *)
(* vector, whatever its numbers and however many there are                  *)
(* (conversion.h:90-130).                                                   *)
THEOREM ListsWritten == Spec => []ListsReadBack
<1>1. ASSUME Formatted PROVE ListsReadBack
  <2> SUFFICES ASSUME call.name = "list" PROVE ListsReadBack
    BY DEF ListsReadBack
  <2>1. PICK xs \in Vectors :
          call.args = <<xs>> /\ out = VectorToString(xs, <<Comma, Blank>>, <<Open>>, <<Close>>)
    BY <1>1 DEF Formatted
  <2>2. xs \in Seq(Int) /\ call.args[1] = xs
    BY <2>1, FormatsAssumption
  <2> DEFINE m == FlattenSeq(Items(xs))
  <2>3. out = (<<Open>> \o m) \o <<Close>>
    BY <2>1 DEF VectorToString, Items
  <2>4. /\ m \in Seq(Int)
        /\ xs = <<>> => m = <<>>
        /\ xs # <<>> => /\ Len(Reference!Parts(m, Comma)) = Len(xs)
                        /\ \A k \in 1 .. Len(xs) :
                             Reference!Numbers(Reference!Parts(m, Comma)[k]) = {xs[k]}
    BY <2>2, InsideReads
  <2> HIDE DEF m
  <2>5. out[1] = Open /\ Last(out) = Close /\ SubSeq(out, 2, Len(out) - 1) = m
    <3>1. Between(Int, Open, m, Close, out)
      BY <2>3, <2>4 DEF Between, Open, Close
    <3> QED BY <3>1, BetweenBrackets
  <2>6. DOMAIN Reference!Parts(m, Comma) = 1 .. Len(Reference!Parts(m, Comma))
    <3>1. Reference!Parts(m, Comma) \in Seq(Seq(Int))
      BY <2>4, PartsType
    <3> QED BY <3>1, LenProperties
  <2> QED BY <2>2, <2>4, <2>5, <2>6 DEF ListsReadBack
<1> QED BY <1>1, FormattedAlways, PTL

-----------------------------------------------------------------------------
(* Quoted strings: which characters are escaped. *)

Backs(text, i) == {n \in 0 .. i - 1 : \A k \in 1 .. n : text[i - k] = Backslash}

LEMMA EscapedIs == ASSUME NEW text, NEW i PROVE Escaped(text, i) <=> Max(Backs(text, i)) % 2 = 1
BY DEF Escaped, Backs

LEMMA FirstNotEscaped == ASSUME NEW text PROVE ~Escaped(text, 1)
<1> DEFINE D == Backs(text, 1)
<1>1. D \in SUBSET Int /\ 0 \in D /\ \A n \in D : n <= 0
  BY DEF Backs
<1> HIDE DEF D
<1>2. Max(D) = 0
  BY <1>1, MaxIs
<1> QED BY <1>2, EscapedIs DEF D

(* What is behind a backslash that is not escaped is, and nothing else.     *)
LEMMA EscapedStep ==
  ASSUME NEW text, NEW i \in Nat \ {0}
  PROVE  Escaped(text, i + 1) <=> text[i] = Backslash /\ ~Escaped(text, i)
<1> DEFINE D == Backs(text, i)
           E == Backs(text, i + 1)
           m == Max(D)
<1>1. /\ D \in SUBSET Int /\ 0 \in D /\ E \in SUBSET Int /\ 0 \in E
      /\ \A n \in D : n \in Nat /\ n <= i - 1 /\ \A k \in 1 .. n : text[i - k] = Backslash
      /\ \A n \in E : n \in Nat /\ n <= i /\ \A k \in 1 .. n : text[i + 1 - k] = Backslash
      /\ \A n \in 0 .. i - 1 : (\A k \in 1 .. n : text[i - k] = Backslash) => n \in D
      /\ \A n \in 0 .. i : (\A k \in 1 .. n : text[i + 1 - k] = Backslash) => n \in E
  <2>1. 0 \in 0 .. i - 1 /\ 0 \in 0 .. (i + 1) - 1 /\ \A k \in 1 .. 0 : FALSE
    OBVIOUS
  <2>2. (i + 1) - 1 = i
    OBVIOUS
  <2> QED BY <2>1, <2>2 DEF Backs
<1>2. m \in D /\ \A n \in D : n <= m
  <2>1. D \in SUBSET Int /\ D # {} /\ i - 1 \in Int /\ \A n \in D : n <= i - 1
    BY <1>1
  <2> HIDE DEF D
  <2> QED BY <2>1, MaxOf
<1>3. (Escaped(text, i) <=> m % 2 = 1) /\ (Escaped(text, i + 1) <=> Max(E) % 2 = 1)
  BY EscapedIs
<1> HIDE DEF D, E, m
<1>4. CASE text[i] # Backslash
  <2>1. ASSUME NEW n \in E PROVE n <= 0
    <3> SUFFICES ASSUME n >= 1 PROVE FALSE
      BY <1>1
    <3>1. 1 \in 1 .. n /\ i + 1 - 1 = i
      BY <1>1
    <3> QED BY <1>1, <1>4, <3>1
  <2>2. Max(E) = 0
    BY <1>1, <2>1, MaxIs
  <2> QED BY <1>3, <1>4, <2>2
<1>5. CASE text[i] = Backslash
  <2>1. m \in Nat /\ m <= i - 1 /\ \A k \in 1 .. m : text[i - k] = Backslash
    BY <1>1, <1>2
  <2>2. ASSUME NEW k \in 1 .. m + 1 PROVE text[i + 1 - k] = Backslash
    <3>1. CASE k = 1
      <4>1. i + 1 - k = i
        BY <3>1
      <4> QED BY <1>5, <4>1
    <3>2. CASE k # 1
      <4>1. k - 1 \in 1 .. m /\ i + 1 - k = i - (k - 1)
        BY <2>1, <3>2
      <4> QED BY <2>1, <4>1
    <3> QED BY <3>1, <3>2
  <2>3. m + 1 \in E
    <3>1. m + 1 \in 0 .. i
      BY <2>1
    <3> QED BY <1>1, <2>2, <3>1
  <2>4. ASSUME NEW n \in E PROVE n <= m + 1
    <3> SUFFICES ASSUME n >= 1 PROVE n <= m + 1
      BY <1>1, <2>1
    <3>1. n \in Nat /\ n <= i /\ n - 1 \in 0 .. i - 1
      BY <1>1
    <3>2. ASSUME NEW k \in 1 .. n - 1 PROVE text[i - k] = Backslash
      <4>1. k + 1 \in 1 .. n /\ i + 1 - (k + 1) = i - k
        BY <3>1
      <4> QED BY <1>1, <4>1
    <3>3. n - 1 \in D
      BY <1>1, <3>1, <3>2
    <3> QED BY <1>2, <2>1, <3>1, <3>3
  <2>5. Max(E) = m + 1
    BY <1>1, <2>1, <2>3, <2>4, MaxIs
  <2>6. ((m + 1) % 2) = 1 <=> ~((m % 2) = 1)
    BY <2>1
  <2> QED BY <1>3, <1>5, <2>5, <2>6
<1> QED BY <1>4, <1>5

-----------------------------------------------------------------------------
(* What a single character is written as. *)

Piece(c) == ToEscapedString(c, {Quote})

Printable == 32 .. 126

Plain(p, c) == Len(p) = 1 /\ p[1] = c /\ c \in Printable \ {Quote, Backslash}

Marked(p, c) ==
  /\ Len(p) = 2 /\ p[1] = Backslash
  /\ \/ c \in {Quote, Backslash} /\ p[2] = c
     \/ c \in DOMAIN Letters /\ p[2] = Letters[c]

HexSign == [v \in 0 .. 15 |-> NumToHex(v)]

Hexed(p, c) ==
  /\ Len(p) = 4 /\ p[1] = Backslash /\ p[2] = 120
  /\ p[3] = HexSign[c \div 16] /\ p[4] = HexSign[c % 16]

LEMMA LettersAre ==
  /\ DOMAIN Letters = {0, 7, 8, 9, 10, 11, 12, 13, 27}
  /\ Letters[0] = 48 /\ Letters[7] = 97 /\ Letters[8] = 98 /\ Letters[9] = 116
  /\ Letters[10] = 110 /\ Letters[11] = 118 /\ Letters[12] = 102 /\ Letters[13] = 114
  /\ Letters[27] = 101
BY DEF Letters

LEMMA LettersTell ==
  /\ \A c \in DOMAIN Letters : Letters[c] \in Printable \ {Quote, Backslash, 120}
  /\ \A c, d \in DOMAIN Letters : Letters[c] = Letters[d] => c = d
<1> DEFINE L == Letters
<1>1. /\ DOMAIN L = {0, 7, 8, 9, 10, 11, 12, 13, 27}
      /\ L[0] = 48 /\ L[7] = 97 /\ L[8] = 98 /\ L[9] = 116 /\ L[10] = 110
      /\ L[11] = 118 /\ L[12] = 102 /\ L[13] = 114 /\ L[27] = 101
  BY LettersAre
<1> HIDE DEF L
<1>2. \A c \in DOMAIN L : L[c] \in Printable \ {Quote, Backslash, 120}
  BY <1>1 DEF Printable, Quote, Backslash
<1>3. \A c, d \in DOMAIN L : L[c] = L[d] => c = d
  BY <1>1
<1> QED BY <1>2, <1>3 DEF L

LEMMA HexSigns ==
  /\ \A v \in 0 .. 15 : HexSign[v] \in Printable \ {Quote, Backslash}
  /\ \A v, w \in 0 .. 15 : HexSign[v] = HexSign[w] => v = w
<1> DEFINE H == HexSign
<1>1. ASSUME NEW v \in 0 .. 15 PROVE H[v] = IF v < 10 THEN 48 + v ELSE 87 + v
  BY DEF HexSign, NumToHex, Zero
<1> HIDE DEF H
<1>2. ASSUME NEW v \in 0 .. 15 PROVE H[v] \in Printable \ {Quote, Backslash}
  BY <1>1 DEF Printable, Quote, Backslash
<1>3. ASSUME NEW v \in 0 .. 15, NEW w \in 0 .. 15, H[v] = H[w] PROVE v = w
  <2>1. H[v] = (IF v < 10 THEN 48 + v ELSE 87 + v) /\ H[w] = IF w < 10 THEN 48 + w ELSE 87 + w
    BY <1>1
  <2>2. (IF v < 10 THEN 48 + v ELSE 87 + v) = IF w < 10 THEN 48 + w ELSE 87 + w
    BY ONLY <1>3, <2>1
  <2> QED BY ONLY <2>2, v \in 0 .. 15, w \in 0 .. 15
<1> QED BY <1>2, <1>3 DEF H

LEMMA Nibbles ==
  ASSUME NEW c \in 0 .. 255
  PROVE  c \div 16 \in 0 .. 15 /\ c % 16 \in 0 .. 15 /\ c = 16 * (c \div 16) + (c % 16)
OBVIOUS

LEMMA PieceIs ==
  ASSUME NEW c \in 0 .. 255
  PROVE  /\ Piece(c) \in Seq(Printable)
         /\ Plain(Piece(c), c) \/ Marked(Piece(c), c) \/ Hexed(Piece(c), c)
<1> DEFINE p == Piece(c)
<1>1. Backslash = 92 /\ Quote = 34 /\ Backslash \in Printable /\ Quote \in Printable
  BY DEF Backslash, Quote, Printable
<1>2. CASE c \in {Quote, Backslash}
  <2>1. p = <<Backslash>> \o <<c>> /\ c \in Printable
    BY <1>1, <1>2 DEF Piece, ToEscapedString, Printable
  <2>2. p = <<Backslash, c>>
    BY <1>1, <2>1, TwoChars
  <2> QED BY <1>1, <1>2, <2>1, <2>2 DEF Marked
<1>3. CASE c \in Printable /\ c \notin {Quote, Backslash}
  <2>1. p = <<>> \o <<c>>
    BY <1>3 DEF Piece, ToEscapedString, Printable
  <2>2. <<c>> \in Seq(Printable)
    BY <1>3
  <2>3. p = <<c>>
    BY <2>1, <2>2, ConcatEmptySeq
  <2> QED BY <1>3, <2>2, <2>3 DEF Plain
<1>4. CASE c \notin Printable /\ c \in DOMAIN Letters
  <2>1. p = <<Backslash, Letters[c]>>
    BY <1>4 DEF Piece, ToEscapedString, Printable
  <2>2. Letters[c] \in Printable
    BY <1>4, LettersAre DEF Printable
  <2> QED BY <1>1, <1>4, <2>1, <2>2 DEF Marked
<1>5. CASE c \notin Printable /\ c \notin DOMAIN Letters
  <2> DEFINE x == HexSign[c \div 16]
             y == HexSign[c % 16]
  <2>1. p = <<Backslash, 120, x, y>>
    <3>1. x = NumToHex(c \div 16) /\ y = NumToHex(c % 16)
      BY Nibbles DEF HexSign
    <3> HIDE DEF x, y
    <3> QED BY <1>5, <3>1 DEF Piece, ToEscapedString, CharToHex, Printable
  <2>2. x \in Printable /\ y \in Printable /\ 120 \in Printable
    <3>1. c \div 16 \in 0 .. 15 /\ c % 16 \in 0 .. 15
      BY Nibbles
    <3>2. x \in Printable /\ y \in Printable
      BY <3>1, HexSigns
    <3> QED BY <3>2 DEF Printable
  <2> HIDE DEF x, y, p
  <2>3. p \in Seq(Printable)
    BY <1>1, <2>1, <2>2
  <2>4. Len(p) = 4 /\ p[1] = Backslash /\ p[2] = 120 /\ p[3] = x /\ p[4] = y
    BY <2>1
  <2> QED BY <2>3, <2>4 DEF Hexed, x, y, p
<1> QED BY <1>1, <1>2, <1>3, <1>4, <1>5

(* No character's text begins another one's. *)
LEMMA PieceTells ==
  ASSUME NEW c \in 0 .. 255, NEW d \in 0 .. 255,
         \A j \in 1 .. 4 : j <= Len(Piece(c)) /\ j <= Len(Piece(d)) => Piece(c)[j] = Piece(d)[j]
  PROVE  c = d
<1> DEFINE p == Piece(c)
           q == Piece(d)
<1>1. /\ Plain(p, c) \/ Marked(p, c) \/ Hexed(p, c)
      /\ Plain(q, d) \/ Marked(q, d) \/ Hexed(q, d)
  BY PieceIs
<1>2. \A j \in 1 .. 4 : j <= Len(p) /\ j <= Len(q) => p[j] = q[j]
  OBVIOUS
<1> HIDE DEF p, q
<1>3. Backslash = 92 /\ Quote = 34
  BY DEF Backslash, Quote
<1>4. CASE Plain(p, c) /\ Plain(q, d)
  BY <1>2, <1>4 DEF Plain
<1>5. CASE Plain(p, c) /\ ~Plain(q, d)
  <2>1. p[1] = q[1] /\ q[1] = Backslash
    BY <1>1, <1>2, <1>5 DEF Plain, Marked, Hexed
  <2> QED BY <1>5, <2>1 DEF Plain
<1>6. CASE ~Plain(p, c) /\ Plain(q, d)
  <2>1. p[1] = q[1] /\ p[1] = Backslash
    BY <1>1, <1>2, <1>6 DEF Plain, Marked, Hexed
  <2> QED BY <1>6, <2>1 DEF Plain
<1>7. ASSUME Marked(p, c), Marked(q, d) PROVE c = d
  <2>1. p[2] = q[2]
    BY <1>2, <1>7 DEF Marked
  <2> QED BY <1>7, <2>1, LettersTell DEF Marked
<1>8. ASSUME Marked(p, c) PROVE p[2] # 120
  BY <1>3, <1>8, LettersTell DEF Marked
<1>9. ASSUME Marked(q, d) PROVE q[2] # 120
  BY <1>3, <1>9, LettersTell DEF Marked
<1>10. ASSUME Marked(p, c), Hexed(q, d) PROVE FALSE
  <2>1. p[2] = q[2]
    BY <1>2, <1>10 DEF Marked, Hexed
  <2> QED BY <1>8, <1>10, <2>1 DEF Hexed
<1>11. ASSUME Hexed(p, c), Marked(q, d) PROVE FALSE
  <2>1. p[2] = q[2]
    BY <1>2, <1>11 DEF Marked, Hexed
  <2> QED BY <1>9, <1>11, <2>1 DEF Hexed
<1>12. ASSUME Hexed(p, c), Hexed(q, d) PROVE c = d
  <2>1. p[3] = q[3] /\ p[4] = q[4]
    BY <1>2, <1>12 DEF Hexed
  <2>2. HexSign[c \div 16] = HexSign[d \div 16] /\ HexSign[c % 16] = HexSign[d % 16]
    BY <1>12, <2>1 DEF Hexed
  <2>3. /\ c \div 16 \in 0 .. 15 /\ c % 16 \in 0 .. 15 /\ c = 16 * (c \div 16) + (c % 16)
        /\ d \div 16 \in 0 .. 15 /\ d % 16 \in 0 .. 15 /\ d = 16 * (d \div 16) + (d % 16)
    BY Nibbles
  <2> DEFINE v == c \div 16
             w == d \div 16
             x == c % 16
             y == d % 16
  <2>4. v = w /\ x = y
    <3>1. /\ v \in 0 .. 15 /\ w \in 0 .. 15 /\ x \in 0 .. 15 /\ y \in 0 .. 15
          /\ HexSign[v] = HexSign[w] /\ HexSign[x] = HexSign[y]
      BY <2>2, <2>3
    <3> HIDE DEF v, w, x, y
    <3> QED BY <3>1, HexSigns
  <2> QED BY <2>3, <2>4
<1> QED BY <1>1, <1>4, <1>5, <1>6, <1>7, <1>10, <1>11, <1>12

(* Where a character's text begins outside an escape, it ends outside one,  *)
(* and the quotes in it are escaped.                                        *)
Put(T, a, c) ==
  /\ c \in 0 .. 255 /\ a \in Nat /\ ~Escaped(T, a + 1)
  /\ \A j \in 1 .. Len(Piece(c)) : T[a + j] = Piece(c)[j]

LEMMA PieceScanned ==
  ASSUME NEW T, NEW a, NEW c, Put(T, a, c)
  PROVE  /\ ~Escaped(T, a + Len(Piece(c)) + 1) /\ Len(Piece(c)) \in 1 .. 4
         /\ \A j \in 1 .. Len(Piece(c)) : T[a + j] = Quote => Escaped(T, a + j)
<1> DEFINE p == Piece(c)
           l == Len(p)
<1>1. /\ c \in 0 .. 255 /\ a \in Nat /\ ~Escaped(T, a + 1)
      /\ \A j \in 1 .. l : T[a + j] = p[j]
  BY DEF Put
<1>2. Plain(p, c) \/ Marked(p, c) \/ Hexed(p, c)
  BY <1>1, PieceIs
<1>3. Backslash = 92 /\ Quote = 34
  BY DEF Backslash, Quote
<1>4. /\ Escaped(T, a + 2) <=> T[a + 1] = Backslash /\ ~Escaped(T, a + 1)
      /\ Escaped(T, a + 3) <=> T[a + 2] = Backslash /\ ~Escaped(T, a + 2)
      /\ Escaped(T, a + 4) <=> T[a + 3] = Backslash /\ ~Escaped(T, a + 3)
      /\ Escaped(T, a + 5) <=> T[a + 4] = Backslash /\ ~Escaped(T, a + 4)
  <2>1. ASSUME NEW i \in Nat, NEW k \in Nat \ {0}, i = k + 1
        PROVE  Escaped(T, i) <=> T[k] = Backslash /\ ~Escaped(T, k)
    BY <2>1, EscapedStep
  <2>2. /\ a + 1 \in Nat \ {0} /\ a + 2 \in Nat \ {0} /\ a + 3 \in Nat \ {0} /\ a + 4 \in Nat \ {0}
        /\ a + 2 \in Nat /\ a + 3 \in Nat /\ a + 4 \in Nat /\ a + 5 \in Nat
        /\ a + 2 = (a + 1) + 1 /\ a + 3 = (a + 2) + 1 /\ a + 4 = (a + 3) + 1 /\ a + 5 = (a + 4) + 1
    BY <1>1
  <2>3. Escaped(T, a + 2) <=> T[a + 1] = Backslash /\ ~Escaped(T, a + 1)
    BY <2>1, <2>2
  <2>4. Escaped(T, a + 3) <=> T[a + 2] = Backslash /\ ~Escaped(T, a + 2)
    BY <2>1, <2>2
  <2>5. Escaped(T, a + 4) <=> T[a + 3] = Backslash /\ ~Escaped(T, a + 3)
    BY <2>1, <2>2
  <2>6. Escaped(T, a + 5) <=> T[a + 4] = Backslash /\ ~Escaped(T, a + 4)
    BY <2>1, <2>2
  <2> QED BY <2>3, <2>4, <2>5, <2>6
<1> HIDE DEF p
<1>5. CASE Plain(p, c)
  <2>1. l = 1 /\ T[a + 1] = c /\ c # Quote /\ c # Backslash
    BY <1>1, <1>5 DEF Plain
  <2>2. ~Escaped(T, a + 2)
    BY <1>4, <2>1
  <2>3. a + l + 1 = a + 2
    BY <1>1, <2>1
  <2>4. ASSUME NEW j \in 1 .. l PROVE T[a + j] # Quote
    <3>1. j = 1
      BY <2>1
    <3> QED BY <2>1, <3>1
  <2> QED BY <2>1, <2>2, <2>3, <2>4 DEF p
<1>6. CASE Marked(p, c)
  <2>1. l = 2 /\ T[a + 1] = Backslash
    BY <1>1, <1>6 DEF Marked
  <2>2. Escaped(T, a + 2) /\ ~Escaped(T, a + 3)
    BY <1>1, <1>4, <2>1
  <2>3. a + l + 1 = a + 3
    BY <1>1, <2>1
  <2>4. ASSUME NEW j \in 1 .. l, T[a + j] = Quote PROVE Escaped(T, a + j)
    <3>1. j = 1 \/ j = 2
      BY <2>1
    <3>2. j = 2
      BY <1>3, <2>1, <2>4, <3>1
    <3> QED BY <2>2, <3>2
  <2> QED BY <2>1, <2>2, <2>3, <2>4 DEF p
<1>7. CASE Hexed(p, c)
  <2>1. l = 4 /\ T[a + 1] = Backslash /\ T[a + 2] = 120 /\ T[a + 3] = p[3] /\ T[a + 4] = p[4]
    BY <1>1, <1>7 DEF Hexed
  <2>2. p[3] \notin {Quote, Backslash} /\ p[4] \notin {Quote, Backslash}
    <3>1. c \div 16 \in 0 .. 15 /\ c % 16 \in 0 .. 15
      BY <1>1, Nibbles
    <3> DEFINE v == c \div 16
               w == c % 16
    <3>2. p[3] = HexSign[v] /\ p[4] = HexSign[w]
      BY <1>7 DEF Hexed
    <3> HIDE DEF v, w
    <3>3. v \in 0 .. 15 /\ w \in 0 .. 15
      BY <3>1 DEF v, w
    <3> QED BY <3>2, <3>3, HexSigns
  <2>3. Escaped(T, a + 2) /\ ~Escaped(T, a + 3) /\ ~Escaped(T, a + 4) /\ ~Escaped(T, a + 5)
    BY <1>1, <1>3, <1>4, <2>1, <2>2
  <2>4. a + l + 1 = a + 5
    BY <1>1, <2>1
  <2>5. ASSUME NEW j \in 1 .. l PROVE T[a + j] # Quote
    <3>1. j = 1 \/ j = 2 \/ j = 3 \/ j = 4
      BY <2>1
    <3> QED BY <1>3, <2>1, <2>2, <3>1
  <2> QED BY <2>1, <2>3, <2>4, <2>5 DEF p
<1> QED BY <1>2, <1>5, <1>6, <1>7

-----------------------------------------------------------------------------
(* Where each of several texts is in what they make together. *)

Laid(C, seqs, m, off) ==
  /\ m \in Seq(C) /\ off[0] = 0 /\ off[Len(seqs)] = Len(m)
  /\ \A k \in 0 .. Len(seqs) : off[k] \in 0 .. Len(m)
  /\ \A k \in 1 .. Len(seqs) : /\ off[k] = off[k - 1] + Len(seqs[k])
                              /\ \A j \in 1 .. Len(seqs[k]) : m[off[k - 1] + j] = seqs[k][j]

(* What is made of the first k texts is where what is made of all begins.   *)
LEMMA GrowsInside ==
  ASSUME NEW C, NEW seqs \in Seq(Seq(C)), NEW n, NEW h, Grows(C, seqs, n, h)
  PROVE  \A k \in 1 .. n : /\ Len(h[k]) \in Nat /\ Len(h[k]) <= Len(h[n])
                           /\ \A j \in 1 .. Len(h[k]) : h[n][j] = h[k][j]
<1> DEFINE Q(k) == Len(h[k]) <= Len(h[n]) /\ \A j \in 1 .. Len(h[k]) : h[n][j] = h[k][j]
           G == {d \in Nat : d < n => Q(n - d)}
<1>1. /\ n \in Nat /\ n = Len(seqs) /\ \A i \in 1 .. n : h[i] \in Seq(C)
      /\ \A i \in 1 .. n - 1 : h[i + 1] = h[i] \o seqs[i + 1]
  BY DEF Grows
<1>2. \A i \in 1 .. n : Len(h[i]) \in Nat
  BY <1>1, LenProperties
<1>3. 0 \in G
  <2>1. n - 0 = n
    BY <1>1
  <2>2. ASSUME 0 < n PROVE Q(n)
    <3>1. n \in 1 .. n
      BY <1>1, <2>2
    <3> QED BY <1>2, <3>1
  <2> QED BY <2>1, <2>2
<1>4. ASSUME NEW d \in Nat, d \in G PROVE d + 1 \in G
  <2> SUFFICES ASSUME d + 1 < n PROVE Q(n - (d + 1))
    OBVIOUS
  <2> DEFINE k == n - (d + 1)
             x == h[k]
             y == seqs[k + 1]
             u == h[k + 1]
  <2>1. k \in 1 .. n - 1 /\ k \in 1 .. n /\ k + 1 \in 1 .. n /\ n - d = k + 1 /\ d < n
    BY <1>1
  <2>2. Q(k + 1)
    BY <1>4, <2>1
  <2> HIDE DEF k
  <2>3. u = x \o y /\ x \in Seq(C) /\ y \in Seq(C) /\ u \in Seq(C)
    BY <1>1, <2>1, ElementOfSeq
  <2>4. /\ Len(u) = Len(x) + Len(y) /\ Len(x) \in Nat /\ Len(y) \in Nat
        /\ \A i \in 1 .. Len(x) : u[i] = x[i]
    <3> HIDE DEF x, y, u
    <3> QED BY ONLY <2>3, Joined
  <2>5. Len(u) <= Len(h[n]) /\ \A j \in 1 .. Len(u) : h[n][j] = u[j]
    BY <2>2
  <2> HIDE DEF u, x
  <2>6. Len(x) <= Len(h[n])
    <3>1. Len(h[n]) \in Nat
      <4>1. n \in 1 .. n
        BY <1>1, <2>1
      <4> QED BY <1>2, <4>1
    <3> QED BY <2>4, <2>5, <3>1
  <2>7. ASSUME NEW j \in 1 .. Len(x) PROVE h[n][j] = x[j]
    <3>1. j \in 1 .. Len(u)
      BY <2>4
    <3> QED BY <2>4, <2>5, <3>1
  <2>8. Q(k)
    BY <2>6, <2>7 DEF x
  <2> QED BY <2>8 DEF k
<1>5. \A d \in Nat : d \in G
  <2> HIDE DEF G
  <2> QED BY <1>3, <1>4, NatInd
<1>6. ASSUME NEW k \in 1 .. n PROVE Q(k)
  <2> DEFINE d == n - k
  <2>1. d \in Nat /\ d < n /\ n - d = k
    BY <1>1
  <2> HIDE DEF d
  <2>2. d \in G
    BY <1>5, <2>1
  <2>3. Q(n - d)
    BY <2>1, <2>2
  <2> QED BY <2>1, <2>3
<1> QED BY <1>2, <1>6

LEMMA LaidOut ==
  ASSUME NEW C, NEW seqs \in Seq(Seq(C))
  PROVE  \E off : Laid(C, seqs, FlattenSeq(seqs), off)
<1> DEFINE n == Len(seqs)
           m == FlattenSeq(seqs)
<1>1. n \in Nat /\ \A k \in 1 .. n : seqs[k] \in Seq(C) /\ Len(seqs[k]) \in Nat
  BY LenProperties, ElementOfSeq
<1>2. CASE seqs = <<>>
  <2> DEFINE off == [k \in {0} |-> 0]
  <2>1. n = 0
    BY <1>2
  <2>2. m = <<>>
    BY <1>2, <2>1 DEF FlattenSeq
  <2>3. m \in Seq(C) /\ Len(m) = 0
    BY <2>2, EmptySeq
  <2>4. off[0] = 0
    OBVIOUS
  <2> HIDE DEF off, m
  <2>5. Laid(C, seqs, m, off)
    BY <2>1, <2>3, <2>4 DEF Laid, n
  <2> QED BY <2>5 DEF m
<1>3. CASE seqs # <<>>
  <2> DEFINE h == Flattened(seqs)
             off == [k \in 0 .. n |-> IF k = 0 THEN 0 ELSE Len(h[k])]
  <2>1. Grows(C, seqs, n, h) /\ m = h[n] /\ n >= 1
    BY <1>3, FlattenIs
  <2> HIDE DEF h, m
  <2>2. /\ \A i \in 1 .. n : h[i] \in Seq(C)
        /\ h[1] = seqs[1]
        /\ \A i \in 1 .. n - 1 : h[i + 1] = h[i] \o seqs[i + 1]
    BY <2>1 DEF Grows
  <2>3. \A k \in 1 .. n : /\ Len(h[k]) \in Nat /\ Len(h[k]) <= Len(h[n])
                          /\ \A j \in 1 .. Len(h[k]) : h[n][j] = h[k][j]
    BY <2>1, GrowsInside
  <2> HIDE DEF n
  <2>4. off[0] = 0 /\ \A k \in 1 .. n : off[k] = Len(h[k])
    BY <1>1
  <2> HIDE DEF off
  <2>5. n \in 1 .. n /\ m \in Seq(C) /\ off[n] = Len(m) /\ Len(m) \in Nat
    BY <1>1, <2>1, <2>2, <2>3, <2>4
  <2>6. ASSUME NEW k \in 0 .. n PROVE off[k] \in 0 .. Len(m)
    <3>1. CASE k = 0
      BY <2>4, <2>5, <3>1
    <3>2. CASE k # 0
      <4>1. k \in 1 .. n
        BY <1>1, <3>2
      <4> QED BY <2>1, <2>3, <2>4, <2>5, <4>1
    <3> QED BY <3>1, <3>2
  <2>7. ASSUME NEW k \in 1 .. n
        PROVE  /\ off[k] = off[k - 1] + Len(seqs[k])
               /\ \A j \in 1 .. Len(seqs[k]) : m[off[k - 1] + j] = seqs[k][j]
    <3>1. CASE k = 1
      <4>1. k - 1 = 0 /\ off[k - 1] = 0 /\ h[k] = seqs[k] /\ Len(seqs[k]) \in Nat
        BY <1>1, <2>2, <2>4, <3>1
      <4>2. \A j \in 1 .. Len(seqs[k]) : 0 + j = j
        BY <4>1
      <4>3. off[k] = Len(seqs[k]) /\ \A j \in 1 .. Len(seqs[k]) : m[j] = seqs[k][j]
        BY <2>1, <2>3, <2>4, <4>1
      <4> QED BY <4>1, <4>2, <4>3
    <3>2. CASE k # 1
      <4> DEFINE i == k - 1
                 x == h[i]
                 y == seqs[k]
                 u == h[k]
      <4>1. i \in 1 .. n - 1 /\ i \in 1 .. n /\ i + 1 = k
        BY <1>1, <3>2
      <4> HIDE DEF i
      <4>2. u = x \o y /\ x \in Seq(C) /\ y \in Seq(C)
        BY <1>1, <2>2, <4>1
      <4>3. off[i] = Len(x) /\ off[k] = Len(u)
        BY <2>4, <4>1
      <4>4. \A j \in 1 .. Len(u) : m[j] = u[j]
        BY <2>1, <2>3
      <4> HIDE DEF x, y, u
      <4>5. /\ Len(u) = Len(x) + Len(y) /\ Len(x) \in Nat /\ Len(y) \in Nat
            /\ \A j \in 1 .. Len(y) : u[Len(x) + j] = y[j]
        BY ONLY <4>2, Joined
      <4>6. ASSUME NEW j \in 1 .. Len(y) PROVE m[off[i] + j] = y[j]
        <5>1. off[i] + j = Len(x) + j /\ Len(x) + j \in 1 .. Len(u)
          BY <4>3, <4>5
        <5> QED BY <4>4, <4>5, <5>1
      <4>7. off[k] = off[i] + Len(y)
        BY <4>3, <4>5
      <4> QED BY <4>6, <4>7 DEF y, i
    <3> QED BY <3>1, <3>2
  <2>8. Laid(C, seqs, m, off)
    BY <2>4, <2>5, <2>6, <2>7 DEF Laid, n
  <2> QED BY <2>8 DEF m
<1> QED BY <1>2, <1>3

-----------------------------------------------------------------------------
(* The characters of a string, as they are written. *)

Pieces(s) == [k \in DOMAIN s |-> Piece(s[k])]

LEMMA PiecesAre ==
  ASSUME NEW s \in Seq(0 .. 255)
  PROVE  /\ Pieces(s) \in Seq(Seq(Printable)) /\ Len(Pieces(s)) = Len(s) /\ Len(s) \in Nat
         /\ \A k \in 1 .. Len(s) : s[k] \in 0 .. 255 /\ Pieces(s)[k] = Piece(s[k])
<1> DEFINE n == Len(s)
           V == Seq(Printable)
           F == Pieces(s)
           B == 0 .. 255
<1>1. n \in Nat /\ DOMAIN s = 1 .. n
  BY LenProperties
<1>2. \A k \in 1 .. n : s[k] \in B
  <2> HIDE DEF B
  <2>1. s \in Seq(B)
    BY DEF B
  <2> QED BY <2>1, ElementOfSeq
<1>3. \A k \in 1 .. n : F[k] = Piece(s[k])
  BY <1>1 DEF Pieces
<1>4. \A k \in 1 .. n : F[k] \in V
  BY <1>2, <1>3, PieceIs
<1>5. DOMAIN F = 1 .. n /\ F = [k \in 1 .. n |-> F[k]]
  BY <1>1 DEF Pieces
<1> HIDE DEF F, V, n
<1>6. F \in [1 .. n -> V]
  BY <1>4, <1>5
<1>7. F \in Seq(V)
  BY <1>1, <1>6
<1>8. Len(F) = n
  BY <1>1, <1>5, <1>7, LenProperties
<1> QED BY <1>1, <1>2, <1>3, <1>7, <1>8 DEF F, V, n

(* Two strings that are written alike are the same as far as both go, and   *)
(* so is where their characters are written.                                *)
LEMMA WrittenAlike ==
  ASSUME NEW s \in Seq(0 .. 255), NEW t \in Seq(0 .. 255), NEW m, NEW e, NEW f,
         Laid(Printable, Pieces(s), m, e), Laid(Printable, Pieces(t), m, f)
  PROVE  \A k \in Nat : k <= Len(s) /\ k <= Len(t) =>
           e[k] = f[k] /\ \A i \in 1 .. k : s[i] = t[i]
<1> DEFINE Q(k) == e[k] = f[k] /\ \A i \in 1 .. k : s[i] = t[i]
           G == {k \in Nat : k <= Len(s) /\ k <= Len(t) => Q(k)}
<1>1. /\ Len(s) \in Nat /\ Len(t) \in Nat
      /\ \A k \in 1 .. Len(s) : s[k] \in 0 .. 255 /\ Pieces(s)[k] = Piece(s[k])
      /\ \A k \in 1 .. Len(t) : t[k] \in 0 .. 255 /\ Pieces(t)[k] = Piece(t[k])
      /\ Len(Pieces(s)) = Len(s) /\ Len(Pieces(t)) = Len(t)
  BY PiecesAre
<1>2. /\ e[0] = 0 /\ \A k \in 0 .. Len(s) : e[k] \in 0 .. Len(m)
      /\ \A k \in 1 .. Len(s) : /\ e[k] = e[k - 1] + Len(Pieces(s)[k])
                                /\ \A j \in 1 .. Len(Pieces(s)[k]) :
                                     m[e[k - 1] + j] = Pieces(s)[k][j]
  BY <1>1 DEF Laid
<1>3. /\ f[0] = 0
      /\ \A k \in 1 .. Len(t) : /\ f[k] = f[k - 1] + Len(Pieces(t)[k])
                                /\ \A j \in 1 .. Len(Pieces(t)[k]) :
                                     m[f[k - 1] + j] = Pieces(t)[k][j]
  BY <1>1 DEF Laid
<1>4. 0 \in G
  BY <1>2, <1>3
<1>5. ASSUME NEW k \in Nat, k \in G PROVE k + 1 \in G
  <2> DEFINE l == k + 1
  <2>1. l \in Nat /\ l - 1 = k /\ l = k + 1
    OBVIOUS
  <2>2. k <= Len(s) /\ k <= Len(t) => Q(k)
    BY <1>5
  <2> HIDE DEF l
  <2> SUFFICES ASSUME l <= Len(s), l <= Len(t) PROVE Q(l)
    BY <2>1
  <2>3. l \in 1 .. Len(s) /\ l \in 1 .. Len(t) /\ k <= Len(s) /\ k <= Len(t)
    BY <1>1, <2>1
  <2>4. Q(k)
    BY <2>2, <2>3
  <2> DEFINE c == s[l]
             d == t[l]
             p == Piece(c)
             q == Piece(d)
             a == e[k]
  <2>5. /\ c \in 0 .. 255 /\ Pieces(s)[l] = p /\ d \in 0 .. 255 /\ Pieces(t)[l] = q
    BY <1>1, <2>3
  <2>6. /\ e[l] = a + Len(p) /\ \A j \in 1 .. Len(p) : m[a + j] = p[j]
        /\ f[l] = a + Len(q) /\ \A j \in 1 .. Len(q) : m[a + j] = q[j]
    <3>1. /\ e[l] = e[l - 1] + Len(p) /\ f[l] = f[l - 1] + Len(q)
          /\ \A j \in 1 .. Len(p) : m[e[l - 1] + j] = p[j]
          /\ \A j \in 1 .. Len(q) : m[f[l - 1] + j] = q[j]
      <4> HIDE DEF c, d, p, q
      <4> QED BY <1>2, <1>3, <2>3, <2>5
    <3>2. e[l - 1] = a /\ f[l - 1] = a
      BY <2>1, <2>4
    <3> HIDE DEF a, c, d, p, q
    <3> QED BY <3>1, <3>2
  <2>7. Len(p) \in Nat /\ Len(q) \in Nat
    <3>1. p \in Seq(Printable) /\ q \in Seq(Printable)
      BY <2>5, PieceIs
    <3> HIDE DEF p, q
    <3> QED BY <3>1, LenProperties
  <2>8. ASSUME NEW j \in 1 .. 4, j <= Len(p) /\ j <= Len(q) PROVE p[j] = q[j]
    <3>1. j \in 1 .. Len(p) /\ j \in 1 .. Len(q)
      BY <2>7, <2>8
    <3> QED BY <2>6, <3>1
  <2>9. c = d
    <3> HIDE DEF c, d
    <3> QED BY <2>5, <2>8, PieceTells
  <2>10. e[l] = f[l]
    BY <2>6, <2>9
  <2>11. ASSUME NEW i \in 1 .. l PROVE s[i] = t[i]
    <3>1. CASE i = l
      BY <2>9, <3>1
    <3>2. CASE i # l
      <4>1. i \in 1 .. k
        BY <2>1, <3>2
      <4> QED BY <2>4, <4>1
    <3> QED BY <3>1, <3>2
  <2> QED BY <2>10, <2>11
<1>6. \A k \in Nat : k \in G
  <2> HIDE DEF G
  <2> QED BY <1>4, <1>5, NatInd
<1> QED BY <1>6

(* So none of them is longer than the other.                                *)
LEMMA NotLonger ==
  ASSUME NEW s \in Seq(0 .. 255), NEW t \in Seq(0 .. 255), NEW m, NEW e, NEW f,
         Laid(Printable, Pieces(s), m, e), Laid(Printable, Pieces(t), m, f)
  PROVE  ~(Len(s) < Len(t))
<1> SUFFICES ASSUME Len(s) < Len(t) PROVE FALSE
  OBVIOUS
<1> DEFINE k == Len(s)
           l == k + 1
           p == Piece(t[l])
<1>1. /\ k \in Nat /\ Len(t) \in Nat /\ Len(Pieces(s)) = k /\ Len(Pieces(t)) = Len(t)
      /\ \A i \in 1 .. Len(t) : t[i] \in 0 .. 255 /\ Pieces(t)[i] = Piece(t[i])
  BY PiecesAre
<1>2. e[k] = Len(m) /\ Len(m) \in Nat
  BY <1>1, LenProperties DEF Laid
<1>3. e[k] = f[k]
  BY <1>1, WrittenAlike
<1>4. l \in 1 .. Len(t) /\ l - 1 = k /\ l \in 0 .. Len(t)
  BY <1>1
<1>5. f[l] = f[l - 1] + Len(Pieces(t)[l]) /\ f[l] \in 0 .. Len(m)
  BY <1>1, <1>4 DEF Laid
<1>6. Pieces(t)[l] = p /\ Len(p) >= 1 /\ Len(p) \in Nat
  <2>1. t[l] \in 0 .. 255 /\ Pieces(t)[l] = p
    BY <1>1, <1>4
  <2>2. Plain(p, t[l]) \/ Marked(p, t[l]) \/ Hexed(p, t[l])
    BY <2>1, PieceIs
  <2>3. Len(p) \in {1, 2, 4}
    BY <2>2 DEF Plain, Marked, Hexed
  <2>4. \A x \in {1, 2, 4} : x >= 1 /\ x \in Nat
    OBVIOUS
  <2> QED BY <2>1, <2>3, <2>4
<1>7. f[l] = Len(m) + Len(p)
  BY <1>2, <1>3, <1>4, <1>5, <1>6
<1> HIDE DEF p, l
<1> QED BY <1>2, <1>5, <1>6, <1>7

(* A string that is quoted: its pieces between two quotes. *)
Quoted(s, m, T) ==
  /\ s \in Seq(0 .. 255) /\ m = FlattenSeq(Pieces(s))
  /\ T = (<<Quote>> \o m) \o <<Quote>>

LEMMA QuotedIs ==
  ASSUME NEW s, NEW m, NEW T, Quoted(s, m, T)
  PROVE  /\ m \in Seq(Printable) /\ T \in Seq(Printable) /\ Len(T) = Len(m) + 2 /\ Len(m) \in Nat
         /\ T[1] = Quote /\ T[Len(m) + 2] = Quote
         /\ \A j \in 1 .. Len(m) : T[1 + j] = m[j]
         /\ \E e : Laid(Printable, Pieces(s), m, e)
<1> DEFINE p == <<Quote>>
           w == p \o m
           l == Len(m)
<1>1. p \in Seq(Printable) /\ Len(p) = 1 /\ p[1] = Quote
  BY DEF Quote, Printable
<1>2. \E e : Laid(Printable, Pieces(s), m, e)
  <2>1. Pieces(s) \in Seq(Seq(Printable)) /\ m = FlattenSeq(Pieces(s))
    BY PiecesAre DEF Quoted
  <2> QED BY <2>1, LaidOut
<1>3. m \in Seq(Printable)
  BY <1>2 DEF Laid
<1>4. T = w \o p
  BY DEF Quoted
<1> HIDE DEF p
<1>5. /\ w \in Seq(Printable) /\ Len(w) = Len(p) + l /\ l \in Nat
      /\ \A i \in 1 .. Len(p) : w[i] = p[i]
      /\ \A i \in 1 .. l : w[Len(p) + i] = m[i]
  <2>1. p \in Seq(Printable) /\ m \in Seq(Printable)
    BY <1>1, <1>3
  <2> QED BY ONLY <2>1, Joined DEF w, l
<1> HIDE DEF w
<1>6. /\ T \in Seq(Printable) /\ Len(T) = Len(w) + Len(p)
      /\ \A i \in 1 .. Len(w) : T[i] = w[i]
      /\ \A i \in 1 .. Len(p) : T[Len(w) + i] = p[i]
  <2>1. p \in Seq(Printable) /\ w \in Seq(Printable)
    BY <1>1, <1>5
  <2> QED BY ONLY <2>1, <1>4, Joined
<1> HIDE DEF l
<1>7. Len(w) = l + 1 /\ Len(T) = l + 2 /\ w[1] = Quote /\ \A i \in 1 .. l : w[1 + i] = m[i]
  BY <1>1, <1>5, <1>6
<1>8. T[1] = Quote /\ T[l + 2] = Quote
  <2>1. 1 \in 1 .. Len(w) /\ 1 \in 1 .. Len(p) /\ Len(w) + 1 = l + 2
    BY <1>1, <1>5, <1>7
  <2> QED BY <1>1, <1>6, <1>7, <2>1
<1>9. ASSUME NEW j \in 1 .. l PROVE T[1 + j] = m[j]
  <2>1. 1 + j \in 1 .. Len(w)
    BY <1>5, <1>7
  <2> QED BY <1>6, <1>7, <2>1
<1> QED BY <1>2, <1>3, <1>5, <1>6, <1>7, <1>8, <1>9 DEF l

(* Only the last quote is not escaped, but for the first one. *)
LEMMA QuotesEscaped ==
  ASSUME NEW s, NEW m, NEW T, Quoted(s, m, T)
  PROVE  /\ ~Escaped(T, Len(m) + 2)
         /\ \A i \in 2 .. Len(m) + 1 : T[i] = Quote => Escaped(T, i)
<1>1. /\ m \in Seq(Printable) /\ Len(m) \in Nat /\ T[1] = Quote
      /\ \A j \in 1 .. Len(m) : T[1 + j] = m[j]
  BY QuotedIs
<1>2. PICK e : Laid(Printable, Pieces(s), m, e)
  BY QuotedIs
<1> DEFINE n == Len(s)
<1>3. /\ n \in Nat /\ Len(Pieces(s)) = n
      /\ \A k \in 1 .. n : s[k] \in 0 .. 255 /\ Pieces(s)[k] = Piece(s[k])
  BY PiecesAre DEF Quoted
<1>4. /\ e[0] = 0 /\ e[n] = Len(m) /\ \A k \in 0 .. n : e[k] \in 0 .. Len(m)
      /\ \A k \in 1 .. n : /\ e[k] = e[k - 1] + Len(Pieces(s)[k])
                           /\ \A j \in 1 .. Len(Pieces(s)[k]) : m[e[k - 1] + j] = Pieces(s)[k][j]
  BY <1>2, <1>3 DEF Laid
<1> HIDE DEF n
<1> DEFINE Q(k) == /\ ~Escaped(T, e[k] + 2)
                   /\ \A j \in 1 .. e[k] : T[1 + j] = Quote => Escaped(T, 1 + j)
           G == {k \in Nat : k <= n => Q(k)}
<1>5. 0 \in G
  <2>1. Escaped(T, 1 + 1) <=> T[1] = Backslash /\ ~Escaped(T, 1)
    <3> DEFINE i == 1
    <3>1. i \in Nat \ {0}
      OBVIOUS
    <3> HIDE DEF i
    <3>2. Escaped(T, i + 1) <=> T[i] = Backslash /\ ~Escaped(T, i)
      BY <3>1, EscapedStep
    <3> QED BY <3>2 DEF i
  <2>2. Quote # Backslash
    BY DEF Quote, Backslash
  <2>3. 1 + 1 = 2 /\ e[0] + 2 = 2
    BY <1>4
  <2>4. ~Escaped(T, e[0] + 2)
    BY <1>1, <2>1, <2>2, <2>3
  <2>5. \A j \in 1 .. e[0] : FALSE
    BY <1>4
  <2> QED BY <2>4, <2>5
<1>6. ASSUME NEW k \in Nat, k \in G PROVE k + 1 \in G
  <2> DEFINE l == k + 1
  <2>1. l \in Nat /\ l - 1 = k /\ l = k + 1
    OBVIOUS
  <2>2. k <= n => Q(k)
    BY <1>6
  <2> HIDE DEF l
  <2> SUFFICES ASSUME l <= n PROVE Q(l)
    BY <2>1
  <2>3. l \in 1 .. n /\ k \in 0 .. n /\ k <= n /\ l \in 0 .. n
    BY <1>3, <2>1
  <2>4. ~Escaped(T, e[k] + 2) /\ \A j \in 1 .. e[k] : T[1 + j] = Quote => Escaped(T, 1 + j)
    BY <2>2, <2>3
  <2> DEFINE c == s[l]
             p == Piece(c)
             a == e[k] + 1
  <2>5. c \in 0 .. 255 /\ Pieces(s)[l] = p
    BY <1>3, <2>3
  <2>6. e[k] \in Nat /\ e[l] \in Nat /\ e[l] <= Len(m) /\ a \in Nat /\ a + 1 = e[k] + 2
    BY <1>4, <2>3
  <2>7. e[l] = e[k] + Len(p) /\ \A j \in 1 .. Len(p) : m[e[k] + j] = p[j]
    BY <1>4, <2>1, <2>3, <2>5
  <2>8. Len(p) \in Nat
    <3>1. p \in Seq(Printable)
      BY <2>5, PieceIs
    <3> HIDE DEF p
    <3> QED BY <3>1, LenProperties
  <2>9. ASSUME NEW j \in 1 .. Len(p) PROVE T[a + j] = p[j]
    <3> HIDE DEF p
    <3> DEFINE x == e[k]
               y == Len(p)
    <3>0. x \in Nat /\ y \in Nat /\ x + y <= Len(m) /\ Len(m) \in Nat /\ j \in 1 .. y
      BY <1>1, <2>6, <2>7, <2>8
    <3>1. e[k] + j \in 1 .. Len(m) /\ a + j = 1 + (e[k] + j)
      <4> HIDE DEF x, y
      <4>1. x + j \in 1 .. Len(m) /\ x + 1 + j = 1 + (x + j)
        BY ONLY <3>0
      <4> QED BY <4>1 DEF x
    <3>2. T[1 + (e[k] + j)] = m[e[k] + j]
      BY <1>1, <3>1
    <3> QED BY <2>7, <3>1, <3>2
  <2>10. Put(T, a, c)
    BY <2>4, <2>5, <2>6, <2>9 DEF Put
  <2>11. /\ ~Escaped(T, a + Len(p) + 1)
         /\ \A j \in 1 .. Len(p) : T[a + j] = Quote => Escaped(T, a + j)
    <3> HIDE DEF a, c
    <3> QED BY <2>10, PieceScanned
  <2>12. a + Len(p) + 1 = e[l] + 2
    BY <2>6, <2>7, <2>8, SMTT(20)
  <2>13. ASSUME NEW j \in 1 .. e[l], T[1 + j] = Quote PROVE Escaped(T, 1 + j)
    <3>1. CASE j <= e[k]
      BY <2>4, <2>6, <2>13, <3>1
    <3>2. CASE ~(j <= e[k])
      <4> DEFINE i == j - e[k]
      <4>1. i \in 1 .. Len(p) /\ 1 + j = a + i
        <5> DEFINE x == e[k]
                   y == Len(p)
        <5>1. x \in Nat /\ y \in Nat /\ j \in 1 .. x + y /\ ~(j <= x)
          BY <2>6, <2>7, <2>8, <3>2
        <5> HIDE DEF x, y
        <5>2. j - x \in 1 .. y /\ 1 + j = x + 1 + (j - x)
          BY ONLY <5>1
        <5> QED BY <5>2 DEF x, y
      <4> HIDE DEF i
      <4> QED BY <2>11, <2>13, <4>1
    <3> QED BY <3>1, <3>2
  <2> QED BY <2>11, <2>12, <2>13
<1>7. \A k \in Nat : k \in G
  <2> HIDE DEF G
  <2> QED BY <1>5, <1>6, NatInd
<1>8. Q(n)
  BY <1>3, <1>7
<1>9. ASSUME NEW i \in 2 .. Len(m) + 1, T[i] = Quote PROVE Escaped(T, i)
  <2> DEFINE j == i - 1
  <2>1. j \in 1 .. e[n] /\ 1 + j = i
    BY <1>1, <1>4
  <2> HIDE DEF j
  <2> QED BY <1>8, <1>9, <2>1
<1> QED BY <1>4, <1>8, <1>9

(* Two strings that are quoted in the same way are the same. *)
LEMMA QuotedOnce ==
  ASSUME NEW s, NEW m, NEW t, NEW l, NEW T, Quoted(s, m, T), Quoted(t, l, T)
  PROVE  s = t
<1>1. s \in Seq(0 .. 255) /\ t \in Seq(0 .. 255)
  BY DEF Quoted
<1>2. m = l
  <2>1. /\ m \in Seq(Printable) /\ Len(T) = Len(m) + 2 /\ Len(m) \in Nat
        /\ \A j \in 1 .. Len(m) : T[1 + j] = m[j]
    BY QuotedIs
  <2>2. /\ l \in Seq(Printable) /\ Len(T) = Len(l) + 2 /\ Len(l) \in Nat
        /\ \A j \in 1 .. Len(l) : T[1 + j] = l[j]
    BY QuotedIs
  <2>3. Len(m) = Len(l)
    BY <2>1, <2>2
  <2> QED BY <2>1, <2>2, <2>3, SeqEqual
<1>3. PICK e : Laid(Printable, Pieces(s), m, e)
  BY QuotedIs
<1>4. PICK f : Laid(Printable, Pieces(t), m, f)
  BY <1>2, QuotedIs
<1>5. ~(Len(s) < Len(t)) /\ ~(Len(t) < Len(s)) /\ Len(s) \in Nat /\ Len(t) \in Nat
  BY <1>1, <1>3, <1>4, NotLonger, PiecesAre
<1>6. Len(s) = Len(t)
  BY <1>5
<1>7. \A k \in Nat : k <= Len(s) /\ k <= Len(t) => \A i \in 1 .. k : s[i] = t[i]
  BY <1>1, <1>3, <1>4, WrittenAlike
<1>8. \A i \in 1 .. Len(s) : s[i] = t[i]
  BY <1>5, <1>6, <1>7
<1> QED BY <1>1, <1>6, <1>8, SeqEqual

(* A quoted string, of any length and any bytes, consists of printable      *)
(* characters, ends at its first quote that is not escaped, and no other    *)
(* string is quoted in the same way (format.h:70-120).                      *)
THEOREM QuotesRead == Spec => []EscapesReadBack
<1>1. ASSUME Formatted PROVE EscapesReadBack
  <2> SUFFICES ASSUME call.name = "quote" PROVE EscapesReadBack
    BY DEF EscapesReadBack
  <2>1. PICK s \in Strings : call.args = <<s>> /\ out = ToDoubleQuotedString(s)
    BY <1>1 DEF Formatted
  <2>2. call.args[1] = s
    BY <2>1
  <2>3. ASSUME NEW r \in Strings PROVE Quoted(r, FlattenSeq(Pieces(r)), ToDoubleQuotedString(r))
    <3>1. r \in Seq(0 .. 255)
      BY FormatsAssumption
    <3> QED BY <3>1 DEF Quoted, ToDoubleQuotedString, Pieces, Piece
  <2> DEFINE m == FlattenSeq(Pieces(s))
  <2>4. Quoted(s, m, out)
    BY <2>1, <2>3
  <2> HIDE DEF m
  <2>5. /\ out \in Seq(Printable) /\ Len(out) = Len(m) + 2 /\ Len(m) \in Nat
        /\ out[Len(m) + 2] = Quote
    BY <2>4, QuotedIs
  <2>6. /\ ~Escaped(out, Len(m) + 2)
        /\ \A i \in 2 .. Len(m) + 1 : out[i] = Quote => Escaped(out, i)
    BY <2>4, QuotesEscaped
  <2>7. ToSet(out) \subseteq 32 .. 126
    <3>1. \A i \in DOMAIN out : out[i] \in Printable
      BY <2>5, ElementOfSeq, LenProperties
    <3> QED BY <3>1 DEF ToSet, Printable
  <2>8. {i \in 2 .. Len(out) : out[i] = Quote /\ ~Escaped(out, i)} = {Len(out)}
    <3> DEFINE n == Len(out)
    <3>1. n = Len(m) + 2 /\ n \in 2 .. n /\ \A i \in 2 .. n : i = n \/ i \in 2 .. Len(m) + 1
      BY <2>5
    <3> HIDE DEF n
    <3>2. {i \in 2 .. n : out[i] = Quote /\ ~Escaped(out, i)} = {n}
      BY <2>5, <2>6, <3>1
    <3> QED BY <3>2 DEF n
  <2>9. ASSUME NEW r \in Strings PROVE QuotedStrings[r] = out <=> r = s
    <3>1. QuotedStrings[r] = ToDoubleQuotedString(r)
      BY DEF QuotedStrings
    <3>2. ASSUME QuotedStrings[r] = out PROVE r = s
      BY <2>3, <2>4, <3>1, <3>2, QuotedOnce
    <3> QED BY <2>1, <3>1, <3>2
  <2> QED BY <2>2, <2>7, <2>8, <2>9 DEF EscapesReadBack
<1> QED BY <1>1, FormattedAlways, PTL

-----------------------------------------------------------------------------
(* Sizes: how often they are divided, and to how many hundredths. *)

SizeScale(n, e) == Scale(UnitOf(n, e) - e)

(* A size that has a unit. *)
Sized(n, e) ==
  /\ n \in Nat /\ n < 1073741824 /\ e \in 0 .. 5
  /\ e > 0 => n > 0
  /\ e = 4 => n <= 16777216
  /\ e = 5 => n <= 16384
  /\ ~(e = 0 /\ n < 1024)

Scales == {1, 1024, 1048576}

(* c is what one of the units u is, of those that n is given in. *)
FitsUnit(n, u, c) ==
  /\ u \in 1 .. 5 /\ c \in Scales /\ c <= n
  /\ u < 5 => n \div 1024 < c
  /\ n \div c \in Nat /\ n \div c >= 1 /\ n \div c <= 16384

LEMMA UnitIs ==
  ASSUME NEW n, NEW e, Sized(n, e)
  PROVE  FitsUnit(n, UnitOf(n, e), SizeScale(n, e))
<1>1. /\ n \in Nat /\ n < 1073741824 /\ e \in 0 .. 5 /\ (e > 0 => n > 0)
      /\ (e = 4 => n <= 16777216) /\ (e = 5 => n <= 16384) /\ ~(e = 0 /\ n < 1024)
  BY DEF Sized
<1> DEFINE D == {k \in 0 .. 2 : k = 0 \/ Scale(k) <= n}
           m == IF n < 1024 THEN 0 ELSE IF n < 1048576 THEN 1 ELSE 2
           f == 5
           u == IF f <= e + m THEN f ELSE e + m
<1>2. Scale(0) = 1 /\ Scale(1) = 1024 /\ Scale(2) = 1048576
  BY DEF Scale
<1>3. \A k \in 0 .. 2 : k = 0 \/ k = 1 \/ k = 2
  OBVIOUS
<1>4. m \in D /\ \A k \in D : k <= m
  <2>1. CASE n < 1024
    <3>1. \A k \in D : k = 0
      BY <1>1, <1>2, <1>3, <2>1
    <3> QED BY <2>1, <3>1
  <2>2. CASE ~(n < 1024) /\ n < 1048576
    <3>1. \A k \in D : k = 0 \/ k = 1
      BY <1>1, <1>2, <1>3, <2>2
    <3>2. 1 \in D
      BY <1>1, <1>2, <2>2
    <3> QED BY <2>2, <3>1, <3>2
  <2>3. CASE ~(n < 1048576)
    <3>1. 2 \in D
      BY <1>1, <1>2, <2>3
    <3> QED BY <1>1, <1>3, <2>3, <3>1
  <2> QED BY <1>1, <2>1, <2>2, <2>3
<1>5. D \in SUBSET Int
  OBVIOUS
<1>6. UnitOf(n, e) = Min({f, e + Max(D)})
  BY DEF UnitOf, SizePB
<1> HIDE DEF D
<1>7. Max(D) = m
  BY <1>4, <1>5, MaxIs
<1>8. m \in 0 .. 2
  OBVIOUS
<1>9. UnitOf(n, e) = u
  <2> DEFINE g == e + m
  <2>1. f \in Int /\ g \in Int
    BY <1>1, <1>8
  <2> HIDE DEF f, g
  <2>2. Min({f, g}) = IF f <= g THEN f ELSE g
    BY <2>1, MinPair
  <2> QED BY <1>6, <1>7, <2>2 DEF g
<1>10. CASE n < 1024
  <2>1. u = e /\ u - e = 0 /\ u \in 1 .. 5 /\ n >= 1
    BY <1>1, <1>10
  <2>2. SizeScale(n, e) = 1
    BY <1>2, <1>9, <2>1 DEF SizeScale
  <2>3. n \div 1 = n /\ n \div 1024 < 1
    BY <1>1, <1>10
  <2>4. FitsUnit(n, u, 1)
    <3> HIDE DEF m, u, f
    <3> QED BY <1>1, <1>10, <2>1, <2>3 DEF FitsUnit, Scales
  <2> QED BY <1>9, <2>2, <2>4
<1>11. CASE ~(n < 1024) /\ e = 5
  <2>1. u = 5 /\ u - e = 0
    BY <1>1, <1>8, <1>11
  <2>2. SizeScale(n, e) = 1
    BY <1>2, <1>9, <2>1 DEF SizeScale
  <2>3. n \div 1 = n /\ n <= 16384
    BY <1>1, <1>11
  <2>4. FitsUnit(n, u, 1)
    <3> HIDE DEF m, u, f
    <3> QED BY <1>1, <1>11, <2>1, <2>3 DEF FitsUnit, Scales
  <2> QED BY <1>9, <2>2, <2>4
<1>12. CASE ~(n < 1024) /\ e # 5 /\ (n < 1048576 \/ e = 4)
  <2>1. u = e + 1 /\ u - e = 1 /\ u \in 1 .. 5
    BY <1>1, <1>12
  <2>2. SizeScale(n, e) = 1024
    BY <1>2, <1>9, <2>1 DEF SizeScale
  <2>3. n \div 1024 \in Nat /\ n \div 1024 >= 1 /\ n \div 1024 <= 16384 /\ (e # 4 => n \div 1024 < 1024)
    BY <1>1, <1>12
  <2>4. FitsUnit(n, u, 1024)
    <3> HIDE DEF m, u, f
    <3> QED BY <1>1, <1>12, <2>1, <2>3 DEF FitsUnit, Scales
  <2> QED BY <1>9, <2>2, <2>4
<1>13. CASE ~(n < 1048576) /\ e # 4 /\ e # 5
  <2>1. u = e + 2 /\ u - e = 2 /\ u \in 1 .. 5
    BY <1>1, <1>13
  <2>2. SizeScale(n, e) = 1048576
    BY <1>2, <1>9, <2>1 DEF SizeScale
  <2>3. n \div 1048576 \in Nat /\ n \div 1048576 >= 1 /\ n \div 1048576 < 1024 /\ n \div 1024 < 1048576
    BY <1>1, <1>13
  <2>4. FitsUnit(n, u, 1048576)
    <3> HIDE DEF m, u, f
    <3> QED BY <1>1, <1>13, <2>1, <2>3 DEF FitsUnit, Scales
  <2> QED BY <1>9, <2>2, <2>4
<1> DEFINE A == n < 1024
           B == n < 1048576
           F == e = 4
           G == e = 5
<1>14. A => B
  BY <1>1
<1>15. A \/ (~A /\ G) \/ (~A /\ ~G /\ (B \/ F)) \/ (~B /\ ~F /\ ~G)
  <2> HIDE DEF A, B, F, G
  <2> QED BY <1>14
<1> HIDE DEF m, u, f
<1> QED BY ONLY <1>10, <1>11, <1>12, <1>13, <1>15

(* What is shown at most is the number in hundredths, up or down. *)
LEMMA CentsAre ==
  ASSUME NEW n \in Nat, NEW c \in Scales
  PROVE  /\ n \div c \in Nat /\ (100 * (n % c)) \div c \in 0 .. 99
         /\ \E up \in {0, 1} :
              Hundredths(n, c) = 100 * (n \div c) + (100 * (n % c)) \div c + up
         /\ ((n % c) * 100) \div c = (100 * (n % c)) \div c
         /\ ((n % c) * 10) \div c = ((100 * (n % c)) \div c) \div 10
         /\ ((n % c) * 1) \div c = 0
<1> DEFINE x == n % c
           down == (100 * x) \div c
           rest == (100 * x) % c
           up == 2 * rest > c \/ (2 * rest = c /\ ((down % 2) = 1))
           one == IF up THEN 1 ELSE 0
<1>1. x \in Nat /\ x < c /\ n \div c \in Nat
  <2>1. CASE c = 1
    BY <2>1
  <2>2. CASE c = 1024
    BY <2>2
  <2>3. CASE c = 1048576
    BY <2>3
  <2> QED BY <2>1, <2>2, <2>3 DEF Scales
<1> HIDE DEF x
<1>2. down \in 0 .. 99 /\ (x * 100) \div c = down /\ (x * 10) \div c = down \div 10 /\ (x * 1) \div c = 0
  <2>1. CASE c = 1
    BY <1>1, <2>1
  <2>2. CASE c = 1024
    BY <1>1, <2>2
  <2>3. CASE c = 1048576
    BY <1>1, <2>3
  <2> QED BY <2>1, <2>2, <2>3 DEF Scales
<1>3. Hundredths(n, c) = 100 * (n \div c) + down + one
  BY DEF Hundredths, x
<1>4. one \in {0, 1}
  OBVIOUS
<1> HIDE DEF down, one
<1> QED BY <1>1, <1>2, <1>3, <1>4 DEF down, x

-----------------------------------------------------------------------------
(* Digits, one behind the other. *)

LEMMA TenfoldDivision ==
  ASSUME NEW z \in Nat, NEW d \in 0 .. 9, NEW b \in Nat \ {0}
  PROVE  (10 * z + d) \div (10 * b) = z \div b
<1> DEFINE q == z \div b
           r == z % b
           c == 10 * b
           x == 10 * z + d
           p == x \div c
           s == x % c
           t == 10 * r + d
<1>1. q \in Int /\ r \in 0 .. b - 1 /\ z = q * b + r
  BY DivisionLaw
<1>2. c \in Nat \ {0} /\ x \in Int
  OBVIOUS
<1>3. p \in Int /\ s \in 0 .. c - 1 /\ x = p * c + s
  <2> HIDE DEF c, x
  <2> QED BY <1>2, DivisionLaw
<1> HIDE DEF q, r, p, s
<1>4. t \in Int /\ 0 <= t /\ t < c
  BY <1>1
<1>5. x = q * c + t
  <2>1. q * (10 * b) = 10 * (q * b)
    BY <1>1
  <2> QED BY <1>1, <2>1
<1>6. p = q
  <2> HIDE DEF c, t, x
  <2>1. /\ q \in Int /\ t \in Int /\ p \in Int /\ s \in Int /\ c \in Nat \ {0}
        /\ q * c + t = p * c + s /\ 0 <= t /\ t < c /\ 0 <= s /\ s < c
    BY <1>1, <1>2, <1>3, <1>4, <1>5
  <2> QED BY <2>1, QuotientUnique
<1> QED BY <1>6 DEF p, q, x, c

(* The digits of a number with one more digit. *)
LEMMA OneDigitMore ==
  ASSUME NEW z \in Nat, NEW d \in 0 .. 9, NEW k \in Nat
  PROVE  /\ \A i \in 1 .. k : LowDigits(10 * z + d, k + 1)[i] = LowDigits(z, k)[i]
         /\ LowDigits(10 * z + d, k + 1)[k + 1] = Zero + d
<1> DEFINE y == 10 * z + d
           l == k + 1
<1>1. y \in Nat /\ l \in Nat /\ l - l = 0
  OBVIOUS
<1>2. /\ \A i \in 1 .. k : LowDigits(z, k)[i] = Zero + ((z \div Ten[k - i]) % 10)
      /\ \A i \in 1 .. l : LowDigits(y, l)[i] = Zero + ((y \div Ten[l - i]) % 10)
  <2> HIDE DEF y, l
  <2> QED BY <1>1, LowDigitsAre
<1>3. ASSUME NEW i \in 1 .. k PROVE LowDigits(y, l)[i] = LowDigits(z, k)[i]
  <2> DEFINE j == k - i
             b == Ten[j]
  <2>1. j \in Nat /\ l - i = j + 1 /\ i \in 1 .. l
    OBVIOUS
  <2> HIDE DEF j
  <2>2. b \in Nat \ {0} /\ Ten[j + 1] = 10 * b
    BY <2>1, TenIs
  <2> HIDE DEF b
  <2>3. (10 * z + d) \div (10 * b) = z \div b
    BY <2>2, TenfoldDivision
  <2>4. y \div Ten[l - i] = z \div Ten[k - i]
    BY <2>1, <2>2, <2>3 DEF j, b
  <2> HIDE DEF y, l
  <2> QED BY <1>2, <2>1, <2>4
<1>4. LowDigits(y, l)[l] = Zero + d
  <2>1. l \in 1 .. l /\ Ten[l - l] = 1
    BY <1>1, TenIs
  <2>2. y \div 1 = y /\ (y % 10) = d
    OBVIOUS
  <2> HIDE DEF y, l
  <2> QED BY <1>2, <2>1, <2>2
<1> QED BY <1>3, <1>4

(* A number with all its digits. *)
Whole(w, z, k) ==
  /\ z \in Nat /\ k \in Nat \ {0} /\ z < Ten[k] /\ w \in Seq(Int) /\ Len(w) = k
  /\ \A i \in 1 .. k : w[i] = LowDigits(z, k)[i]

LEMMA WholeReads ==
  ASSUME NEW w, NEW z, NEW k, Whole(w, z, k)
  PROVE  Reference!Numbers(w) = {z} /\ w \in Seq(Int)
         /\ \A i \in 1 .. k : w[i] \in 48 .. 57
<1> DEFINE d == LowDigits(z, k)
<1>1. /\ z \in Nat /\ k \in Nat \ {0} /\ z < Ten[k] /\ w \in Seq(Int) /\ Len(w) = k
      /\ \A i \in 1 .. k : w[i] = d[i]
  BY DEF Whole
<1>2. d \in Seq(48 .. 57) /\ Len(d) = k /\ Horner(d) = z % Ten[k]
  BY <1>1, LowDigitsAre
<1> HIDE DEF d
<1>3. \A i \in 1 .. k : d[i] \in 48 .. 57
  <2> DEFINE C == 48 .. 57
  <2>1. d \in Seq(C)
    BY <1>2
  <2> HIDE DEF C
  <2>2. \A i \in 1 .. Len(d) : d[i] \in C
    BY <2>1, ElementOfSeq
  <2> QED BY <1>2, <2>2 DEF C
<1>4. d \in Seq(Int)
  <2> DEFINE C == 48 .. 57
  <2>1. d \in Seq(C) /\ C \subseteq Int
    BY <1>2
  <2> HIDE DEF C
  <2> QED BY <2>1, SeqMonotonic
<1>5. w = d
  BY <1>1, <1>2, <1>4, SeqEqual
<1>6. z % Ten[k] = z
  <2> DEFINE t == Ten[k]
  <2>1. t \in Nat \ {0} /\ z < t
    BY <1>1, TenIs
  <2> HIDE DEF t
  <2>2. z % t = z
    BY <1>1, <2>1, SmallRemainder
  <2> QED BY <2>2 DEF t
<1>7. Reference!Numbers(d) = {Horner(d)}
  BY <1>1, <1>2, DigitsRead
<1> QED BY <1>1, <1>2, <1>3, <1>5, <1>6, <1>7

LEMMA WholeMore ==
  ASSUME NEW v, NEW w, NEW z, NEW k, NEW d \in 0 .. 9, Whole(v, z, k),
         w \in Seq(Int) /\ Len(w) = k + 1,
         \A i \in 1 .. k : w[i] = v[i],
         w[k + 1] = Zero + d
  PROVE  Whole(w, 10 * z + d, k + 1)
<1>1. /\ z \in Nat /\ k \in Nat \ {0} /\ z < Ten[k]
      /\ \A i \in 1 .. k : v[i] = LowDigits(z, k)[i]
  BY DEF Whole
<1>2. /\ \A i \in 1 .. k : LowDigits(10 * z + d, k + 1)[i] = LowDigits(z, k)[i]
      /\ LowDigits(10 * z + d, k + 1)[k + 1] = Zero + d
  <2>1. k \in Nat
    BY <1>1
  <2> QED BY <1>1, <2>1, OneDigitMore
<1>3. 10 * z + d < Ten[k + 1]
  <2>1. Ten[k] \in Nat /\ Ten[k + 1] = 10 * Ten[k]
    BY <1>1, TenIs
  <2> QED BY <1>1, <2>1
<1> DEFINE y == 10 * z + d
           l == k + 1
<1>4. y \in Nat /\ l \in Nat \ {0} /\ \A i \in 1 .. l : i = l \/ i \in 1 .. k
  BY <1>1
<1>5. Len(w) = l /\ w[l] = LowDigits(y, l)[l] /\ y < Ten[l]
      /\ \A i \in 1 .. k : w[i] = LowDigits(y, l)[i]
  BY <1>1, <1>2, <1>3
<1> HIDE DEF y, l
<1>6. \A i \in 1 .. l : w[i] = LowDigits(y, l)[i]
  BY <1>4, <1>5
<1>7. Whole(w, y, l)
  BY <1>4, <1>5, <1>6 DEF Whole
<1> QED BY <1>7 DEF y, l

-----------------------------------------------------------------------------
(* How many digits a number has. *)

LEMMA TenGrows ==
  ASSUME NEW m \in Nat, NEW j \in Nat
  PROVE  Ten[m] <= Ten[m + j] /\ Ten[m] \in Nat /\ Ten[m + j] \in Nat
<1> DEFINE G == {i \in Nat : Ten[m] <= Ten[m + i]}
<1>1. \A i \in Nat : Ten[m + i] \in Nat /\ Ten[(m + i) + 1] = 10 * Ten[m + i] /\ m + i \in Nat
  BY TenIs
<1>2. 0 \in G
  <2>1. m + 0 = m /\ Ten[m] \in Nat
    BY TenIs
  <2> QED BY <2>1
<1>3. ASSUME NEW i \in Nat, i \in G PROVE i + 1 \in G
  <2>1. m + (i + 1) = (m + i) + 1
    OBVIOUS
  <2>2. Ten[m] \in Nat /\ Ten[m] <= Ten[m + i]
    BY <1>3, TenIs
  <2>3. Ten[m] <= Ten[m + (i + 1)]
    BY <1>1, <2>1, <2>2
  <2> QED BY <2>3
<1>4. \A i \in Nat : i \in G
  <2> HIDE DEF G
  <2> QED BY <1>2, <1>3, NatInd
<1> QED BY <1>1, <1>4, TenIs

LEMMA DigitCount ==
  ASSUME NEW q \in Nat
  PROVE  LET k == DigitsOf(q)
         IN  /\ k \in Nat \ {0} /\ q < Ten[k]
             /\ q < 1000 => k <= 3
             /\ q < 10000 => k <= 4
             /\ q < 100000 => k <= 5
             /\ q >= 10 => k >= 2
             /\ q >= 100 => k >= 3
<1> DEFINE k == DigitsOf(q)
<1>1. k \in Nat \ {0} /\ q < Ten[k] /\ (k > 1 => Ten[k - 1] <= q)
  BY DigitsOfIs
<1> HIDE DEF k
<1>2. ASSUME NEW m \in Nat, k > m + 1 PROVE Ten[m] <= q
  <2> DEFINE j == k - 1 - m
  <2>1. j \in Nat /\ m + j = k - 1 /\ k > 1
    BY <1>1, <1>2
  <2> HIDE DEF j
  <2>2. Ten[m] <= Ten[k - 1] /\ Ten[m] \in Nat /\ Ten[k - 1] \in Nat
    BY <2>1, TenGrows
  <2> QED BY <1>1, <2>1, <2>2
<1>3. ASSUME NEW m \in Nat, k <= m PROVE q < Ten[m]
  <2> DEFINE j == m - k
  <2>1. j \in Nat /\ k + j = m /\ k \in Nat
    BY <1>1, <1>3
  <2> HIDE DEF j
  <2>2. Ten[k] <= Ten[m] /\ Ten[k] \in Nat /\ Ten[m] \in Nat
    BY <2>1, TenGrows
  <2> QED BY <1>1, <2>2
<1>4. Ten[1] = 10 /\ Ten[2] = 100 /\ Ten[3] = 1000 /\ Ten[4] = 10000 /\ Ten[5] = 100000
  <2>1. Ten[4] = 10000 /\ Ten[4 + 1] = 10 * Ten[4]
    BY TenSmall, TenIs
  <2> QED BY <2>1, TenSmall
<1>5. q < 1000 => k <= 3
  BY <1>1, <1>2, <1>4
<1>6. q < 10000 => k <= 4
  BY <1>1, <1>2, <1>4
<1>7. q < 100000 => k <= 5
  BY <1>1, <1>2, <1>4
<1>8. q >= 10 => k >= 2
  BY <1>1, <1>3, <1>4
<1>9. q >= 100 => k >= 3
  BY <1>1, <1>3, <1>4
<1> QED BY <1>1, <1>5, <1>6, <1>7, <1>8, <1>9 DEF k

-----------------------------------------------------------------------------
(* The text of a size, before and after it is cut. *)

(* q and r hundredths, q with k digits, and the letter of the unit.         *)
Typed(s, q, k, r, letter) ==
  /\ q \in Nat /\ k \in Nat \ {0} /\ q < Ten[k] /\ r \in 0 .. 99 /\ letter \in Int
  /\ s = ((LowDigits(q, k) \o <<Dot>>) \o LowDigits(r, 2)) \o <<letter>>

LEMMA TypedIs ==
  ASSUME NEW s, NEW q, NEW k, NEW r, NEW letter, Typed(s, q, k, r, letter)
  PROVE  /\ s \in Seq(Int) /\ Len(s) = k + 4
         /\ \A i \in 1 .. k : s[i] = LowDigits(q, k)[i]
         /\ s[k + 1] = Dot /\ s[k + 2] = Zero + r \div 10 /\ s[k + 3] = Zero + (r % 10)
         /\ Whole(LowDigits(q, k), q, k)
<1> DEFINE a == LowDigits(q, k)
           b == <<Dot>>
           c == LowDigits(r, 2)
           d == <<letter>>
           u == a \o b
           v == u \o c
<1>1. /\ q \in Nat /\ k \in Nat \ {0} /\ q < Ten[k] /\ r \in 0 .. 99 /\ letter \in Int
      /\ s = v \o d
  BY DEF Typed
<1>2. a \in Seq(Int) /\ Len(a) = k
  <2> DEFINE C == 48 .. 57
  <2>1. a \in Seq(C) /\ Len(a) = k
    BY <1>1, LowDigitsAre
  <2>2. C \subseteq Int
    OBVIOUS
  <2> HIDE DEF C, a
  <2> QED BY <2>1, <2>2, SeqMonotonic
<1>3. /\ c \in Seq(Int) /\ Len(c) = 2 /\ c[1] = Zero + r \div 10 /\ c[2] = Zero + (r % 10)
  <2>1. r \in Nat /\ ((r \div 10) % 10) = r \div 10
    <3>1. r \in 0 .. 99
      BY <1>1
    <3> QED BY ONLY <3>1
  <2>2. /\ c[1] = 48 + ((r \div 10) % 10) /\ c[2] = 48 + (r % 10)
        /\ c \in Seq(Int) /\ Len(c) = 2
    BY <2>1, TwoDigits
  <2> HIDE DEF c
  <2> QED BY <2>1, <2>2 DEF Zero
<1>4. b \in Seq(Int) /\ Len(b) = 1 /\ b[1] = Dot /\ d \in Seq(Int) /\ Len(d) = 1
  BY <1>1 DEF Dot
<1>5. Whole(a, q, k)
  BY <1>1, <1>2 DEF Whole
<1> HIDE DEF a, b, c, d
<1>6. /\ u \in Seq(Int) /\ Len(u) = Len(a) + Len(b)
      /\ \A i \in 1 .. Len(a) : u[i] = a[i]
      /\ \A i \in 1 .. Len(b) : u[Len(a) + i] = b[i]
  <2> DEFINE C == Int
  <2>1. a \in Seq(C) /\ b \in Seq(C)
    BY <1>2, <1>4
  <2> HIDE DEF C
  <2>2. /\ u \in Seq(C) /\ Len(u) = Len(a) + Len(b)
        /\ \A i \in 1 .. Len(a) : u[i] = a[i]
        /\ \A i \in 1 .. Len(b) : u[Len(a) + i] = b[i]
    BY ONLY <2>1, Joined DEF u
  <2> QED BY <2>2 DEF C
<1>7. u \in Seq(Int) /\ Len(u) = k + 1 /\ u[k + 1] = Dot /\ \A i \in 1 .. k : u[i] = a[i]
  <2>1. 1 \in 1 .. Len(b)
    BY <1>4
  <2> HIDE DEF u
  <2> QED BY <1>1, <1>2, <1>4, <1>6, <2>1
<1> HIDE DEF u
<1>8. /\ v \in Seq(Int) /\ Len(v) = Len(u) + Len(c)
      /\ \A i \in 1 .. Len(u) : v[i] = u[i]
      /\ \A i \in 1 .. Len(c) : v[Len(u) + i] = c[i]
  <2> DEFINE C == Int
  <2>1. u \in Seq(C) /\ c \in Seq(C)
    BY <1>3, <1>7
  <2> HIDE DEF C
  <2>2. /\ v \in Seq(C) /\ Len(v) = Len(u) + Len(c)
        /\ \A i \in 1 .. Len(u) : v[i] = u[i]
        /\ \A i \in 1 .. Len(c) : v[Len(u) + i] = c[i]
    BY ONLY <2>1, Joined DEF v
  <2> QED BY <2>2 DEF C
<1> HIDE DEF v
<1>9. /\ v \in Seq(Int) /\ Len(v) = k + 3
      /\ \A i \in 1 .. k : v[i] = a[i]
      /\ v[k + 1] = Dot /\ v[k + 2] = c[1] /\ v[k + 3] = c[2]
  <2>1. \A i \in 1 .. k + 1 : v[i] = u[i]
    BY <1>7, <1>8
  <2>2. /\ \A i \in 1 .. k : i \in 1 .. k + 1
        /\ k + 1 \in 1 .. k + 1 /\ 1 \in 1 .. 2 /\ 2 \in 1 .. 2
        /\ (k + 1) + 1 = k + 2 /\ (k + 1) + 2 = k + 3
    <3>1. k \in Nat \ {0}
      BY <1>1
    <3> QED BY ONLY <3>1
  <2>3. v[(k + 1) + 1] = c[1] /\ v[(k + 1) + 2] = c[2]
    BY <1>3, <1>7, <1>8, <2>2
  <2> QED BY <1>1, <1>3, <1>7, <1>8, <2>1, <2>2, <2>3
<1>10. /\ s \in Seq(Int) /\ Len(s) = Len(v) + Len(d)
       /\ \A i \in 1 .. Len(v) : s[i] = v[i]
  <2> DEFINE C == Int
  <2>1. v \in Seq(C) /\ d \in Seq(C) /\ s = v \o d
    BY <1>1, <1>4, <1>9
  <2> HIDE DEF C
  <2>2. s \in Seq(C) /\ Len(s) = Len(v) + Len(d) /\ \A i \in 1 .. Len(v) : s[i] = v[i]
    BY ONLY <2>1, Joined
  <2> QED BY <2>2 DEF C
<1>11. \A i \in 1 .. k + 3 : s[i] = v[i]
  BY <1>9, <1>10
<1>12. /\ \A i \in 1 .. k : i \in 1 .. k + 3
       /\ k + 1 \in 1 .. k + 3 /\ k + 2 \in 1 .. k + 3 /\ k + 3 \in 1 .. k + 3
       /\ (k + 3) + 1 = k + 4
  BY <1>1
<1>13. Len(s) = k + 4
  BY <1>4, <1>9, <1>10, <1>12
<1> QED BY <1>3, <1>5, <1>9, <1>10, <1>11, <1>12, <1>13 DEF a

LEMMA OneText ==
  ASSUME NEW C, NEW a \in Seq(C)
  PROVE  FlattenSeq(<<a>>) = a
<1> DEFINE p == <<a>>
<1>1. p \in Seq(Seq(C)) /\ p # <<>> /\ Len(p) = 1 /\ p[1] = a
  OBVIOUS
<1> HIDE DEF p
<1>2. Grows(C, p, Len(p), Flattened(p)) /\ FlattenSeq(p) = Flattened(p)[Len(p)]
  BY <1>1, FlattenIs
<1> QED BY <1>1, <1>2 DEF Grows, p

LEMMA TwoTexts ==
  ASSUME NEW C, NEW p \in Seq(Seq(C)), Len(p) = 2
  PROVE  FlattenSeq(p) = p[1] \o p[2]
<1> DEFINE h == Flattened(p)
           one == 1
<1>1. p # <<>>
  BY EmptySeq
<1>2. Grows(C, p, Len(p), h) /\ FlattenSeq(p) = h[Len(p)]
  BY <1>1, FlattenIs
<1> HIDE DEF h
<1>3. h[1] = p[1] /\ \A i \in 1 .. Len(p) - 1 : h[i + 1] = h[i] \o p[i + 1]
  BY <1>2 DEF Grows
<1>4. one \in 1 .. Len(p) - 1 /\ one + 1 = 2
  OBVIOUS
<1>5. h[one + 1] = h[one] \o p[one + 1]
  <2> HIDE DEF one
  <2> QED BY <1>3, <1>4
<1> QED BY <1>2, <1>3, <1>4, <1>5 DEF one

(* A number with a dot in it. *)
LEMMA DotShows ==
  ASSUME NEW a, NEW tail, NEW w, Extended(Int, a, Dot, tail, w),
         \A i \in 1 .. Len(a) : a[i] # Dot
  PROVE  Shown(w) = [digits |-> a \o tail, decimals |-> Len(tail)]
<1> DEFINE p == Reference!Parts(w, Dot)
           C == Int
<1>1. a \in Seq(C) /\ tail \in Seq(C) /\ w \in Seq(C)
  BY DEF Extended
<1>2. Extended(C, a, Dot, tail, w)
  OBVIOUS
<1>3. \A i \in 1 .. Len(a) : a[i] # Dot
  OBVIOUS
<1>4. Shown(w) = [digits |-> FlattenSeq(p), decimals |-> IF Len(p) = 1 THEN 0 ELSE Len(p[2])]
  BY DEF Shown
<1>5. w \in Seq(Int)
  BY <1>1
<1>6. p \in Seq(Seq(C))
  BY <1>5, PartsType
<1> HIDE DEF C, p
<1>7. Reference!Parts(a, Dot) = <<a>>
  BY ONLY <1>1, <1>3, PartsWhole
<1>8. Len(<<a>>) = 1 /\ <<a>>[1] = a /\ 1 \in 1 .. 1
  OBVIOUS
<1>9. /\ Len(p) = Len(<<a>>) + 1 /\ p[Len(<<a>>) + 1] = tail
      /\ \A k \in 1 .. Len(<<a>>) : p[k] = <<a>>[k]
  BY ONLY <1>2, <1>7, PartsExtend, SMTT(20) DEF p
<1>10. Len(p) = 2 /\ p[1] = a /\ p[2] = tail
  BY <1>8, <1>9
<1>11. FlattenSeq(p) = p[1] \o p[2]
  BY ONLY <1>6, <1>10, TwoTexts
<1> QED BY <1>4, <1>10, <1>11

(* What a number shows. *)
Shows(w, v, decimals, l) ==
  /\ Reference!Numbers(Shown(w).digits) = {v} /\ Shown(w).decimals = decimals
  /\ Len(Shown(w).digits) = l

LEMMA KeptNone ==
  ASSUME NEW s, NEW q, NEW k, NEW r, NEW letter, Typed(s, q, k, r, letter)
  PROVE  Shows(SubSeq(s, 1, k), q, 0, k)
<1> DEFINE a == LowDigits(q, k)
           w == SubSeq(s, 1, k)
           C == Int
<1>1. /\ s \in Seq(Int) /\ Len(s) = k + 4 /\ \A i \in 1 .. k : s[i] = a[i]
      /\ Whole(a, q, k)
  BY TypedIs
<1>2. Reference!Numbers(a) = {q} /\ a \in Seq(Int) /\ \A i \in 1 .. k : a[i] \in 48 .. 57
  BY <1>1, WholeReads
<1>3. k \in Nat \ {0} /\ Len(a) = k
  BY <1>1 DEF Whole
<1> HIDE DEF a
<1>4. w = a
  <2>1. k \in 0 .. Len(s) /\ 1 <= k + 1 /\ k - 1 + 1 = k
    <3>1. k \in Nat \ {0} /\ Len(s) = k + 4
      BY <1>1, <1>3
    <3> QED BY ONLY <3>1
  <2> DEFINE one == 1
  <2>2. /\ SubSeq(s, one, k) \in Seq(Int) /\ Len(SubSeq(s, one, k)) = k - one + 1
        /\ \A i \in 1 .. k - one + 1 : SubSeq(s, one, k)[i] = s[one + i - 1]
    <3>1. one \in Nat \ {0} /\ one <= k + 1
      BY <2>1
    <3> HIDE DEF one
    <3> QED BY <1>1, <2>1, <3>1, SliceIs
  <2>3. \A i \in 1 .. k : one + i - 1 = i
    <3>1. k \in Nat \ {0}
      BY <1>3
    <3> QED BY ONLY <3>1 DEF one
  <2>4. w \in Seq(Int) /\ Len(w) = k /\ \A i \in 1 .. k : w[i] = a[i]
    BY <1>1, <2>1, <2>2, <2>3
  <2> HIDE DEF w
  <2> QED BY <1>2, <1>3, <2>4, SeqEqual
<1>5. a \in Seq(C) /\ \A i \in 1 .. Len(a) : a[i] # Dot
  BY <1>2, <1>3 DEF Dot
<1> HIDE DEF C
<1>6. Reference!Parts(a, Dot) = <<a>>
  BY ONLY <1>5, PartsWhole
<1>7. FlattenSeq(<<a>>) = a
  BY ONLY <1>5, OneText
<1>8. Shown(a).digits = a /\ Shown(a).decimals = 0
  <2>1. Len(<<a>>) = 1
    OBVIOUS
  <2> QED BY <1>6, <1>7, <2>1 DEF Shown
<1> QED BY <1>2, <1>3, <1>4, <1>8 DEF Shows, w

(* A beginning of the text, with the l decimals in the tail. *)
KeptTail(s, q, k, r, letter, tail, l, w) ==
  /\ Typed(s, q, k, r, letter)
  /\ l \in 1 .. 2 /\ tail \in Seq(Int) /\ Len(tail) = l
  /\ \A i \in 1 .. l : tail[i] = s[k + 1 + i] /\ tail[i] # Dot
  /\ w = SubSeq(s, 1, k + 1 + l)

LEMMA KeptDot ==
  ASSUME NEW s, NEW q, NEW k, NEW r, NEW letter, NEW tail, NEW l, NEW w,
         KeptTail(s, q, k, r, letter, tail, l, w)
  PROVE  /\ Shown(w) = [digits |-> LowDigits(q, k) \o tail, decimals |-> l]
         /\ Len(w) = k + 1 + l
<1> SUFFICES ASSUME
         Typed(s, q, k, r, letter),
         l \in 1 .. 2, tail \in Seq(Int), Len(tail) = l,
         \A i \in 1 .. l : tail[i] = s[k + 1 + i] /\ tail[i] # Dot,
         w = SubSeq(s, 1, k + 1 + l)
    PROVE /\ Shown(w) = [digits |-> LowDigits(q, k) \o tail, decimals |-> l]
          /\ Len(w) = k + 1 + l
  BY DEF KeptTail
<1> DEFINE a == LowDigits(q, k)
           m == k + 1 + l
<1>1. /\ s \in Seq(Int) /\ Len(s) = k + 4 /\ \A i \in 1 .. k : s[i] = a[i]
      /\ s[k + 1] = Dot /\ Whole(a, q, k)
  BY TypedIs
<1>2. a \in Seq(Int) /\ \A i \in 1 .. k : a[i] \in 48 .. 57
  BY <1>1, WholeReads
<1>3. k \in Nat \ {0} /\ Len(a) = k
  BY <1>1 DEF Whole
<1> HIDE DEF a
<1>4. w \in Seq(Int) /\ Len(w) = m /\ \A i \in 1 .. m : w[i] = s[i]
  <2> DEFINE one == 1
  <2>1. m \in 0 .. Len(s) /\ one <= m + 1 /\ one \in Nat \ {0} /\ m - one + 1 = m
        /\ \A i \in 1 .. m : one + i - 1 = i
    <3>1. k \in Nat \ {0} /\ Len(s) = k + 4 /\ l \in 1 .. 2
      BY <1>1, <1>3
    <3> QED BY ONLY <3>1 DEF one, m
  <2>2. w = SubSeq(s, one, m)
    OBVIOUS
  <2> HIDE DEF one, m
  <2>3. /\ SubSeq(s, one, m) \in Seq(Int) /\ Len(SubSeq(s, one, m)) = m - one + 1
        /\ \A i \in 1 .. m - one + 1 : SubSeq(s, one, m)[i] = s[one + i - 1]
    BY <1>1, <2>1, SliceIs
  <2> QED BY <2>1, <2>2, <2>3
<1>5. /\ k + 1 \in 1 .. m /\ m = k + 1 + l
      /\ \A i \in 1 .. k : i \in 1 .. m
      /\ \A i \in 1 .. l : k + 1 + i \in 1 .. m
  <2>1. k \in Nat \ {0} /\ l \in 1 .. 2
    BY <1>3
  <2> QED BY ONLY <2>1 DEF m
<1> HIDE DEF m
<1>6. \A i \in 1 .. l : w[k + 1 + i] = tail[i]
  BY <1>4, <1>5
<1>7. Extended(Int, a, Dot, tail, w)
  <2>1. Len(w) = Len(a) + 1 + Len(tail) /\ w[Len(a) + 1] = Dot
    BY <1>1, <1>3, <1>4, <1>5
  <2>2. \A i \in 1 .. Len(a) : w[i] = a[i]
    BY <1>1, <1>3, <1>4, <1>5
  <2>3. \A i \in 1 .. Len(tail) : w[Len(a) + 1 + i] = tail[i] /\ tail[i] # Dot
    BY <1>3, <1>6
  <2> QED BY <1>2, <1>4, <2>1, <2>2, <2>3 DEF Extended
<1>8. \A i \in 1 .. Len(a) : a[i] # Dot
  <2>1. Len(a) = k /\ \A i \in 1 .. k : a[i] \in 48 .. 57
    BY <1>2, <1>3
  <2> QED BY ONLY <2>1 DEF Dot
<1>9. Shown(w) = [digits |-> a \o tail, decimals |-> Len(tail)]
  BY <1>7, <1>8, DotShows
<1> QED BY <1>4, <1>5, <1>9 DEF a

LEMMA KeptOne ==
  ASSUME NEW s, NEW q, NEW k, NEW r, NEW letter, Typed(s, q, k, r, letter)
  PROVE  /\ Shows(SubSeq(s, 1, k + 2), 10 * q + r \div 10, 1, k + 1)
         /\ Len(SubSeq(s, 1, k + 2)) = k + 2
<1> DEFINE a == LowDigits(q, k)
           d == r \div 10
           tail == <<Zero + d>>
           one == 1
           w == SubSeq(s, 1, k + 1 + one)
           u == a \o tail
           C == Int
<1>1. /\ s[k + 2] = Zero + d /\ Whole(a, q, k)
  BY TypedIs
<1>2. k \in Nat \ {0} /\ Len(a) = k /\ a \in Seq(Int)
  BY <1>1 DEF Whole
<1>3. d \in 0 .. 9
  <2>1. r \in 0 .. 99
    BY DEF Typed
  <2> QED BY ONLY <2>1
<1> HIDE DEF a, d
<1>4. tail \in Seq(C) /\ Len(tail) = 1 /\ tail[1] = Zero + d /\ Zero + d # Dot
  <2>1. Zero + d \in C /\ Zero + d # Dot
    BY <1>3 DEF Zero, Dot
  <2> HIDE DEF C
  <2> QED BY <2>1, OneChar
<1> HIDE DEF tail
<1>5. k + 1 + one = k + 2 /\ one \in 1 .. 2
  BY <1>2
<1>6. \A i \in 1 .. one : tail[i] = s[k + 1 + i] /\ tail[i] # Dot
  BY <1>1, <1>4, <1>5
<1>7. tail \in Seq(Int) /\ Len(tail) = one
  BY <1>4
<1> HIDE DEF one
<1>8. /\ Shown(w) = [digits |-> LowDigits(q, k) \o tail, decimals |-> one]
      /\ Len(w) = k + 1 + one
  <2>1. KeptTail(s, q, k, r, letter, tail, one, w)
    BY <1>5, <1>6, <1>7 DEF KeptTail
  <2> HIDE DEF w
  <2> QED BY ONLY <2>1, KeptDot
<1>9. /\ u \in Seq(Int) /\ Len(u) = k + 1
      /\ \A i \in 1 .. k : u[i] = a[i]
      /\ u[k + 1] = Zero + d
  <2>1. a \in Seq(C) /\ tail \in Seq(C)
    BY <1>2, <1>4
  <2> HIDE DEF C
  <2>2. /\ u \in Seq(C) /\ Len(u) = Len(a) + Len(tail)
        /\ \A i \in 1 .. Len(a) : u[i] = a[i]
        /\ \A i \in 1 .. Len(tail) : u[Len(a) + i] = tail[i]
    BY ONLY <2>1, Joined DEF u
  <2>3. 1 \in 1 .. Len(tail)
    BY <1>4
  <2> HIDE DEF u
  <2> QED BY <1>2, <1>4, <2>2, <2>3 DEF C
<1> HIDE DEF u
<1>10. Whole(u, 10 * q + d, k + 1)
  BY <1>1, <1>3, <1>9, WholeMore
<1>11. Reference!Numbers(u) = {10 * q + d}
  BY <1>10, WholeReads
<1>12. Shown(w).digits = u /\ Shown(w).decimals = 1
  BY <1>8 DEF u, a, one
<1>13. Shows(w, 10 * q + d, 1, k + 1)
  BY <1>9, <1>11, <1>12 DEF Shows
<1> QED BY <1>5, <1>8, <1>13 DEF d

LEMMA KeptTwo ==
  ASSUME NEW s, NEW q, NEW k, NEW r, NEW letter, Typed(s, q, k, r, letter)
  PROVE  /\ Shows(SubSeq(s, 1, k + 3), 100 * q + r, 2, k + 2)
         /\ Len(SubSeq(s, 1, k + 3)) = k + 3
<1> DEFINE a == LowDigits(q, k)
           d == r \div 10
           e == r % 10
           tail == <<Zero + d, Zero + e>>
           two == 2
           w == SubSeq(s, 1, k + 1 + two)
           h == <<Zero + d>>
           t == <<Zero + e>>
           v == a \o h
           u == v \o t
           C == Int
<1>1. /\ s[k + 2] = Zero + d /\ s[k + 3] = Zero + e /\ Whole(a, q, k)
  BY TypedIs
<1>2. k \in Nat \ {0} /\ Len(a) = k /\ a \in Seq(Int) /\ q \in Nat
  BY <1>1 DEF Whole
<1>3. d \in 0 .. 9 /\ e \in 0 .. 9 /\ 10 * d + e = r
  <2>1. r \in 0 .. 99
    BY DEF Typed
  <2> QED BY ONLY <2>1
<1> HIDE DEF a, d, e
<1>4. /\ Zero + d \in C /\ Zero + d # Dot /\ Zero + e \in C /\ Zero + e # Dot
  BY <1>3 DEF Zero, Dot
<1>5. /\ h \in Seq(C) /\ Len(h) = 1 /\ h[1] = Zero + d
      /\ t \in Seq(C) /\ Len(t) = 1 /\ t[1] = Zero + e
  <2> HIDE DEF C
  <2> QED BY <1>4, OneChar
<1>6. tail \in Seq(C) /\ Len(tail) = 2 /\ tail[1] = Zero + d /\ tail[2] = Zero + e
  <2> HIDE DEF C
  <2> QED BY <1>4
<1>7. tail = h \o t
  <2> HIDE DEF C
  <2> QED BY ONLY <1>4, TwoChars DEF tail, h, t
<1> HIDE DEF tail, h, t
<1>8. k + 1 + two = k + 3 /\ two \in 1 .. 2 /\ k + 1 + 1 = k + 2 /\ k + 1 + 2 = k + 3
      /\ \A i \in 1 .. two : i = 1 \/ i = 2
  BY <1>2
<1>9. \A i \in 1 .. two : tail[i] = s[k + 1 + i] /\ tail[i] # Dot
  <2> HIDE DEF two
  <2> QED BY <1>1, <1>4, <1>6, <1>8
<1>10. tail \in Seq(Int) /\ Len(tail) = two
  BY <1>6
<1> HIDE DEF two
<1>11. /\ Shown(w) = [digits |-> LowDigits(q, k) \o tail, decimals |-> two]
       /\ Len(w) = k + 1 + two
  <2>1. KeptTail(s, q, k, r, letter, tail, two, w)
    BY <1>8, <1>9, <1>10 DEF KeptTail
  <2> HIDE DEF w
  <2> QED BY ONLY <2>1, KeptDot
<1>12. /\ v \in Seq(Int) /\ Len(v) = k + 1
       /\ \A i \in 1 .. k : v[i] = a[i]
       /\ v[k + 1] = Zero + d
  <2>1. a \in Seq(C) /\ h \in Seq(C)
    BY <1>2, <1>5
  <2> HIDE DEF C
  <2>2. /\ v \in Seq(C) /\ Len(v) = Len(a) + Len(h)
        /\ \A i \in 1 .. Len(a) : v[i] = a[i]
        /\ \A i \in 1 .. Len(h) : v[Len(a) + i] = h[i]
    BY ONLY <2>1, Joined DEF v
  <2>3. 1 \in 1 .. Len(h)
    BY <1>5
  <2> HIDE DEF v
  <2> QED BY <1>2, <1>5, <2>2, <2>3 DEF C
<1>13. u = a \o tail
  <2>1. a \in Seq(C) /\ h \in Seq(C) /\ t \in Seq(C)
    BY <1>2, <1>5
  <2> HIDE DEF C
  <2>2. (a \o h) \o t = a \o (h \o t)
    BY ONLY <2>1, ConcatThree
  <2> QED BY <1>7, <2>2 DEF u, v
<1> HIDE DEF v
<1>14. /\ u \in Seq(Int) /\ Len(u) = k + 2
       /\ \A i \in 1 .. k + 1 : u[i] = v[i]
       /\ u[k + 2] = Zero + e
  <2>1. v \in Seq(C) /\ t \in Seq(C)
    BY <1>5, <1>12
  <2> HIDE DEF C
  <2>2. /\ u \in Seq(C) /\ Len(u) = Len(v) + Len(t)
        /\ \A i \in 1 .. Len(v) : u[i] = v[i]
        /\ \A i \in 1 .. Len(t) : u[Len(v) + i] = t[i]
    BY ONLY <2>1, Joined DEF u
  <2>3. 1 \in 1 .. Len(t) /\ (k + 1) + 1 = k + 2
    BY <1>2, <1>5
  <2> HIDE DEF u
  <2> QED BY <1>2, <1>5, <1>12, <2>2, <2>3 DEF C
<1> DEFINE z == 10 * q + d
           l == k + 1
<1>15. Whole(v, z, l)
  BY <1>1, <1>3, <1>12, WholeMore
<1>16. 10 * z + e = 100 * q + r /\ l + 1 = k + 2
  BY <1>2, <1>3
<1> HIDE DEF u
<1>17. Whole(u, 10 * z + e, l + 1)
  <2>1. u \in Seq(Int) /\ Len(u) = l + 1 /\ u[l + 1] = Zero + e /\ \A i \in 1 .. l : u[i] = v[i]
    BY <1>14, <1>16
  <2> HIDE DEF z, l
  <2> QED BY <1>3, <1>15, <2>1, WholeMore
<1>18. Reference!Numbers(u) = {100 * q + r}
  <2>1. Reference!Numbers(u) = {10 * z + e}
    <3> HIDE DEF z, l
    <3> QED BY <1>17, WholeReads
  <2> QED BY <1>16, <2>1
<1>19. Shown(w).digits = u /\ Shown(w).decimals = 2
  BY <1>11, <1>13 DEF a, two
<1>20. Shows(w, 100 * q + r, 2, k + 2)
  BY <1>14, <1>18, <1>19 DEF Shows
<1> QED BY <1>8, <1>11, <1>20

(* A text with one more character. *)
LEMMA FrontAndLast ==
  ASSUME NEW C, NEW w \in Seq(C), NEW x \in C
  PROVE  Front(w \o <<x>>) = w /\ Last(w \o <<x>>) = x /\ Len(w \o <<x>>) = Len(w) + 1
<1> DEFINE q == <<x>>
           s == w \o q
<1>1. q \in Seq(C) /\ w \in Seq(C) /\ Len(q) = 1 /\ q[1] = x
  BY OneChar
<1> HIDE DEF q
<1>2. /\ s \in Seq(C) /\ Len(s) = Len(w) + Len(q) /\ Len(w) \in Nat
      /\ \A i \in 1 .. Len(w) : s[i] = w[i]
      /\ \A i \in 1 .. Len(q) : s[Len(w) + i] = q[i]
  <2>1. w \in Seq(C) /\ q \in Seq(C)
    BY <1>1
  <2>2. s = w \o q
    OBVIOUS
  <2> HIDE DEF s
  <2> QED BY ONLY <2>1, <2>2, Joined
<1>3. 1 \in 1 .. Len(q) /\ Len(w) <= Len(s) /\ Len(s) = Len(w) + 1 /\ Len(s) - 1 = Len(w)
  BY <1>1, <1>2
<1> HIDE DEF s
<1>4. IsPrefix(w, s)
  BY <1>2, <1>3, PrefixIs
<1>5. SubSeq(s, 1, Len(w)) = w
  <2>1. SubSeq(w, 1, Len(w)) = w
    BY SubSeqFull
  <2> QED BY <1>4, <2>1 DEF IsPrefix
<1>6. s[Len(s)] = x
  BY <1>1, <1>2, <1>3
<1>7. Front(s) = w
  BY <1>3, <1>5 DEF Front
<1> QED BY <1>3, <1>6, <1>7 DEF s, q, Last

LEMMA MinOfThree ==
  ASSUME NEW a \in Int, NEW b \in Int, NEW c \in Int, c <= a, c <= b
  PROVE  Min({a, b, c}) = c
<1> DEFINE D == {a, b, c}
<1>1. D \in SUBSET Int /\ c \in D /\ \A x \in D : c <= x
  OBVIOUS
<1> HIDE DEF D
<1>2. Min(D) = c
  BY <1>1, MinIs
<1> QED BY <1>2 DEF D

-----------------------------------------------------------------------------
(* The text of a size. *)

Cents(n, e) == Hundredths(n, SizeScale(n, e))

SizeText(n, e) ==
  ((Decimal(Cents(n, e) \div 100) \o <<Dot>>) \o LowDigits(Cents(n, e) % 100, 2))
    \o <<Units[UnitOf(n, e)]>>

SizeNul(n, e) == Cut(n \div SizeScale(n, e), Len(SizeText(n, e)))

SizeEnd(n, e) == Min({Len(SizeText(n, e)), 7, SizeNul(n, e) - 1})

LEMMA SizeIs ==
  ASSUME NEW n, NEW e, ~(e = 0 /\ n < 1024)
  PROVE  HumanReadableBytes(n, e)
           = [text |-> SubSeq(SizeText(n, e), 1, SizeEnd(n, e)) \o <<Units[UnitOf(n, e)]>>,
              unit |-> UnitOf(n, e), nul |-> SizeNul(n, e)]
BY DEF HumanReadableBytes, SizeText, SizeNul, SizeEnd, Cents, SizeScale

LEMMA UnitLetters == \A u \in 1 .. 5 : Units[u] \in Int
<1>1. \A u \in 1 .. 5 : u = 1 \/ u = 2 \/ u = 3 \/ u = 4 \/ u = 5
  OBVIOUS
<1> QED BY <1>1 DEF Units

LEMMA CentsNat ==
  ASSUME NEW c \in Nat
  PROVE  LET q == c \div 100
             r == c % 100
         IN  q \in Nat /\ r \in 0 .. 99 /\ c = 100 * q + r /\ c \div 10 = 10 * q + r \div 10
OBVIOUS

(* The beginning of the text that is kept: w, with the number v in it that  *)
(* has t decimals.                                                          *)
SizeKept(n, e, w, v, t, l) ==
  /\ HumanReadableBytes(n, e) = [text |-> w \o <<Units[UnitOf(n, e)]>>,
                                 unit |-> UnitOf(n, e), nul |-> Len(w) + 1]
  /\ w \in Seq(Int) /\ Len(w) <= 6
  /\ Shows(w, v, t, l) /\ l >= 3 /\ t \in 0 .. 2

(* v is one of the two numbers with t decimals next to n / c. *)
Near(n, c, v, t) ==
  LET exact == (n \div c) * Ten[t] + ((n % c) * Ten[t]) \div c
  IN  v \in {exact, exact + 1}

LEMMA SizeTyped ==
  ASSUME NEW n, NEW e, Sized(n, e)
  PROVE  LET q == Cents(n, e) \div 100
             r == Cents(n, e) % 100
         IN  Typed(SizeText(n, e), q, DigitsOf(q), r, Units[UnitOf(n, e)])
<1> DEFINE x == Cents(n, e)
           c == SizeScale(n, e)
           u == UnitOf(n, e)
           q == x \div 100
           r == x % 100
           k == DigitsOf(q)
           a == LowDigits(q, k)
<1>1. u \in 1 .. 5 /\ c \in Scales /\ n \in Nat
  <2>1. FitsUnit(n, u, c)
    BY UnitIs
  <2>2. n \in Nat
    BY DEF Sized
  <2> QED BY <2>1, <2>2 DEF FitsUnit
<1> HIDE DEF c, u
<1>2. x \in Nat
  <2>1. /\ n \div c \in Nat /\ (100 * (n % c)) \div c \in 0 .. 99
        /\ \E up \in {0, 1} : Hundredths(n, c) = 100 * (n \div c) + (100 * (n % c)) \div c + up
    BY <1>1, CentsAre
  <2> DEFINE m == n \div c
             d == (100 * (n % c)) \div c
             h == Hundredths(n, c)
  <2>2. m \in Nat /\ d \in 0 .. 99 /\ \E up \in {0, 1} : h = 100 * m + d + up
    BY <2>1
  <2>3. x = h
    BY DEF Cents, c
  <2> HIDE DEF m, d, h, x
  <2> QED BY <2>2, <2>3
<1> HIDE DEF x
<1>3. q \in Nat /\ r \in 0 .. 99
  BY <1>2, CentsNat
<1> HIDE DEF q, r
<1>4. k \in Nat \ {0} /\ q < Ten[k]
  BY <1>3, DigitCount
<1> HIDE DEF k
<1>5. Decimal(q) = a
  <2> DEFINE C == Int
  <2>1. a \in Seq(C)
    <3> DEFINE B == 48 .. 57
    <3>1. a \in Seq(B)
      BY <1>3, <1>4, LowDigitsAre
    <3>2. B \subseteq C
      OBVIOUS
    <3> HIDE DEF B, a, C
    <3> QED BY <3>1, <3>2, SeqMonotonic
  <2>2. ~(q < 0)
    BY <1>3
  <2>3. Decimal(q) = <<>> \o a
    BY <2>2 DEF Decimal, Abs, k
  <2> HIDE DEF a, C
  <2>4. <<>> \o a = a
    BY ONLY <2>1, ConcatEmptySeq
  <2> QED BY <2>3, <2>4
<1>6. SizeText(n, e) = ((a \o <<Dot>>) \o LowDigits(r, 2)) \o <<Units[u]>>
  BY <1>5 DEF SizeText, q, r, x, u
<1>7. Units[u] \in Int
  BY <1>1, UnitLetters
<1>8. Typed(SizeText(n, e), q, k, r, Units[u])
  BY <1>3, <1>4, <1>6, <1>7 DEF Typed
<1> QED BY <1>8 DEF k, q, r, x, u

LEMMA RoundedAre ==
  ASSUME NEW m \in Nat, NEW d \in 0 .. 99, NEW up \in {0, 1}, NEW x, x = 100 * m + d + up
  PROVE  /\ x \in Nat
         /\ x \in {m * 100 + d, m * 100 + d + 1}
         /\ x \div 10 \in {m * 10 + d \div 10, m * 10 + d \div 10 + 1}
         /\ x \div 100 \in {m * 1 + 0, m * 1 + 0 + 1}
OBVIOUS

(* How a size is rounded: x hundredths, of which there are m wholes. *)
Rounded(n, c, m, x) ==
  /\ m = n \div c /\ m \in Nat /\ m <= 16384 /\ x \in Nat
  /\ x \div 100 \in {m, m + 1}
  /\ Near(n, c, x, 2) /\ Near(n, c, x \div 10, 1) /\ Near(n, c, x \div 100, 0)

LEMMA SizeRounded ==
  ASSUME NEW n, NEW e, Sized(n, e)
  PROVE  Rounded(n, SizeScale(n, e), n \div SizeScale(n, e), Cents(n, e))
<1> DEFINE c == SizeScale(n, e)
           u == UnitOf(n, e)
           m == n \div c
           p == n % c
           d == (100 * p) \div c
           x == Cents(n, e)
<1>1. c \in Scales /\ n \in Nat /\ m <= 16384
  <2>1. FitsUnit(n, u, c)
    BY UnitIs
  <2>2. n \in Nat
    BY DEF Sized
  <2> QED BY <2>1, <2>2 DEF FitsUnit
<1> HIDE DEF c, u
<1>2. /\ m \in Nat /\ d \in 0 .. 99
      /\ \E up \in {0, 1} : Hundredths(n, c) = 100 * m + d + up
      /\ (p * 100) \div c = d /\ (p * 10) \div c = d \div 10 /\ (p * 1) \div c = 0
  BY <1>1, CentsAre
<1>3. x = Hundredths(n, c)
  BY DEF Cents, c
<1> DEFINE f(t) == m * Ten[t] + (p * Ten[t]) \div c
<1>4. \A v, t : Near(n, c, v, t) <=> v \in {f(t), f(t) + 1}
  BY DEF Near
<1>5. f(2) = m * 100 + d /\ f(1) = m * 10 + d \div 10 /\ f(0) = m * 1 + 0
  <2>1. Ten[0] = 1 /\ Ten[1] = 10 /\ Ten[2] = 100
    BY TenIs, TenSmall
  <2> HIDE DEF m, d, p
  <2> QED BY <1>2, <2>1
<1> HIDE DEF m, d, p, x, f
<1>6. PICK up \in {0, 1} : x = 100 * m + d + up
  BY <1>2, <1>3
<1>7. /\ x \in Nat
      /\ x \in {m * 100 + d, m * 100 + d + 1}
      /\ x \div 10 \in {m * 10 + d \div 10, m * 10 + d \div 10 + 1}
      /\ x \div 100 \in {m * 1 + 0, m * 1 + 0 + 1}
  <2>1. m \in Nat /\ d \in 0 .. 99 /\ x = 100 * m + d + up
    BY <1>2, <1>6
  <2> QED BY ONLY <2>1, up \in {0, 1}, RoundedAre
<1>8. Near(n, c, x, 2) /\ Near(n, c, x \div 10, 1) /\ Near(n, c, x \div 100, 0)
  <2>1. Near(n, c, x, 2)
    BY ONLY <1>4, <1>5, <1>7
  <2>2. Near(n, c, x \div 10, 1)
    BY ONLY <1>4, <1>5, <1>7
  <2>3. Near(n, c, x \div 100, 0)
    BY ONLY <1>4, <1>5, <1>7
  <2> QED BY <2>1, <2>2, <2>3
<1>9. x \div 100 \in {m, m + 1}
  BY <1>2, <1>7
<1>10. Rounded(n, c, n \div c, x)
  BY <1>1, <1>2, <1>7, <1>8, <1>9 DEF Rounded, m
<1> QED BY <1>10 DEF c, x

LEMMA SizeCut ==
  ASSUME NEW n, NEW e, Sized(n, e)
  PROVE  \E w, v, t, l : SizeKept(n, e, w, v, t, l) /\ Near(n, SizeScale(n, e), v, t)
<1> DEFINE c == SizeScale(n, e)
           letter == Units[UnitOf(n, e)]
           m == n \div c
           x == Cents(n, e)
           s == SizeText(n, e)
           q == x \div 100
           r == x % 100
           k == DigitsOf(q)
           nul == SizeNul(n, e)
           end == SizeEnd(n, e)
           w == SubSeq(s, 1, end)
           written == HumanReadableBytes(n, e)
<1>1. /\ m \in Nat /\ m <= 16384 /\ x \in Nat /\ q \in {m, m + 1}
      /\ Near(n, c, x, 2) /\ Near(n, c, x \div 10, 1) /\ Near(n, c, q, 0)
  BY SizeRounded DEF Rounded
<1>2. Typed(s, q, k, r, letter)
  BY SizeTyped
<1>3. written = [text |-> w \o <<letter>>, unit |-> UnitOf(n, e), nul |-> nul]
  <2>1. ~(e = 0 /\ n < 1024)
    BY DEF Sized
  <2> QED BY <2>1, SizeIs
<1>4. nul = Cut(m, Len(s)) /\ end = Min({Len(s), 7, nul - 1})
  BY DEF SizeNul, SizeEnd
<1> HIDE DEF c, letter, m, x, s, nul, end, written
<1>5. q \in Nat /\ r \in 0 .. 99 /\ x = 100 * q + r /\ x \div 10 = 10 * q + r \div 10
  BY <1>1, CentsNat
<1> HIDE DEF q, r
<1>6. /\ k \in Nat \ {0}
      /\ q < 1000 => k <= 3
      /\ q < 10000 => k <= 4
      /\ q < 100000 => k <= 5
      /\ q >= 100 => k >= 3
  BY <1>5, DigitCount
<1> HIDE DEF k
<1>7. s \in Seq(Int) /\ Len(s) = k + 4
  BY <1>2, TypedIs
<1>8. ASSUME NEW z \in Int, z = nul - 1, z <= 7, z <= k + 4 PROVE end = z
  <2> DEFINE seven == 7
             y == k + 4
  <2>1. y \in Int /\ seven \in Int /\ z <= y /\ z <= seven
    BY <1>6, <1>8
  <2>2. end = Min({y, seven, z})
    BY <1>4, <1>7, <1>8
  <2> HIDE DEF y, seven
  <2>3. Min({y, seven, z}) = z
    BY <2>1, MinOfThree
  <2> QED BY <2>2, <2>3
<1>9. ASSUME NEW z \in Nat \ {0}, z <= k + 4
      PROVE  SubSeq(s, 1, z) \in Seq(Int) /\ Len(SubSeq(s, 1, z)) = z
  <2> DEFINE one == 1
  <2>1. one \in Nat \ {0} /\ z \in 0 .. Len(s) /\ one <= z + 1 /\ z - one + 1 = z
    <3>1. k \in Nat \ {0} /\ Len(s) = k + 4 /\ z \in Nat \ {0} /\ z <= k + 4
      BY <1>6, <1>7, <1>9
    <3> QED BY ONLY <3>1 DEF one
  <2> HIDE DEF one
  <2>2. SubSeq(s, one, z) \in Seq(Int) /\ Len(SubSeq(s, one, z)) = z - one + 1
    BY <1>7, <2>1, SliceIs
  <2> QED BY <2>1, <2>2 DEF one
<1>10. ASSUME NEW z \in Nat \ {0}, z = nul - 1, z <= 6, z <= k + 4, NEW v, NEW t \in 0 .. 2,
              NEW l, l >= 3, Shows(SubSeq(s, 1, z), v, t, l), Near(n, c, v, t)
       PROVE  \E ww, vv, tt, ll : SizeKept(n, e, ww, vv, tt, ll) /\ Near(n, SizeScale(n, e), vv, tt)
  <2>1. end = z
    <3>1. z \in Int /\ z <= 7
      BY <1>10
    <3> QED BY <1>8, <1>10, <3>1
  <2>2. w \in Seq(Int) /\ Len(w) = z
    BY <1>9, <1>10, <2>1
  <2>3. nul = Len(w) + 1
    <3>1. nul \in Int
      BY <1>4, <1>6, <1>7 DEF Cut
    <3> QED BY <1>10, <2>2, <3>1
  <2>4. SizeKept(n, e, w, v, t, l)
    <3>1. Shows(w, v, t, l) /\ Len(w) <= 6
      BY <1>10, <2>1, <2>2
    <3> HIDE DEF w
    <3> QED BY <1>3, <1>10, <2>2, <2>3, <3>1 DEF SizeKept, written, letter
  <2> HIDE DEF w
  <2> QED BY <1>10, <2>4 DEF c
<1>11. CASE m < 100
  <2> DEFINE z == k + 3
             l == k + 2
             v == x
             t == 2
  <2>1. k <= 3 /\ nul = k + 4
    <3>1. q < 1000
      BY <1>1, <1>11
    <3> QED BY <1>1, <1>4, <1>6, <1>7, <1>11, <3>1 DEF Cut
  <2>2. z \in Nat \ {0} /\ z = nul - 1 /\ z <= 6 /\ z <= k + 4 /\ l >= 3 /\ t \in 0 .. 2
    BY <1>6, <2>1
  <2>3. Shows(SubSeq(s, 1, z), v, t, l)
    BY <1>2, <1>5, KeptTwo
  <2>4. Near(n, c, v, t)
    BY <1>1
  <2> HIDE DEF z, l, v, t
  <2> QED BY ONLY <1>10, <2>2, <2>3, <2>4
<1>12. CASE ~(m < 100) /\ m < 1000
  <2> DEFINE z == k + 2
             l == k + 1
             v == x \div 10
             t == 1
  <2>1. k <= 4 /\ k >= 3 /\ nul = k + 3
    <3>1. q < 10000 /\ q >= 100
      BY <1>1, <1>12
    <3> QED BY <1>1, <1>4, <1>6, <1>7, <1>12, <3>1 DEF Cut
  <2>2. z \in Nat \ {0} /\ z = nul - 1 /\ z <= 6 /\ z <= k + 4 /\ l >= 3 /\ t \in 0 .. 2
    BY <1>6, <2>1
  <2>3. Shows(SubSeq(s, 1, z), v, t, l)
    BY <1>2, <1>5, KeptOne
  <2>4. Near(n, c, v, t)
    BY <1>1
  <2> HIDE DEF z, l, v, t
  <2> QED BY ONLY <1>10, <2>2, <2>3, <2>4
<1>13. CASE ~(m < 1000)
  <2>1. k <= 5 /\ k >= 3 /\ nul = k + 1
    <3>1. q < 100000 /\ q >= 100
      BY <1>1, <1>13
    <3> QED BY <1>1, <1>4, <1>6, <1>7, <1>13, <3>1 DEF Cut
  <2>2. k = nul - 1 /\ k <= 6 /\ k <= k + 4 /\ 0 \in 0 .. 2
    BY <1>6, <2>1
  <2>3. Shows(SubSeq(s, 1, k), q, 0, k)
    BY <1>2, KeptNone
  <2> QED BY <1>1, <1>6, <1>10, <2>1, <2>2, <2>3
<1> DEFINE A == m < 100
           B == m < 1000
<1>14. A \/ (~A /\ B) \/ ~B
  <2> HIDE DEF A, B
  <2> QED OBVIOUS
<1> QED BY <1>11, <1>12, <1>13, <1>14

LEMMA DecimalReads ==
  ASSUME NEW n \in Int
  PROVE  Reference!Numbers(Decimal(n)) = {n}
<1> DEFINE z == 0
           C == Int
           d == Decimal(n)
<1>1. z \in {0, 1} /\ z # 1
  OBVIOUS
<1>2. ItemOf(z, n) = <<>> \o d
  BY DEF ItemOf
<1> HIDE DEF z, d
<1>3. Reference!Numbers(ItemOf(z, n)) = {n} /\ d \in Seq(C)
  BY <1>1, ItemReads DEF d
<1> HIDE DEF C
<1>4. <<>> \o d = d
  BY ONLY <1>3, ConcatEmptySeq
<1> QED BY <1>2, <1>3, <1>4 DEF d

(* What SizesShown says of the result o, for a size that has a unit. *)
ShownSize(o, n, e) ==
  LET scale == Scale(o.unit - e)
      shown == Shown(Front(o.text))
      p == Ten[shown.decimals]
      exact == (n \div scale) * p + ((n % scale) * p) \div scale
  IN  /\ o.unit # 0 /\ Len(o.text) <= 7 /\ o.nul = Len(o.text)
      /\ Last(o.text) = Units[o.unit]
      /\ n >= scale /\ (o.unit < SizePB => n \div 1024 < scale)
      /\ Reference!Numbers(shown.digits) \subseteq {exact, exact + 1}
      /\ Len(shown.digits) >= 3

LEMMA SizeShown ==
  ASSUME NEW n, NEW e, NEW w, NEW v, NEW t, NEW l,
         Sized(n, e), SizeKept(n, e, w, v, t, l), Near(n, SizeScale(n, e), v, t)
  PROVE  ShownSize(HumanReadableBytes(n, e), n, e)
<1> DEFINE o == HumanReadableBytes(n, e)
           u == UnitOf(n, e)
           c == SizeScale(n, e)
           letter == Units[u]
           s == w \o <<letter>>
           C == Int
           exact == (n \div c) * Ten[t] + ((n % c) * Ten[t]) \div c
<1>1. /\ o.text = s /\ o.unit = u /\ o.nul = Len(w) + 1
      /\ w \in Seq(Int) /\ Len(w) <= 6 /\ Shows(w, v, t, l) /\ l >= 3 /\ t \in 0 .. 2
  BY DEF SizeKept
<1>2. FitsUnit(n, u, c)
  BY UnitIs
<1>3. Scale(u - e) = c
  BY DEF SizeScale
<1> HIDE DEF o, c, u
<1>4. u \in 1 .. 5 /\ c <= n /\ n \in Nat /\ c \in Int /\ (u < 5 => n \div 1024 < c)
  BY <1>2 DEF FitsUnit, Scales, Sized
<1>5. v \in {exact, exact + 1}
  BY DEF Near, c
<1> HIDE DEF exact
<1>6. letter \in C /\ w \in Seq(C)
  BY <1>1, <1>4, UnitLetters
<1> HIDE DEF C, letter
<1>7. Front(s) = w /\ Last(s) = letter /\ Len(s) = Len(w) + 1
  BY ONLY <1>6, FrontAndLast DEF s
<1> HIDE DEF s
<1>8. o.unit # 0 /\ Len(o.text) <= 7 /\ o.nul = Len(o.text) /\ Last(o.text) = letter
  <2>1. Len(w) \in Nat
    BY <1>1, LenProperties
  <2> QED BY <1>1, <1>4, <1>7, <2>1
<1> DEFINE shown == Shown(w)
<1>9. Front(o.text) = w
  BY <1>1, <1>7
<1>10. Reference!Numbers(shown.digits) = {v} /\ shown.decimals = t /\ Len(shown.digits) = l
  BY <1>1 DEF Shows
<1> HIDE DEF shown
<1>11. Reference!Numbers(shown.digits) \subseteq {exact, exact + 1} /\ Len(shown.digits) >= 3
  BY <1>1, <1>5, <1>10
<1>12. exact = (n \div c) * Ten[shown.decimals] + ((n % c) * Ten[shown.decimals]) \div c
  BY <1>10 DEF exact
<1>13. n >= c /\ (u < SizePB => n \div 1024 < c)
  BY <1>4 DEF SizePB
<1>14. Shown(Front(o.text)) = shown /\ Scale(o.unit - e) = c /\ Units[o.unit] = letter
  BY <1>1, <1>3, <1>9 DEF shown, letter
<1>15. ShownSize(o, n, e)
  BY <1>1, <1>8, <1>11, <1>12, <1>13, <1>14 DEF ShownSize
<1> QED BY <1>15 DEF o

-----------------------------------------------------------------------------
(* HumanReadableBytes() writes at most seven characters, and the Nul within *)
(* buf[8]; what it shows is the size in the largest unit of which there is  *)
(* one, or in PB, off by less than one in the last digit, with at least     *)
(* three digits when there are decimals to show, for all sizes n * 1024 ^ e *)
(* of at most 2^64 bytes with n below 1024 ^ 3 (conversion.h:47, 261-285).  *)
THEOREM SizesWritten == Spec => []SizesShown
<1>1. ASSUME Formatted PROVE SizesShown
  <2> SUFFICES ASSUME call.name = "bytes" PROVE SizesShown
    BY DEF SizesShown
  <2>1. PICK b \in Sizes : call.args = b /\ out = HumanReadableBytes(b[1], b[2])
    BY <1>1 DEF Formatted
  <2> DEFINE n == b[1]
             e == b[2]
  <2>2. /\ n \in Nat /\ n < 1073741824 /\ e \in 0 .. 5
        /\ e > 0 => n > 0
        /\ e = 4 => n <= 16777216
        /\ e = 5 => n <= 16384
    BY SizesAssumption DEF SizePB
  <2>3. call.args[1] = n /\ call.args[2] = e /\ out = HumanReadableBytes(n, e)
    BY <2>1
  <2> HIDE DEF n, e
  <2>4. CASE e = 0 /\ n < 1024
    <3>1. out.text = Decimal(n) /\ out.unit = 0
      BY <2>3, <2>4 DEF HumanReadableBytes
    <3>2. Reference!Numbers(Decimal(n)) = {n}
      BY <2>2, DecimalReads
    <3> QED BY <2>3, <2>4, <3>1, <3>2 DEF SizesShown
  <2>5. CASE ~(e = 0 /\ n < 1024)
    <3>1. Sized(n, e)
      BY <2>2, <2>5 DEF Sized
    <3>2. PICK w, v, t, l : SizeKept(n, e, w, v, t, l) /\ Near(n, SizeScale(n, e), v, t)
      BY <3>1, SizeCut
    <3>3. ShownSize(out, n, e)
      BY <2>3, <3>1, <3>2, SizeShown
    <3>4. out.unit # 0 /\ call.args[1] = n /\ call.args[2] = e
      BY <2>3, <3>3 DEF ShownSize
    <3> QED BY <3>3, <3>4 DEF SizesShown, ShownSize
  <2> QED BY <2>4, <2>5
<1> QED BY <1>1, FormattedAlways, PTL
=============================================================================
