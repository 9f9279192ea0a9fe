--------------------------- MODULE ConversionProofs ---------------------------
(***************************************************************************)
(* What the operators of Slice.tla and Conversion.tla make of a text, of    *)
(* whatever characters, and that it is what Numerals.tla says: strtol()     *)
(* finds the longest number a text starts with, and trimming leaves what is *)
(* between the blanks.                                                      *)
(***************************************************************************)
EXTENDS Conversion, Arithmetic, SequenceTheorems

-----------------------------------------------------------------------------
(* Parts of a sequence. *)

(* What there is from the m-th to the k-th element. *)
LEMMA SliceIs ==
  ASSUME NEW S, NEW s \in Seq(S), NEW m \in Nat \ {0}, NEW k \in 0 .. Len(s), m <= k + 1
  PROVE  /\ SubSeq(s, m, k) \in Seq(S) /\ Len(SubSeq(s, m, k)) = k - m + 1
         /\ \A i \in 1 .. k - m + 1 : SubSeq(s, m, k)[i] = s[m + i - 1]
<1>1. m \in Int /\ k \in Int /\ \A i \in m .. k : s[i] \in S
  <2>1. Len(s) \in Nat /\ \A i \in m .. k : i \in 1 .. Len(s)
    BY LenProperties
  <2> QED BY <2>1, ElementOfSeq
<1>2. /\ SubSeq(s, m, k) \in Seq(S)
      /\ Len(SubSeq(s, m, k)) = IF m <= k THEN k - m + 1 ELSE 0
      /\ \A i \in 1 .. k - m + 1 : SubSeq(s, m, k)[i] = s[m + i - 1]
  BY <1>1, SubSeqProperties
<1> QED BY <1>1, <1>2

(* The part from position n on, and the part before it. *)
LEMMA FromIs ==
  ASSUME NEW S, NEW s \in Seq(S), NEW n \in 0 .. Len(s)
  PROVE  /\ From(s, n) \in Seq(S) /\ Len(From(s, n)) = Len(s) - n
         /\ \A i \in 1 .. Len(s) - n : From(s, n)[i] = s[n + i]
<1> DEFINE m == n + 1
           k == Len(s)
<1>1. /\ m \in Nat \ {0} /\ k \in 0 .. Len(s) /\ m <= k + 1
      /\ k \in Nat /\ n \in Nat /\ m = n + 1
  BY LenProperties
<1>2. From(s, n) = SubSeq(s, m, k)
  BY DEF From
<1>3. Len(s) = k
  OBVIOUS
<1> HIDE DEF m, k
<1>4. /\ SubSeq(s, m, k) \in Seq(S) /\ Len(SubSeq(s, m, k)) = k - m + 1
      /\ \A i \in 1 .. k - m + 1 : SubSeq(s, m, k)[i] = s[m + i - 1]
  BY <1>1, SliceIs
<1>5. k - m + 1 = k - n /\ \A i \in 1 .. k - n : m + i - 1 = n + i
  BY <1>1
<1> QED BY <1>2, <1>3, <1>4, <1>5

LEMMA BeforeIs ==
  ASSUME NEW S, NEW s \in Seq(S), NEW n \in 0 .. Len(s)
  PROVE  /\ Before(s, n) \in Seq(S) /\ Len(Before(s, n)) = n
         /\ \A i \in 1 .. n : Before(s, n)[i] = s[i]
<1> DEFINE m == 1
<1>1. m \in Nat \ {0} /\ m <= n + 1 /\ m = 1 /\ n \in Nat
  BY LenProperties
<1>2. Before(s, n) = SubSeq(s, m, n)
  BY DEF Before
<1> HIDE DEF m
<1>3. /\ SubSeq(s, m, n) \in Seq(S) /\ Len(SubSeq(s, m, n)) = n - m + 1
      /\ \A i \in 1 .. n - m + 1 : SubSeq(s, m, n)[i] = s[m + i - 1]
  BY <1>1, SliceIs
<1>4. n - m + 1 = n /\ \A i \in 1 .. n : m + i - 1 = i
  BY <1>1
<1> QED BY <1>2, <1>3, <1>4

(* A part of a part is a part. *)
LEMMA SlicesNest ==
  ASSUME NEW C, NEW r \in Seq(C), NEW lo \in Nat \ {0}, NEW hi \in 0 .. Len(r), lo <= hi + 1,
         NEW w, w = SubSeq(r, lo, hi),
         NEW fst \in Nat \ {0}, NEW lst \in 0 .. Len(w), fst <= lst + 1
  PROVE  SubSeq(w, fst, lst) = SubSeq(r, lo + fst - 1, lo + lst - 1)
<1>1. /\ w \in Seq(C) /\ Len(w) = hi - lo + 1
      /\ \A e \in 1 .. hi - lo + 1 : w[e] = r[lo + e - 1]
  BY SliceIs
<1> DEFINE p == lo + fst - 1
           q == lo + lst - 1
<1>2. Len(r) \in Nat
  BY LenProperties
<1>3. p \in Nat \ {0} /\ q \in 0 .. Len(r) /\ p <= q + 1
  BY <1>1, <1>2
<1>4. q - p + 1 = lst - fst + 1
  BY <1>1, <1>2
<1>5. \A e \in 1 .. lst - fst + 1 : fst + e - 1 \in 1 .. hi - lo + 1 /\ lo + (fst + e - 1) - 1 = p + e - 1
  BY <1>1, <1>2
<1> HIDE DEF p, q
<1>6. /\ SubSeq(r, p, q) \in Seq(C) /\ Len(SubSeq(r, p, q)) = q - p + 1
      /\ \A e \in 1 .. q - p + 1 : SubSeq(r, p, q)[e] = r[p + e - 1]
  BY <1>3, SliceIs
<1>7. /\ SubSeq(w, fst, lst) \in Seq(C) /\ Len(SubSeq(w, fst, lst)) = lst - fst + 1
      /\ \A e \in 1 .. lst - fst + 1 : SubSeq(w, fst, lst)[e] = w[fst + e - 1]
  BY <1>1, SliceIs
<1> DEFINE u == SubSeq(w, fst, lst)
           v == SubSeq(r, p, q)
<1>8. u \in Seq(C) /\ v \in Seq(C) /\ Len(u) = Len(v)
      /\ \A e \in 1 .. Len(u) : u[e] = v[e]
  <2>1. ASSUME NEW e \in 1 .. lst - fst + 1
        PROVE  SubSeq(w, fst, lst)[e] = SubSeq(r, p, q)[e]
    <3>1. SubSeq(w, fst, lst)[e] = w[fst + e - 1]
      BY <1>7
    <3>2. w[fst + e - 1] = r[lo + (fst + e - 1) - 1]
      BY <1>1, <1>5
    <3>3. SubSeq(r, p, q)[e] = r[p + e - 1]
      BY <1>4, <1>6
    <3> QED BY <1>5, <3>1, <3>2, <3>3
  <2> QED BY <1>4, <1>6, <1>7, <2>1
<1> HIDE DEF u, v
<1>9. u = v
  BY <1>8, SeqEqual
<1> QED BY <1>9 DEF u, v, p, q

(* How far a sequence consists of elements of X. *)
LEMMA LeadingIs ==
  ASSUME NEW S, NEW s \in Seq(S), NEW X
  PROVE  /\ Leading(s, X) \in 0 .. Len(s)
         /\ \A i \in 1 .. Leading(s, X) : s[i] \in X
         /\ Leading(s, X) < Len(s) => s[Leading(s, X) + 1] \notin X
<1> DEFINE n == Len(s)
           D == {e \in 0 .. n : \A i \in 1 .. e : s[i] \in X}
           d == Max(D)
<1>1. n \in Int /\ n >= 0 /\ Leading(s, X) = d
  BY LenProperties DEF Leading
<1> HIDE DEF n, d
<1>2. D \in SUBSET Int /\ D # {} /\ \A e \in D : e <= n
  <2>1. 0 \in D
    BY <1>1
  <2> QED BY <1>1, <2>1
<1>3. d \in D /\ \A e \in D : e <= d
  <2> HIDE DEF D
  <2> QED BY <1>1, <1>2, MaxOf DEF d
<1>4. ASSUME d < n PROVE s[d + 1] \notin X
  <2> SUFFICES ASSUME s[d + 1] \in X PROVE FALSE
    OBVIOUS
  <2>1. d + 1 \in D
    <3>1. \A i \in 1 .. d + 1 : i \in 1 .. d \/ i = d + 1
      BY <1>1, <1>3
    <3> QED BY <1>1, <1>3, <1>4, <3>1
  <2> QED BY <1>1, <1>3, <2>1
<1> QED BY <1>1, <1>3, <1>4 DEF n

LEMMA LeadingUnique ==
  ASSUME NEW S, NEW s \in Seq(S), NEW X, NEW n \in 0 .. Len(s),
         \A i \in 1 .. n : s[i] \in X, n < Len(s) => s[n + 1] \notin X
  PROVE  Leading(s, X) = n
<1> DEFINE l == Leading(s, X)
<1>1. l \in 0 .. Len(s) /\ (\A i \in 1 .. l : s[i] \in X) /\ (l < Len(s) => s[l + 1] \notin X)
  BY LeadingIs
<1>2. Len(s) \in Nat
  BY LenProperties
<1> HIDE DEF l
<1>3. CASE l < n
  <2>1. l + 1 \in 1 .. n
    BY <1>1, <1>2, <1>3
  <2> QED BY <1>1, <1>2, <1>3, <2>1
<1>4. CASE n < l
  <2>1. n + 1 \in 1 .. l
    BY <1>1, <1>2, <1>4
  <2> QED BY <1>1, <1>2, <1>4, <2>1
<1>5. l = n
  BY <1>1, <1>2, <1>3, <1>4
<1> QED BY <1>5 DEF l

-----------------------------------------------------------------------------
(* The value of a sequence of digits. *)

Horner(d) == FoldLeft(LAMBDA n, c : 10 * n + Digit[c], 0, d)

(* What each digit counts for. *)
PlaceValues(d) == [i \in DOMAIN d |-> Digit[d[i]] * Ten[Len(d) - i]]

(* The values of the beginnings of d, as the fold goes through them. *)
Unfolded(d, h) ==
  [s \in SUBSET DOMAIN d |->
     IF s = {} THEN 0 ELSE 10 * h[s \ {Max(s)}] + Digit[d[Max(s)]]]

Folded(d) == CHOOSE h : h = Unfolded(d, h)

LEMMA HornerFolds == ASSUME NEW d PROVE Horner(d) = Folded(d)[DOMAIN d]
BY DEF Horner, FoldLeft, MapThenFoldSet, Folded, Unfolded

LEMMA FoldedFix ==
  ASSUME NEW d, NEW h, h = Unfolded(d, h)
  PROVE  Folded(d) = Unfolded(d, Folded(d))
BY DEF Folded

LEMMA FoldedIs ==
  ASSUME NEW d \in Seq(DOMAIN Digit)
  PROVE  /\ Folded(d)[{}] = 0
         /\ \A k \in 0 .. Len(d) - 1 :
              Folded(d)[1 .. k + 1] = 10 * Folded(d)[1 .. k] + Digit[d[k + 1]]
<1> DEFINE n == Len(d)
           R == 1 .. n
           last == [s \in SUBSET R |-> Max(s)]
           append == [i \in R |-> [v \in Nat |-> 10 * v + Digit[d[i]]]]
           zero == 0
<1>1. n \in Nat /\ DOMAIN d = R /\ IsFiniteSet(R)
  <2>1. n \in Nat /\ DOMAIN d = R
    BY LenProperties
  <2>2. IsFiniteSet(R)
    BY <2>1, FS_Interval
  <2> QED BY <2>1, <2>2
<1>2. \A i \in R : Digit[d[i]] \in Nat
  <2>1. \A i \in R : d[i] \in DOMAIN Digit
    BY ElementOfSeq
  <2> QED BY <2>1, CharactersAssumption
<1>3. \A s \in SUBSET R : s # {} => last[s] \in s /\ last[s] = Max(s)
  <2>1. ASSUME NEW s \in SUBSET R, s # {} PROVE Max(s) \in s
    <3>1. s \in SUBSET Int /\ n \in Int /\ \A x \in s : x <= n
      BY <1>1
    <3> HIDE DEF R, n
    <3> QED BY <2>1, <3>1, MaxOf
  <2> QED BY <2>1
<1>4. append \in [R -> [Nat -> Nat]] /\ zero \in Nat
  BY <1>2
<1>5. \A i \in R, v \in Nat : append[i][v] = 10 * v + Digit[d[i]]
  OBVIOUS
<1> HIDE DEF last, append, zero, R, n
<1>6. PICK g \in [SUBSET R -> Nat] : \A s \in SUBSET R :
        g[s] = IF s = {} THEN zero ELSE append[last[s]][g[s \ {last[s]}]]
  <2>1. \A s \in SUBSET R : s # {} => last[s] \in s
    BY <1>3
  <2> DEFINE N == Nat
  <2>2. append \in [R -> [N -> N]] /\ zero \in N
    BY <1>4
  <2> HIDE DEF N
  <2>3. Picks(R, last)
    BY <2>1 DEF Picks
  <2>4. PICK g : FoldsUp(R, N, zero, append, last, g)
    BY <1>1, <2>2, <2>3, FoldsExist
  <2> QED BY <2>4 DEF FoldsUp, N
<1>7. ASSUME NEW s \in SUBSET R
      PROVE  g[s] = IF s = {} THEN 0 ELSE 10 * g[s \ {Max(s)}] + Digit[d[Max(s)]]
  <2>1. CASE s = {}
    BY <1>6, <2>1 DEF zero
  <2>2. CASE s # {}
    <3>1. last[s] \in R /\ last[s] = Max(s) /\ s \ {last[s]} \in SUBSET R
      BY <1>3, <2>2
    <3>2. g[s \ {last[s]}] \in Nat
      BY <3>1
    <3>3. g[s] = append[last[s]][g[s \ {last[s]}]]
      BY <1>6, <2>2
    <3> QED BY <1>5, <2>2, <3>1, <3>2, <3>3
  <2> QED BY <2>1, <2>2
<1>8. g = Unfolded(d, g)
  BY <1>1, <1>7 DEF Unfolded
<1>9. Folded(d) = Unfolded(d, Folded(d))
  BY <1>8, FoldedFix
<1> DEFINE h == Folded(d)
<1>10. h = Unfolded(d, h)
  BY <1>9
<1> HIDE DEF h
<1>11. \A s \in SUBSET R : h[s] = IF s = {} THEN 0 ELSE 10 * h[s \ {Max(s)}] + Digit[d[Max(s)]]
  BY <1>1, <1>10 DEF Unfolded
<1>12. ASSUME NEW k \in 0 .. n - 1
       PROVE  h[1 .. k + 1] = 10 * h[1 .. k] + Digit[d[k + 1]]
  <2> DEFINE s == 1 .. k + 1
             m == k + 1
  <2>1. s \in SUBSET R /\ s # {} /\ s \ {m} = 1 .. k
    <3>1. k + 1 <= n /\ k \in Nat /\ n \in Nat
      BY <1>1
    <3>2. s \ {m} = 1 .. k /\ m \in s
      BY <3>1
    <3>3. \A i \in s : i \in 1 .. n
      BY <3>1
    <3> HIDE DEF s, m
    <3> QED BY <3>2, <3>3 DEF R
  <2>2. s \in SUBSET Int /\ m \in s /\ \A x \in s : x <= m
    OBVIOUS
  <2> HIDE DEF s, m
  <2>3. Max(s) = m
    BY <2>2, MaxIs
  <2>4. h[s] = 10 * h[s \ {m}] + Digit[d[m]]
    BY <1>11, <2>1, <2>3
  <2> QED BY <2>1, <2>4 DEF s, m
<1> QED BY <1>11, <1>12 DEF h, n

(* Digit by digit is place by place. *)
LEMMA HornerIs ==
  ASSUME NEW d \in Seq(DOMAIN Digit)
  PROVE  Horner(d) = SumFunctionOnSet(PlaceValues(d), DOMAIN d) /\ Horner(d) \in Nat
<1> DEFINE n == Len(d)
           place(k) == [i \in 1 .. k |-> Digit[d[i]] * Ten[k - i]]
           sum(k) == SumFunctionOnSet(place(k), 1 .. k)
           h == Folded(d)
           G == {k \in Nat : k <= n => h[1 .. k] = sum(k) /\ sum(k) \in Nat}
<1>1. n \in Nat /\ DOMAIN d = 1 .. n
  BY LenProperties
<1>2. \A i \in 1 .. n : Digit[d[i]] \in Nat
  <2>1. \A i \in 1 .. n : d[i] \in DOMAIN Digit
    BY ElementOfSeq
  <2> QED BY <2>1, CharactersAssumption
<1>3. /\ h[{}] = 0
      /\ \A k \in 0 .. n - 1 : h[1 .. k + 1] = 10 * h[1 .. k] + Digit[d[k + 1]]
  BY FoldedIs
<1>4. /\ \A k \in Nat : Ten[k] \in Nat
      /\ Ten[0] = 1 /\ \A k \in Nat : Ten[k + 1] = 10 * Ten[k]
  BY TenIs
<1>5. ASSUME NEW k \in Nat, k <= n, NEW i \in 1 .. k
      PROVE  place(k)[i] = Digit[d[i]] * Ten[k - i] /\ place(k)[i] \in Nat
  <2>1. Digit[d[i]] \in Nat /\ k - i \in Nat
    BY <1>1, <1>2, <1>5
  <2>2. Ten[k - i] \in Nat
    BY <1>4, <2>1
  <2> QED BY <2>1, <2>2
<1> HIDE DEF h, n
<1>6. 0 \in G
  <2>1. 1 .. 0 = {}
    OBVIOUS
  <2>2. sum(0) = 0
    BY <2>1, SumEmpty
  <2> HIDE DEF sum
  <2> QED BY <1>3, <2>1, <2>2
<1>7. ASSUME NEW k \in Nat, k \in G PROVE k + 1 \in G
  <2> SUFFICES ASSUME k + 1 <= n
               PROVE  h[1 .. k + 1] = sum(k + 1) /\ sum(k + 1) \in Nat
    OBVIOUS
  <2> DEFINE f == place(k)
             e == place(k + 1)
             t == [i \in 1 .. k |-> 10 * f[i]]
             m == k + 1
  <2>1. /\ k <= n /\ k \in 0 .. n - 1 /\ m \in Nat /\ m <= n /\ m = k + 1
        /\ m \in 1 .. m
    BY <1>1
  <2>2. h[1 .. k] = sum(k) /\ sum(k) \in Nat
    BY <1>7, <2>1
  <2>3. \A i \in 1 .. k : f[i] = Digit[d[i]] * Ten[k - i] /\ f[i] \in Nat
    BY <1>5, <2>1
  <2>4. \A i \in 1 .. m : e[i] = Digit[d[i]] * Ten[m - i] /\ e[i] \in Nat
    BY <1>5, <2>1
  <2>5. \A i \in 1 .. k : t[i] = 10 * f[i] /\ t[i] \in Nat
    BY <2>3
  <2>6. sum(k) = SumFunctionOnSet(f, 1 .. k) /\ sum(k + 1) = SumFunctionOnSet(e, 1 .. k + 1)
    OBVIOUS
  <2> HIDE DEF place, sum, f, e, t, m
  <2>7. \A i \in 1 .. k : t[i] \in Int /\ e[i] = t[i]
    <3>1. ASSUME NEW i \in 1 .. k PROVE e[i] = t[i]
      <4>1. k - i \in Nat /\ (k - i) + 1 = m - i /\ i \in 1 .. m
        BY <2>1
      <4>2. Ten[m - i] = 10 * Ten[k - i] /\ Ten[k - i] \in Nat
        BY <1>4, <4>1
      <4>3. Digit[d[i]] \in Nat
        BY <1>1, <1>2, <2>1
      <4>4. e[i] = Digit[d[i]] * Ten[m - i]
        BY <2>4, <4>1
      <4>5. t[i] = 10 * (Digit[d[i]] * Ten[k - i])
        BY <2>3, <2>5
      <4> DEFINE a == Digit[d[i]]  p == Ten[k - i]
      <4>6. a \in Nat /\ p \in Nat /\ e[i] = a * (10 * p) /\ t[i] = 10 * (a * p)
        BY <4>2, <4>3, <4>4, <4>5
      <4> HIDE DEF a, p
      <4>7. a * (10 * p) = 10 * (a * p)
        BY <4>6
      <4> QED BY <4>6, <4>7
    <3> QED BY <2>5, <3>1
  <2>8. e[k + 1] = Digit[d[k + 1]] /\ e[k + 1] \in Nat
    <3>1. m - m = 0 /\ Digit[d[m]] \in Nat
      BY <1>1, <1>2, <2>1
    <3>2. e[m] = Digit[d[m]] * Ten[m - m] /\ e[m] \in Nat
      BY <2>1, <2>4
    <3>3. e[m] = Digit[d[m]] * 1
      BY <1>4, <3>1, <3>2
    <3> QED BY <2>1, <3>1, <3>2, <3>3
  <2>9. SumFunctionOnSet(e, 1 .. k + 1) = SumFunctionOnSet(t, 1 .. k) + e[k + 1]
    <3>1. e[k + 1] \in Int
      BY <2>8
    <3> QED BY <2>7, <3>1, SumAppend
  <2>10. SumFunctionOnSet(t, 1 .. k) = 10 * SumFunctionOnSet(f, 1 .. k)
    <3>1. \A i \in 1 .. k : f[i] \in Int /\ t[i] = 10 * f[i]
      BY <2>3, <2>5
    <3> QED BY <3>1, SumScale
  <2>11. sum(k + 1) = 10 * sum(k) + Digit[d[k + 1]]
    BY <2>6, <2>8, <2>9, <2>10
  <2>12. Digit[d[k + 1]] \in Nat
    BY <2>8
  <2> QED BY <1>3, <2>1, <2>2, <2>11, <2>12
<1>8. n \in G
  <2> HIDE DEF G
  <2> QED BY <1>1, <1>6, <1>7, NatInd
<1>9. h[1 .. n] = sum(n) /\ sum(n) \in Nat
  BY <1>1, <1>8
<1>10. PlaceValues(d) = place(n)
  BY <1>1 DEF PlaceValues, n
<1> QED BY <1>1, <1>9, <1>10, HornerFolds DEF h, n

-----------------------------------------------------------------------------
(* Numbers in a text. *)

(* The text starts with a number that ends at n: b blanks, g signs, and     *)
(* digits.                                                                  *)
NumberAt(s, b, g, n) ==
  /\ b \in Nat /\ g \in {0, 1} /\ n \in Nat /\ b + g < n /\ n <= Len(s)
  /\ \A i \in 1 .. b : s[i] \in Spaces
  /\ g = 1 => s[b + 1] \in {Minus, Plus}
  /\ \A i \in b + g + 1 .. n : s[i] \in DOMAIN Digit

(* The number is as long as can be. *)
Longest(s, n) == n < Len(s) => s[n + 1] \notin DOMAIN Digit

AmountAt(s, b, g, n) ==
  LET size == Horner(SubSeq(s, b + g + 1, n))
  IN  IF s[b + 1] = Minus THEN -size ELSE size

LEMMA NumberUnique ==
  ASSUME NEW s, NEW b, NEW g, NEW n, NumberAt(s, b, g, n),
         NEW c, NEW h, NEW m, NumberAt(s, c, h, m)
  PROVE  b = c /\ g = h
<1>1. ASSUME NEW a, NEW f, NEW k, NumberAt(s, a, f, k)
      PROVE  /\ a \in Nat /\ f \in {0, 1} /\ s[a + 1] \notin Spaces
             /\ \A i \in 1 .. a : s[i] \in Spaces
             /\ f = 1 <=> s[a + 1] \in {Minus, Plus}
  <2>1. f = 0 => s[a + 1] \in DOMAIN Digit
    BY <1>1 DEF NumberAt
  <2> QED BY <1>1, <2>1, CharactersAssumption DEF NumberAt
<1>2. /\ b \in Nat /\ g \in {0, 1} /\ s[b + 1] \notin Spaces
      /\ \A i \in 1 .. b : s[i] \in Spaces
      /\ g = 1 <=> s[b + 1] \in {Minus, Plus}
  BY <1>1
<1>3. /\ c \in Nat /\ h \in {0, 1} /\ s[c + 1] \notin Spaces
      /\ \A i \in 1 .. c : s[i] \in Spaces
      /\ h = 1 <=> s[c + 1] \in {Minus, Plus}
  BY <1>1
<1>4. ~(b < c)
  BY <1>2, <1>3
<1>5. ~(c < b)
  BY <1>2, <1>3
<1>6. b = c
  BY <1>2, <1>3, <1>4, <1>5
<1> QED BY <1>2, <1>3, <1>6

LEMMA NumberEndsUnique ==
  ASSUME NEW s, NEW b, NEW g, NEW n, NumberAt(s, b, g, n), Longest(s, n),
         NEW c, NEW h, NEW m, NumberAt(s, c, h, m)
  PROVE  m <= n
<1>1. b = c /\ g = h
  BY NumberUnique
<1>2. ASSUME n < m PROVE FALSE
  <2>1. n + 1 \in b + g + 1 .. m /\ n < Len(s)
    BY <1>1, <1>2 DEF NumberAt
  <2>2. s[n + 1] \in DOMAIN Digit
    BY <1>1, <2>1 DEF NumberAt
  <2> QED BY <2>1, <2>2 DEF Longest
<1> QED BY <1>2 DEF NumberAt

(* strtol() finds the longest number the text starts with. *)
LEMMA StrtolIs ==
  ASSUME NEW S, NEW s \in Seq(S)
  PROVE  \/ \E b, g, n : /\ NumberAt(s, b, g, n) /\ Longest(s, n)
                         /\ Strtol(s) = [num |-> AmountAt(s, b, g, n), end |-> n]
         \/ /\ \A b, g, n : ~NumberAt(s, b, g, n)
            /\ Strtol(s).end = 0 /\ Strtol(s).num = 0
<1> DEFINE blanks == Leading(s, Spaces)
           sign == IF blanks < Len(s) /\ s[blanks + 1] \in {Minus, Plus}
                   THEN <<s[blanks + 1]>> ELSE <<>>
           g == IF blanks < Len(s) /\ s[blanks + 1] \in {Minus, Plus} THEN 1 ELSE 0
           k == blanks + g
           rest == From(s, k)
           l == Leading(rest, DOMAIN Digit)
           digits == Before(rest, l)
           value == Horner(digits)
           n == k + l
<1>1. /\ blanks \in 0 .. Len(s) /\ Len(s) \in Nat
      /\ \A i \in 1 .. blanks : s[i] \in Spaces
      /\ blanks < Len(s) => s[blanks + 1] \notin Spaces
  BY LeadingIs, LenProperties
<1>2. Len(sign) = g /\ (sign = <<Minus>> <=> g = 1 /\ s[blanks + 1] = Minus)
  OBVIOUS
<1>3. Strtol(s) = [num |-> IF sign = <<Minus>> THEN -value ELSE value,
                   end |-> IF digits = <<>> THEN 0 ELSE blanks + Len(sign) + Len(digits)]
  BY <1>2 DEF Strtol, Horner
<1> HIDE DEF blanks
<1>4. g \in {0, 1} /\ k \in 0 .. Len(s) /\ k \in Nat /\ g = 1 => s[blanks + 1] \in {Minus, Plus}
  BY <1>1
<1>5. g \in {0, 1} /\ k \in 0 .. Len(s) /\ k \in Nat
  BY <1>1
<1>6. k = blanks + g /\ (g = 1 => s[blanks + 1] \in {Minus, Plus})
      /\ (g = 0 /\ blanks < Len(s) => s[blanks + 1] \notin {Minus, Plus})
  OBVIOUS
<1> HIDE DEF sign, g, k
<1>7. /\ rest \in Seq(S) /\ Len(rest) = Len(s) - k
      /\ \A i \in 1 .. Len(s) - k : rest[i] = s[k + i]
  BY <1>5, FromIs
<1> HIDE DEF rest
<1>8. /\ l \in 0 .. Len(rest) /\ \A i \in 1 .. l : rest[i] \in DOMAIN Digit
      /\ l < Len(rest) => rest[l + 1] \notin DOMAIN Digit
  BY <1>7, LeadingIs
<1> HIDE DEF l
<1>9. /\ digits \in Seq(S) /\ Len(digits) = l /\ \A i \in 1 .. l : digits[i] = rest[i]
  BY <1>7, <1>8, BeforeIs
<1>10. n \in Nat /\ n <= Len(s) /\ \A i \in k + 1 .. n : s[i] \in DOMAIN Digit
  <2>1. ASSUME NEW i \in k + 1 .. n PROVE s[i] \in DOMAIN Digit
    <3>1. i - k \in 1 .. l /\ k + (i - k) = i /\ i - k \in 1 .. Len(s) - k
      BY <1>1, <1>5, <1>7, <1>8
    <3> QED BY <1>7, <1>8, <3>1
  <2> QED BY <1>1, <1>5, <1>7, <1>8, <2>1
<1>11. n < Len(s) => s[n + 1] \notin DOMAIN Digit
  <2> SUFFICES ASSUME n < Len(s) PROVE s[n + 1] \notin DOMAIN Digit
    OBVIOUS
  <2>1. l < Len(rest) /\ l + 1 \in 1 .. Len(s) - k /\ k + (l + 1) = n + 1
    BY <1>1, <1>5, <1>7, <1>8
  <2> QED BY <1>7, <1>8, <2>1
<1>12. CASE l = 0
  <2>1. digits = <<>>
    BY <1>9, <1>12, EmptySeq
  <2>2. value = 0
    <3>1. digits \in Seq(DOMAIN Digit) /\ DOMAIN digits = {}
      BY <2>1, EmptySeq
    <3> HIDE DEF digits
    <3>2. value = SumFunctionOnSet(PlaceValues(digits), DOMAIN digits)
      BY <3>1, HornerIs
    <3> QED BY <3>1, <3>2, SumEmpty
  <2>3. Strtol(s).end = 0 /\ Strtol(s).num = 0
    <3> HIDE DEF value, digits
    <3>1. Strtol(s).num = (IF sign = <<Minus>> THEN -value ELSE value) /\ Strtol(s).end = 0
      BY <1>3, <2>1
    <3>2. -value = 0
      <4>1. \A v \in Int : -v = 0 - v
        OBVIOUS
      <4>2. value \in Int
        BY <2>2
      <4>3. -value = 0 - value
        BY <4>1, <4>2
      <4>4. -value = 0 - 0
        BY <2>2, <4>3
      <4> QED BY <4>4
    <3> QED BY <2>2, <3>1, <3>2
  <2>4. ASSUME NEW b, NEW h, NEW m, NumberAt(s, b, h, m) PROVE FALSE
    <3>1. b \in Nat /\ h \in {0, 1} /\ m \in Nat /\ b + h < m /\ m <= Len(s)
      BY <2>4 DEF NumberAt
    <3>2. s[b + 1] \notin Spaces /\ s[b + h + 1] \in DOMAIN Digit
          /\ (h = 1 <=> s[b + 1] \in {Minus, Plus})
      <4>1. b + h + 1 \in b + h + 1 .. m
        BY <3>1
      <4>2. s[b + h + 1] \in DOMAIN Digit
        BY <2>4, <4>1 DEF NumberAt
      <4>3. h = 0 => s[b + 1] \in DOMAIN Digit
        BY <3>1, <4>2
      <4>4. h = 1 => s[b + 1] \in {Minus, Plus}
        BY <2>4 DEF NumberAt
      <4> QED BY <3>1, <4>2, <4>3, <4>4, CharactersAssumption
    <3>3. \A i \in 1 .. b : s[i] \in Spaces
      BY <2>4 DEF NumberAt
    <3>4. b = blanks
      <4>1. ~(b < blanks)
        BY <1>1, <3>1, <3>2
      <4>2. ~(blanks < b)
        BY <1>1, <3>1, <3>3
      <4> QED BY <1>1, <3>1, <4>1, <4>2
    <3>5. h = g
      BY <1>1, <1>5, <1>6, <3>1, <3>2, <3>4
    <3>6. n = k /\ n < Len(s) /\ n + 1 = b + h + 1
      BY <1>1, <1>5, <1>6, <1>12, <3>1, <3>4, <3>5
    <3> QED BY <1>11, <3>2, <3>6
  <2> QED BY <2>3, <2>4
<1>13. CASE l # 0
  <2>1. digits # <<>> /\ Len(digits) = l
    BY <1>9, <1>13, EmptySeq
  <2>2. NumberAt(s, blanks, g, n) /\ Longest(s, n)
    BY <1>1, <1>5, <1>6, <1>8, <1>10, <1>11, <1>13 DEF NumberAt, Longest
  <2>3. digits = SubSeq(s, blanks + g + 1, n)
    <3> DEFINE p == k + 1
               e == Len(s)
               one == 1
    <3>1. /\ p \in Nat \ {0} /\ e \in 0 .. Len(s) /\ p <= e + 1 /\ one \in Nat \ {0}
          /\ rest = SubSeq(s, p, e) /\ l \in 0 .. Len(rest) /\ one <= l + 1
      BY <1>1, <1>5, <1>8 DEF rest, From
    <3>2. digits = SubSeq(rest, one, l)
      BY DEF Before
    <3>3. p + one - 1 = blanks + g + 1 /\ p + l - 1 = n
      BY <1>1, <1>5, <1>6, <1>8
    <3> HIDE DEF p, e, one, digits, n
    <3>4. SubSeq(rest, one, l) = SubSeq(s, p + one - 1, p + l - 1)
      BY <3>1, SlicesNest
    <3> QED BY <3>2, <3>3, <3>4
  <2>4. blanks + Len(sign) + Len(digits) = n
    BY <1>2, <1>6, <2>1
  <2>5. (sign = <<Minus>>) <=> (s[blanks + 1] = Minus)
    <3>1. blanks < Len(s)
      BY <1>1, <1>5, <1>6, <1>8, <1>10, <1>13
    <3> QED BY <1>2, <1>5, <1>6, <3>1
  <2>6. Strtol(s) = [num |-> AmountAt(s, blanks, g, n), end |-> n]
    <3> HIDE DEF digits, n
    <3> QED BY <1>3, <2>1, <2>3, <2>4, <2>5 DEF AmountAt
  <2> QED BY <2>2, <2>6
<1> QED BY <1>12, <1>13

-----------------------------------------------------------------------------
(* Blanks around a text. *)

(* All that is outside of f + 1 .. l is blank. *)
Window(s, f, l) ==
  /\ f \in Nat /\ l \in Nat /\ f <= l /\ l <= Len(s)
  /\ \A i \in 1 .. f : s[i] \in Spaces
  /\ \A i \in l + 1 .. Len(s) : s[i] \in Spaces

(* ... and there is no blank at the end of what is inside. *)
EndsSolid(s, f, l) == f < l => s[l] \notin Spaces

LEMMA TrimStartIs ==
  ASSUME NEW S, NEW s \in Seq(S), Valid(s)
  PROVE  \E f : /\ Window(s, f, Len(s)) /\ TrimStart(s) = SubSeq(s, f + 1, Len(s))
                /\ f < Len(s) => s[f + 1] \notin Spaces
<1> DEFINE f == Leading(s, Spaces)
<1>1. /\ f \in 0 .. Len(s) /\ Len(s) \in Nat
      /\ \A i \in 1 .. f : s[i] \in Spaces
      /\ f < Len(s) => s[f + 1] \notin Spaces
  BY LeadingIs, LenProperties
<1>2. TrimStart(s) = SubSeq(s, f + 1, Len(s))
  BY DEF TrimStart, From
<1> HIDE DEF f
<1>3. Window(s, f, Len(s))
  BY <1>1 DEF Window
<1> QED BY <1>1, <1>2, <1>3

LEMMA TrimEndIs ==
  ASSUME NEW S, NEW s \in Seq(S), Valid(s)
  PROVE  \E l : /\ Window(s, 0, l) /\ EndsSolid(s, 0, l) /\ TrimEnd(s) = SubSeq(s, 1, l)
                /\ 0 < l => s[l] \notin Spaces
<1> DEFINE I == {i \in 1 .. Len(s) : s[i] \notin Spaces}
           l == IF I # {} THEN Max(I) ELSE 0
<1>1. Len(s) \in Int /\ Len(s) \in Nat
  BY LenProperties
<1>2. TrimEnd(s) = SubSeq(s, 1, l)
  BY DEF TrimEnd, SelectLastInSeq, Before
<1>3. l \in 0 .. Len(s) /\ (0 < l => s[l] \notin Spaces)
      /\ \A i \in l + 1 .. Len(s) : s[i] \in Spaces
  <2>1. CASE I = {}
    <3>1. l = 0 /\ \A i \in 1 .. Len(s) : s[i] \in Spaces
      BY <2>1
    <3> HIDE DEF l, I
    <3> QED BY <1>1, <3>1
  <2>2. CASE I # {}
    <3>1. I \in SUBSET Int /\ \A i \in I : i <= Len(s)
      BY <1>1
    <3>2. \A i \in I : i \in 1 .. Len(s) /\ s[i] \notin Spaces
      OBVIOUS
    <3>3. \A i \in 1 .. Len(s) : i \notin I => s[i] \in Spaces
      OBVIOUS
    <3>4. l = Max(I)
      BY <2>2
    <3> HIDE DEF I, l
    <3>5. Max(I) \in I /\ \A i \in I : i <= Max(I)
      BY <1>1, <2>2, <3>1, MaxOf
    <3>6. l \in I /\ l \in 1 .. Len(s) /\ s[l] \notin Spaces
      BY <3>2, <3>4, <3>5
    <3>7. ASSUME NEW i \in l + 1 .. Len(s) PROVE s[i] \in Spaces
      <4>1. i \in 1 .. Len(s) /\ ~(i <= l)
        BY <1>1, <3>6
      <4> QED BY <3>3, <3>4, <3>5, <4>1
    <3> QED BY <1>1, <3>6, <3>7
  <2> QED BY <2>1, <2>2
<1> HIDE DEF l
<1>4. Window(s, 0, l) /\ EndsSolid(s, 0, l)
  BY <1>1, <1>3 DEF Window, EndsSolid
<1> QED BY <1>2, <1>3, <1>4

LEMMA TrimIs ==
  ASSUME NEW S, NEW s \in Seq(S), Invalid \notin Seq(S)
  PROVE  \E f, l : /\ Window(s, f, l) /\ EndsSolid(s, f, l)
                   /\ Trim(s) = SubSeq(s, f + 1, l)
                   /\ f < l => s[f + 1] \notin Spaces
<1> DEFINE n == Len(s)
           t == TrimStart(s)
<1>1. Valid(s) /\ n \in Nat
  BY LenProperties DEF Valid
<1>2. PICK f : /\ Window(s, f, n) /\ t = SubSeq(s, f + 1, n)
               /\ f < n => s[f + 1] \notin Spaces
  BY <1>1, TrimStartIs
<1> HIDE DEF t
<1> DEFINE m == f + 1
<1>3. /\ f \in Nat /\ f <= n /\ m \in Nat \ {0} /\ n \in 0 .. Len(s) /\ m <= n + 1
      /\ t = SubSeq(s, m, n)
  BY <1>1, <1>2 DEF Window
<1> HIDE DEF n, m
<1>4. /\ t \in Seq(S) /\ Len(t) = n - m + 1
      /\ \A i \in 1 .. n - m + 1 : t[i] = s[m + i - 1]
  BY <1>3, SliceIs
<1>5. Valid(t)
  BY <1>4 DEF Valid
<1>6. PICK k : /\ Window(t, 0, k) /\ TrimEnd(t) = SubSeq(t, 1, k)
               /\ 0 < k => t[k] \notin Spaces
  BY <1>4, <1>5, TrimEndIs
<1> DEFINE one == 1
           l == f + k
<1>7. m = f + 1 /\ n = Len(s)
  BY DEF m, n
<1>8. /\ k \in Nat /\ k <= n - f /\ k \in 0 .. Len(t)
      /\ \A i \in k + 1 .. n - f : t[i] \in Spaces
  <2>1. Len(t) = n - f
    BY <1>1, <1>3, <1>4, <1>7
  <2>2. k \in Nat /\ k <= Len(t) /\ \A i \in k + 1 .. Len(t) : t[i] \in Spaces
    BY <1>6 DEF Window
  <2> QED BY <2>1, <2>2
<1>9. one \in Nat \ {0} /\ one <= k + 1 /\ m + one - 1 = f + 1 /\ m + k - 1 = l
      /\ l \in Nat /\ f <= l /\ l <= n
  BY <1>1, <1>3, <1>7, <1>8
<1>10. SubSeq(t, one, k) = SubSeq(s, m + one - 1, m + k - 1)
  <2> HIDE DEF one, l
  <2> QED BY <1>3, <1>8, <1>9, SlicesNest
<1>11. Trim(s) = SubSeq(s, f + 1, l)
  BY <1>6, <1>9, <1>10 DEF Trim, t
<1>12. ASSUME NEW i \in l + 1 .. n PROVE s[i] \in Spaces
  <2>1. i - f \in k + 1 .. n - f /\ i - f \in 1 .. n - m + 1 /\ m + (i - f) - 1 = i
    BY <1>1, <1>3, <1>7, <1>8, <1>9
  <2> QED BY <1>4, <1>8, <2>1
<1>13. ASSUME f < l PROVE s[l] \notin Spaces /\ s[f + 1] \notin Spaces
  <2>1. 0 < k /\ k \in 1 .. n - m + 1 /\ m + k - 1 = l /\ f < n
    BY <1>1, <1>3, <1>7, <1>8, <1>9, <1>13
  <2> QED BY <1>2, <1>4, <1>6, <2>1
<1> HIDE DEF l
<1>14. Window(s, f, l)
  BY <1>1, <1>2, <1>7, <1>9, <1>12 DEF Window
<1> QED BY <1>11, <1>13, <1>14 DEF EndsSolid

(* The operators the reference uses are the same ones. *)
LEMMA SameMin == ASSUME NEW D PROVE Reference!Min(D) = Min(D)
BY DEF Min, Reference!Min

LEMMA SameMax == ASSUME NEW D PROVE Reference!Max(D) = Max(D)
BY DEF Max, Reference!Max

LEMMA SameTen == Reference!Ten = Ten
BY DEF Ten, Reference!Ten

LEMMA SameSum ==
  ASSUME NEW f, NEW D PROVE Reference!SumFunctionOnSet(f, D) = SumFunctionOnSet(f, D)
BY DEF SumFunctionOnSet, FoldFunctionOnSet, MapThenFoldSet,
       Reference!SumFunctionOnSet, Reference!FoldFunctionOnSet, Reference!MapThenFoldSet

(* Trimming leaves the core of a text. *)
LEMMA TrimIsCore ==
  ASSUME NEW S, NEW s \in Seq(S), Invalid \notin Seq(S)
  PROVE  Trim(s) = Reference!Core(s)
<1> DEFINE n == Len(s)
           D == {i \in DOMAIN s : s[i] \notin Spaces}
<1>1. PICK f, l : /\ Window(s, f, l) /\ EndsSolid(s, f, l)
                  /\ Trim(s) = SubSeq(s, f + 1, l)
                  /\ f < l => s[f + 1] \notin Spaces
  BY TrimIs
<1>2. DOMAIN s = 1 .. n /\ n \in Nat
  BY LenProperties
<1>3. Reference!Core(s) = IF D = {} THEN <<>> ELSE SubSeq(s, Min(D), Max(D))
  BY SameMin, SameMax DEF Reference!Core
<1>4. /\ f \in Nat /\ l \in Nat /\ f <= l /\ l <= n
      /\ \A i \in 1 .. n : i <= f \/ l < i => s[i] \in Spaces
      /\ f < l => s[l] \notin Spaces
  BY <1>1, <1>2 DEF Window, EndsSolid
<1>5. \A i \in D : i \in 1 .. n /\ f + 1 <= i /\ i <= l
  BY <1>2, <1>4
<1>6. CASE f = l
  <2>1. D = {}
    BY <1>4, <1>5, <1>6
  <2>2. SubSeq(s, f + 1, l) = <<>>
    BY <1>4, <1>6, SubSeqEmpty
  <2> QED BY <1>1, <1>3, <2>1, <2>2
<1>7. CASE f < l
  <2> DEFINE a == f + 1
  <2>1. a \in D /\ l \in D
    BY <1>1, <1>2, <1>4, <1>7
  <2>2. D \in SUBSET Int /\ D # {} /\ (\A i \in D : a <= i) /\ \A i \in D : i <= l
    BY <1>5, <2>1
  <2> HIDE DEF D, a
  <2>3. Min(D) = a /\ Max(D) = l
    BY <2>1, <2>2, MinIs, MaxIs
  <2> QED BY <1>1, <1>3, <2>2, <2>3 DEF a
<1> QED BY <1>4, <1>6, <1>7

-----------------------------------------------------------------------------
(* What a text stands for. *)

LEMMA UnsignedIs ==
  ASSUME NEW S, NEW t \in Seq(S)
  PROVE  \E g \in {0, 1} :
           /\ g <= Len(t) /\ (g = 1 => t[1] \in {Minus, Plus})
           /\ (g = 0 /\ Len(t) > 0 => t[1] \notin {Minus, Plus})
           /\ Reference!Unsigned(t) = SubSeq(t, g + 1, Len(t))
<1>1. Len(t) \in Nat /\ (Len(t) = 0 <=> t = <<>>)
  BY LenProperties, EmptySeq
<1>2. CASE t # <<>> /\ t[1] \in {Minus, Plus}
  <2>1. Reference!Unsigned(t) = Tail(t)
    BY <1>2 DEF Reference!Unsigned
  <2>2. Tail(t) = SubSeq(t, 2, Len(t))
    BY <1>2, TailIsSubSeq
  <2>3. 1 \in {0, 1} /\ 1 <= Len(t) /\ 1 + 1 = 2
    BY <1>1, <1>2
  <2> QED BY <1>2, <2>1, <2>2, <2>3
<1>3. CASE ~(t # <<>> /\ t[1] \in {Minus, Plus})
  <2>1. Reference!Unsigned(t) = t
    BY <1>3 DEF Reference!Unsigned
  <2>2. SubSeq(t, 1, Len(t)) = t
    BY SubSeqFull
  <2>3. 0 \in {0, 1} /\ 0 <= Len(t) /\ 0 + 1 = 1
    BY <1>1
  <2>4. Len(t) > 0 => t[1] \notin {Minus, Plus}
    BY <1>1, <1>3
  <2> WITNESS 0 \in {0, 1}
  <2> QED BY <2>1, <2>2, <2>3, <2>4
<1> QED BY <1>2, <1>3

LEMMA NumeralIs ==
  ASSUME NEW S, NEW t \in Seq(S)
  PROVE  /\ Reference!IsNumeral(t) <=> \E g : NumberAt(t, 0, g, Len(t))
         /\ \A g : NumberAt(t, 0, g, Len(t)) =>
                     Reference!ValueOf(t) = AmountAt(t, 0, g, Len(t))
<1> DEFINE n == Len(t)
           u == Reference!Unsigned(t)
<1>1. PICK g \in {0, 1} :
        /\ g <= n /\ (g = 1 => t[1] \in {Minus, Plus})
        /\ (g = 0 /\ n > 0 => t[1] \notin {Minus, Plus})
        /\ u = SubSeq(t, g + 1, n)
  BY UnsignedIs
<1>2. n \in Nat
  BY LenProperties
<1> HIDE DEF u
<1>3. u \in Seq(S) /\ Len(u) = n - g /\ \A i \in 1 .. n - g : u[i] = t[g + i]
  <2> DEFINE m == g + 1
  <2>1. m \in Nat \ {0} /\ n \in 0 .. Len(t) /\ m <= n + 1 /\ u = SubSeq(t, m, n)
    BY <1>1, <1>2
  <2>2. n - m + 1 = n - g /\ \A i \in 1 .. n - g : m + i - 1 = g + i
    BY <1>1, <1>2
  <2> HIDE DEF m, n
  <2>3. /\ SubSeq(t, m, n) \in Seq(S) /\ Len(SubSeq(t, m, n)) = n - m + 1
        /\ \A i \in 1 .. n - m + 1 : SubSeq(t, m, n)[i] = t[m + i - 1]
    BY <2>1, SliceIs
  <2> QED BY <2>1, <2>2, <2>3
<1>4. DOMAIN u = 1 .. n - g /\ (u # <<>> <=> g < n)
  <2>1. DOMAIN u = 1 .. n - g
    BY <1>3, LenProperties
  <2>2. u # <<>> <=> Len(u) # 0
    BY <1>3, EmptySeq
  <2> QED BY <1>1, <1>2, <1>3, <2>1, <2>2
<1> DEFINE Spelled == g < n /\ \A i \in g + 1 .. n : t[i] \in DOMAIN Digit
<1>5. Reference!IsNumeral(t) <=> Spelled
  <2>1. Reference!IsNumeral(t) <=> u # <<>> /\ \A i \in DOMAIN u : u[i] \in DOMAIN Digit
    BY DEF Reference!IsNumeral, u
  <2>2. ASSUME \A i \in DOMAIN u : u[i] \in DOMAIN Digit, NEW i \in g + 1 .. n
        PROVE  t[i] \in DOMAIN Digit
    <3>1. i - g \in 1 .. n - g /\ g + (i - g) = i
      BY <1>1, <1>2
    <3>2. u[i - g] \in DOMAIN Digit /\ u[i - g] = t[i]
      BY <1>3, <1>4, <2>2, <3>1
    <3> QED BY <3>2
  <2>3. ASSUME \A i \in g + 1 .. n : t[i] \in DOMAIN Digit, NEW i \in DOMAIN u
        PROVE  u[i] \in DOMAIN Digit
    <3>1. i \in 1 .. n - g /\ g + i \in g + 1 .. n
      BY <1>1, <1>2, <1>4
    <3> QED BY <1>3, <2>3, <3>1
  <2> QED BY <1>4, <2>1, <2>2, <2>3
<1>6. ASSUME Spelled PROVE NumberAt(t, 0, g, n)
  <2>1. 0 \in Nat /\ 0 + g < n /\ n <= Len(t) /\ 0 + 1 = 1 /\ 0 + g + 1 = g + 1
    BY <1>1, <1>2, <1>6
  <2> QED BY <1>1, <1>2, <1>6, <2>1 DEF NumberAt
<1>7. ASSUME NEW h, NumberAt(t, 0, h, n) PROVE h = g /\ Spelled
  <2>1. /\ h \in {0, 1} /\ h < n /\ (h = 1 => t[1] \in {Minus, Plus})
        /\ \A i \in h + 1 .. n : t[i] \in DOMAIN Digit
    <3>1. 0 + h = h /\ 0 + 1 = 1
      BY <1>7 DEF NumberAt
    <3> QED BY <1>7, <3>1 DEF NumberAt
  <2>2. h = 0 => t[1] \in DOMAIN Digit /\ n > 0
    BY <1>2, <2>1
  <2>3. h = g
    BY <1>1, <1>2, <2>1, <2>2, CharactersAssumption
  <2> QED BY <2>1, <2>3
<1>8. ASSUME NumberAt(t, 0, g, n)
      PROVE  Reference!ValueOf(t) = AmountAt(t, 0, g, n)
  <2>1. Spelled
    BY <1>7, <1>8
  <2>2. u \in Seq(DOMAIN Digit)
    <3>1. \A i \in 1 .. n - g : u[i] \in DOMAIN Digit
      <4>1. ASSUME NEW i \in 1 .. n - g PROVE u[i] \in DOMAIN Digit
        <5>1. g + i \in g + 1 .. n
          BY <1>1, <1>2
        <5> QED BY <1>3, <2>1, <5>1
      <4> QED BY <4>1
    <3>2. n - g \in Nat /\ u \in [1 .. n - g -> S]
      BY <1>1, <1>2, <1>3, LenProperties
    <3> QED BY <3>1, <3>2
  <2>3. Horner(u) = SumFunctionOnSet(PlaceValues(u), DOMAIN u)
    BY <2>2, HornerIs
  <2>4. Reference!ValueOf(t) = IF t[1] = Minus THEN -Horner(u) ELSE Horner(u)
    BY <2>3, SameSum, SameTen DEF Reference!ValueOf, u, PlaceValues
  <2>5. SubSeq(t, 0 + g + 1, n) = u /\ t[0 + 1] = t[1]
    BY <1>1, <1>2
  <2> QED BY <2>4, <2>5 DEF AmountAt
<1> HIDE DEF Spelled, n
<1>9. Reference!IsNumeral(t) <=> \E h : NumberAt(t, 0, h, n)
  BY <1>5, <1>6, <1>7
<1>10. \A h : NumberAt(t, 0, h, n) => Reference!ValueOf(t) = AmountAt(t, 0, h, n)
  BY <1>7, <1>8
<1> QED BY <1>9, <1>10 DEF n

(* t is s less the blanks around it. *)
Inside(t, s, f, l) == Window(s, f, l) /\ t = SubSeq(s, f + 1, l)

(* A number in a text is a number in what is left without the blanks ...    *)
LEMMA WindowIn ==
  ASSUME NEW C, NEW r \in Seq(C), NEW w, NEW lo, NEW hi, Inside(w, r, lo, hi),
         NEW e, NEW h, NEW k, NumberAt(w, e, h, k)
  PROVE  NumberAt(r, lo + e, h, lo + k) /\ AmountAt(r, lo + e, h, lo + k) = AmountAt(w, e, h, k)
<1> DEFINE m == lo + 1
<1>1. /\ lo \in Nat /\ hi \in Nat /\ lo <= hi /\ hi <= Len(r) /\ Len(r) \in Nat
      /\ \A i \in 1 .. lo : r[i] \in Spaces
  BY LenProperties DEF Inside, Window
<1>2. m = lo + 1 /\ m \in Nat \ {0} /\ hi \in 0 .. Len(r) /\ m <= hi + 1
  BY <1>1
<1>3. w = SubSeq(r, m, hi)
  BY DEF Inside
<1> HIDE DEF m
<1>4. /\ w \in Seq(C) /\ Len(w) = hi - m + 1
      /\ \A i \in 1 .. hi - m + 1 : w[i] = r[m + i - 1]
  BY <1>2, <1>3, SliceIs
<1>5. Len(w) = hi - lo /\ \A i \in 1 .. hi - lo : w[i] = r[lo + i]
  <2>1. hi - m + 1 = hi - lo /\ \A i \in 1 .. hi - lo : m + i - 1 = lo + i
    BY <1>1, <1>2
  <2> QED BY <1>4, <2>1
<1>6. /\ e \in Nat /\ h \in {0, 1} /\ k \in Nat /\ e + h < k /\ k <= hi - lo
      /\ \A i \in 1 .. e : w[i] \in Spaces
      /\ h = 1 => w[e + 1] \in {Minus, Plus}
      /\ \A i \in e + h + 1 .. k : w[i] \in DOMAIN Digit
  BY <1>5 DEF NumberAt
<1>7. w[e + 1] = r[lo + e + 1]
  <2>1. e + 1 \in 1 .. hi - lo /\ lo + (e + 1) = lo + e + 1
    BY <1>1, <1>6
  <2> QED BY <1>5, <2>1
<1>8. ASSUME NEW i \in 1 .. lo + e PROVE r[i] \in Spaces
  <2>1. CASE i <= lo
    BY <1>1, <2>1
  <2>2. CASE i > lo
    <3>1. i - lo \in 1 .. e /\ i - lo \in 1 .. hi - lo /\ lo + (i - lo) = i
      BY <1>1, <1>6, <2>2
    <3> QED BY <1>5, <1>6, <3>1
  <2> QED BY <1>1, <1>6, <2>1, <2>2
<1>9. ASSUME NEW i \in lo + e + h + 1 .. lo + k PROVE r[i] \in DOMAIN Digit
  <2>1. i - lo \in e + h + 1 .. k /\ i - lo \in 1 .. hi - lo /\ lo + (i - lo) = i
    BY <1>1, <1>6
  <2> QED BY <1>5, <1>6, <2>1
<1>10. NumberAt(r, lo + e, h, lo + k)
  BY <1>1, <1>6, <1>7, <1>8, <1>9 DEF NumberAt
<1>11. SubSeq(w, e + h + 1, k) = SubSeq(r, lo + e + h + 1, lo + k)
  <2> DEFINE p == e + h + 1
  <2>1. /\ p \in Nat \ {0} /\ k \in 0 .. Len(w) /\ p <= k + 1
        /\ m + p - 1 = lo + e + h + 1 /\ m + k - 1 = lo + k
    <3>1. lo \in Nat /\ Len(w) = hi - lo /\ lo = m - 1 /\ m = lo + 1
      BY <1>1, <1>2, <1>5
    <3>2. e \in Nat /\ h \in {0, 1} /\ k \in Nat /\ e + h < k /\ k <= hi - lo /\ hi \in Nat
      BY <1>1, <1>6
    <3> QED BY ONLY <3>1, <3>2
  <2> HIDE DEF p
  <2>2. SubSeq(w, p, k) = SubSeq(r, m + p - 1, m + k - 1)
    <3>1. m \in Nat \ {0} /\ hi \in 0 .. Len(r) /\ m <= hi + 1
      BY <1>2
    <3>2. p \in Nat \ {0} /\ k \in 0 .. Len(w) /\ p <= k + 1
      BY <2>1
    <3> QED BY ONLY <1>3, <3>1, <3>2, r \in Seq(C), SlicesNest
  <2> QED BY <2>1, <2>2 DEF p
<1> QED BY <1>7, <1>10, <1>11 DEF AmountAt

(* ... and the other way around. *)
LEMMA WindowOut ==
  ASSUME NEW C, NEW r \in Seq(C), NEW w, NEW lo, NEW hi, Inside(w, r, lo, hi),
         NEW e, NEW h, NEW k, NumberAt(r, e, h, k)
  PROVE  /\ NumberAt(w, e - lo, h, k - lo) /\ AmountAt(w, e - lo, h, k - lo) = AmountAt(r, e, h, k)
         /\ lo <= e /\ k <= hi
<1> DEFINE m == lo + 1
<1>1. /\ lo \in Nat /\ hi \in Nat /\ lo <= hi /\ hi <= Len(r) /\ Len(r) \in Nat
      /\ \A i \in 1 .. lo : r[i] \in Spaces
      /\ \A i \in hi + 1 .. Len(r) : r[i] \in Spaces
  BY LenProperties DEF Inside, Window
<1>2. m = lo + 1 /\ m \in Nat \ {0} /\ hi \in 0 .. Len(r) /\ m <= hi + 1
  BY <1>1
<1>3. w = SubSeq(r, m, hi)
  BY DEF Inside
<1> HIDE DEF m
<1>4. /\ w \in Seq(C) /\ Len(w) = hi - m + 1
      /\ \A i \in 1 .. hi - m + 1 : w[i] = r[m + i - 1]
  BY <1>2, <1>3, SliceIs
<1>5. Len(w) = hi - lo /\ \A i \in 1 .. hi - lo : w[i] = r[lo + i]
  <2>1. hi - m + 1 = hi - lo /\ \A i \in 1 .. hi - lo : m + i - 1 = lo + i
    BY <1>1, <1>2
  <2> QED BY <1>4, <2>1
<1>6. /\ e \in Nat /\ h \in {0, 1} /\ k \in Nat /\ e + h < k /\ k <= Len(r)
      /\ \A i \in 1 .. e : r[i] \in Spaces
      /\ h = 1 => r[e + 1] \in {Minus, Plus}
      /\ \A i \in e + h + 1 .. k : r[i] \in DOMAIN Digit
  BY DEF NumberAt
<1>7. lo <= e /\ k <= hi
  <2>1. r[e + 1] \notin Spaces /\ r[k] \notin Spaces
    <3>1. h = 0 => r[e + 1] \in DOMAIN Digit
      BY <1>6
    <3>2. r[k] \in DOMAIN Digit
      BY <1>6
    <3> QED BY <1>6, <3>1, <3>2, CharactersAssumption
  <2> QED BY <1>1, <1>6, <2>1
<1>8. e - lo + 1 \in 1 .. hi - lo /\ w[e - lo + 1] = r[e + 1]
  <2>1. e - lo + 1 \in 1 .. hi - lo /\ lo + (e - lo + 1) = e + 1
    BY <1>1, <1>6, <1>7
  <2> QED BY <1>5, <2>1
<1>9. ASSUME NEW i \in 1 .. e - lo PROVE w[i] \in Spaces
  <2>1. i \in 1 .. hi - lo /\ lo + i \in 1 .. e
    BY <1>1, <1>6, <1>7
  <2> QED BY <1>5, <1>6, <2>1
<1>10. ASSUME NEW i \in e - lo + h + 1 .. k - lo PROVE w[i] \in DOMAIN Digit
  <2>1. i \in 1 .. hi - lo /\ lo + i \in e + h + 1 .. k
    BY <1>1, <1>6, <1>7
  <2> QED BY <1>5, <1>6, <2>1
<1>11. NumberAt(w, e - lo, h, k - lo)
  BY <1>1, <1>5, <1>6, <1>7, <1>8, <1>9, <1>10 DEF NumberAt
<1>12. SubSeq(w, e - lo + h + 1, k - lo) = SubSeq(r, e + h + 1, k)
  <2> DEFINE p == e - lo + h + 1
             q == k - lo
  <2>1. /\ p \in Nat \ {0} /\ q \in 0 .. Len(w) /\ p <= q + 1
        /\ m + p - 1 = e + h + 1 /\ m + q - 1 = k
    <3>1. lo \in Nat /\ Len(w) = hi - lo /\ m = lo + 1
      BY <1>1, <1>2, <1>5
    <3>2. /\ e \in Nat /\ h \in {0, 1} /\ k \in Nat /\ e + h < k /\ hi \in Nat
          /\ lo <= e /\ k <= hi
      BY <1>1, <1>6, <1>7
    <3> QED BY ONLY <3>1, <3>2
  <2> HIDE DEF p, q
  <2>2. SubSeq(w, p, q) = SubSeq(r, m + p - 1, m + q - 1)
    <3>1. m \in Nat \ {0} /\ hi \in 0 .. Len(r) /\ m <= hi + 1
      BY <1>2
    <3>2. p \in Nat \ {0} /\ q \in 0 .. Len(w) /\ p <= q + 1
      BY <2>1
    <3> QED BY ONLY <1>3, <3>1, <3>2, r \in Seq(C), SlicesNest
  <2> QED BY <2>1, <2>2 DEF p, q
<1> QED BY <1>7, <1>8, <1>11, <1>12 DEF AmountAt

(* The numbers a text stands for. *)
LEMMA NumbersAre ==
  ASSUME NEW S, NEW s \in Seq(S), Invalid \notin Seq(S), NEW x
  PROVE  x \in Reference!Numbers(s) <=>
           \E b, g, n : /\ NumberAt(s, b, g, n) /\ x = AmountAt(s, b, g, n)
                        /\ \A i \in n + 1 .. Len(s) : s[i] \in Spaces
<1>1. PICK f, l : /\ Window(s, f, l) /\ EndsSolid(s, f, l)
                  /\ Trim(s) = SubSeq(s, f + 1, l)
                  /\ f < l => s[f + 1] \notin Spaces
  BY TrimIs
<1> DEFINE t == SubSeq(s, f + 1, l)
           k == Len(t)
<1>2. Reference!Core(s) = t
  BY <1>1, TrimIsCore
<1>3. x \in Reference!Numbers(s) <=> Reference!IsNumeral(t) /\ x = Reference!ValueOf(t)
  BY <1>2 DEF Reference!Numbers
<1>4. /\ f \in Nat /\ l \in Nat /\ f <= l /\ l <= Len(s) /\ Len(s) \in Nat
      /\ t \in Seq(S) /\ k = l - f
      /\ \A i \in l + 1 .. Len(s) : s[i] \in Spaces
  <2>1. /\ f \in Nat /\ l \in Nat /\ f <= l /\ l <= Len(s) /\ Len(s) \in Nat
        /\ \A i \in l + 1 .. Len(s) : s[i] \in Spaces
    BY <1>1, LenProperties DEF Window
  <2> DEFINE m == f + 1
  <2>2. m \in Nat \ {0} /\ l \in 0 .. Len(s) /\ m <= l + 1 /\ l - m + 1 = l - f
    BY <2>1
  <2> HIDE DEF m
  <2>3. SubSeq(s, m, l) \in Seq(S) /\ Len(SubSeq(s, m, l)) = l - m + 1
    BY <2>2, SliceIs
  <2> QED BY <2>1, <2>2, <2>3 DEF m
<1>5. t = SubSeq(s, f + 1, l)
  OBVIOUS
<1> HIDE DEF t
<1>55. Inside(t, s, f, l)
  BY <1>1, <1>5 DEF Inside
<1>6. ASSUME Reference!IsNumeral(t), x = Reference!ValueOf(t)
      PROVE  \E b, g, n : /\ NumberAt(s, b, g, n) /\ x = AmountAt(s, b, g, n)
                          /\ \A i \in n + 1 .. Len(s) : s[i] \in Spaces
  <2> DEFINE z == 0
  <2>1. PICK g : NumberAt(t, z, g, k) /\ x = AmountAt(t, z, g, k)
    BY <1>4, <1>6, NumeralIs
  <2> HIDE DEF z, k
  <2>2. NumberAt(s, f + z, g, f + k) /\ AmountAt(s, f + z, g, f + k) = AmountAt(t, z, g, k)
    BY <1>55, <2>1, WindowIn
  <2>3. f + k = l
    BY <1>4
  <2> QED BY <1>4, <2>1, <2>2, <2>3
<1>7. ASSUME NEW b, NEW g, NEW n, NumberAt(s, b, g, n), x = AmountAt(s, b, g, n),
             \A i \in n + 1 .. Len(s) : s[i] \in Spaces
      PROVE  Reference!IsNumeral(t) /\ x = Reference!ValueOf(t)
  <2>1. /\ NumberAt(t, b - f, g, n - f) /\ AmountAt(t, b - f, g, n - f) = AmountAt(s, b, g, n)
        /\ f <= b /\ n <= l
    BY <1>55, <1>7, WindowOut
  <2>2. b \in Nat /\ n \in Nat /\ b + g < n /\ g \in {0, 1}
    BY <1>7 DEF NumberAt
  <2>3. n = l
    <3>1. ASSUME n < l PROVE FALSE
      <4>1. l \in n + 1 .. Len(s) /\ f < l
        BY <1>4, <2>1, <2>2, <3>1
      <4>2. s[l] \notin Spaces
        BY <1>1, <4>1 DEF EndsSolid
      <4> QED BY <1>7, <4>1, <4>2
    <3> QED BY <1>4, <2>1, <2>2, <3>1
  <2>4. b = f
    <3>1. ASSUME f < b PROVE FALSE
      <4>1. f + 1 \in 1 .. b /\ f < l
        BY <1>4, <2>1, <2>2, <3>1
      <4>2. s[f + 1] \in Spaces
        BY <1>7, <4>1 DEF NumberAt
      <4> QED BY <1>1, <4>1, <4>2
    <3> QED BY <1>4, <2>1, <2>2, <3>1
  <2>5. b - f = 0 /\ n - f = Len(t)
    BY <1>4, <2>3, <2>4
  <2>6. NumberAt(t, 0, g, Len(t)) /\ x = AmountAt(t, 0, g, Len(t))
    BY <1>7, <2>1, <2>5
  <2> QED BY <1>4, <2>6, NumeralIs
<1> QED BY <1>3, <1>6, <1>7

LEMMA AmountInt ==
  ASSUME NEW S, NEW s \in Seq(S), NEW b, NEW g, NEW n, NumberAt(s, b, g, n)
  PROVE  AmountAt(s, b, g, n) \in Int
<1> DEFINE m == b + g + 1
           d == SubSeq(s, m, n)
<1>1. /\ b \in Nat /\ g \in {0, 1} /\ n \in Nat /\ b + g < n /\ n <= Len(s) /\ Len(s) \in Nat
      /\ \A i \in m .. n : s[i] \in DOMAIN Digit
  BY LenProperties DEF NumberAt
<1>2. d \in Seq(DOMAIN Digit)
  <2>1. m \in Int /\ n \in Int
    BY <1>1
  <2> HIDE DEF m
  <2> QED BY <1>1, <2>1, SubSeqProperties
<1> HIDE DEF d
<1>3. Horner(d) \in Nat
  BY <1>2, HornerIs
<1> QED BY <1>3 DEF AmountAt, d, m

LEMMA NumbersOne ==
  ASSUME NEW S, NEW s \in Seq(S), Invalid \notin Seq(S),
         NEW x \in Reference!Numbers(s)
  PROVE  x \in Int /\ Reference!Numbers(s) = {x}
<1>1. Reference!Numbers(s) = {x}
  BY DEF Reference!Numbers
<1>2. \E b, g, n : NumberAt(s, b, g, n) /\ x = AmountAt(s, b, g, n)
  BY NumbersAre
<1>3. x \in Int
  BY <1>2, AmountInt
<1> QED BY <1>1, <1>3

-----------------------------------------------------------------------------
(* Conversions. *)

LEMMA NarrowIs ==
  ASSUME NEW num \in Int, NEW limit \in Nat \ {0}
  PROVE  /\ Narrow(num, limit) \in Int /\ Fits(Narrow(num, limit), limit)
         /\ (num - Narrow(num, limit)) % (2 * limit) = 0
         /\ Fits(num, limit) => Narrow(num, limit) = num
<1> DEFINE wide == 2 * limit
           up == num + limit
           quo == up \div wide
           rest == up % wide
<1>1. wide \in Nat \ {0} /\ up \in Int /\ wide = 2 * limit /\ up = num + limit
  OBVIOUS
<1> HIDE DEF wide, up
<1>2. quo \in Int /\ rest \in 0 .. wide - 1 /\ up = quo * wide + rest
  BY <1>1, DivisionLaw
<1>3. Narrow(num, limit) = rest - limit
  BY DEF Narrow, wide, up
<1>4. Narrow(num, limit) \in Int /\ Fits(Narrow(num, limit), limit)
  <2> HIDE DEF rest
  <2> QED BY <1>1, <1>2, <1>3 DEF Fits
<1>5. (num - Narrow(num, limit)) % wide = 0
  <2> HIDE DEF quo, rest
  <2>1. num - Narrow(num, limit) = quo * wide
    <3>1. quo * wide \in Int
      BY <1>1, <1>2
    <3> QED BY <1>1, <1>2, <1>3, <3>1
  <2>2. (quo * wide) % wide = 0
    BY <1>1, <1>2, MultipleRemainder
  <2> QED BY <2>1, <2>2
<1>6. ASSUME Fits(num, limit) PROVE Narrow(num, limit) = num
  <2>1. up \in Nat /\ up < wide
    BY <1>1, <1>6 DEF Fits
  <2>2. up % wide = up
    BY <1>1, <2>1, SmallRemainder
  <2> QED BY <1>1, <1>3, <2>2
<1> QED BY <1>4, <1>5, <1>6 DEF wide

(* The outcome is the number the text stands for, or an error. *)
Means(r, s, limit) ==
  /\ \A x \in Reference!Numbers(s) :
       r = IF Fits(x, LongLimit) THEN Parsed(Narrow(x, limit)) ELSE Failed("ERANGE")
  /\ Reference!Numbers(s) = {} => r.err # "ok" /\ r.num = 0

(* A text without Nul, less the blanks behind it and any of those before,   *)
(* is converted strictly.                                                   *)
LEMMA EatMeans ==
  ASSUME NEW C, NEW r \in Seq(C), Invalid \notin Seq(C), \A i \in 1 .. Len(r) : r[i] # Nul,
         NEW w, NEW lo, NEW hi, Inside(w, r, lo, hi), EndsSolid(r, lo, hi), NEW limit
  PROVE  Means(Eat(w, TRUE, limit), r, limit)
<1> DEFINE m == lo + 1
<1>1. /\ lo \in Nat /\ hi \in Nat /\ lo <= hi /\ hi <= Len(r) /\ Len(r) \in Nat
      /\ \A i \in hi + 1 .. Len(r) : r[i] \in Spaces
      /\ w = SubSeq(r, m, hi)
  BY LenProperties DEF Inside, Window
<1>2. m = lo + 1 /\ m \in Nat \ {0} /\ hi \in 0 .. Len(r) /\ m <= hi + 1
  BY <1>1
<1> HIDE DEF m
<1>3. /\ w \in Seq(C) /\ Len(w) = hi - m + 1
      /\ \A i \in 1 .. hi - m + 1 : w[i] = r[m + i - 1]
  BY <1>1, <1>2, SliceIs
<1>4. Len(w) = hi - lo /\ \A i \in 1 .. Len(w) : w[i] # Nul
  <2>1. Len(w) = hi - lo
    BY <1>1, <1>2, <1>3
  <2>2. ASSUME NEW i \in 1 .. Len(w) PROVE w[i] # Nul
    <3>1. m + i - 1 \in 1 .. Len(r) /\ i \in 1 .. hi - m + 1
      BY <1>1, <1>2, <2>1
    <3> QED BY <1>3, <3>1
  <2> QED BY <2>1, <2>2
<1> DEFINE q == Strtol(w)
           e == Eat(w, TRUE, limit)
<1>5. /\ ~Fits(q.num, LongLimit) => e = Failed("ERANGE")
      /\ Fits(q.num, LongLimit) /\ q.end = 0 => e = Failed("EINVAL")
      /\ Fits(q.num, LongLimit) /\ q.end # 0 /\ q.end < Len(w) /\ w[q.end + 1] # Nul
           => e = Failed("EILSEQ")
      /\ Fits(q.num, LongLimit) /\ q.end # 0 /\ ~(q.end < Len(w))
           => e = Parsed(Narrow(q.num, limit))
  BY DEF Eat
<1>6. \A c : Failed(c).err = c /\ Failed(c).num = 0
  BY DEF Failed
<1>7. \/ \E b, g, n : /\ NumberAt(w, b, g, n) /\ Longest(w, n)
                      /\ q = [num |-> AmountAt(w, b, g, n), end |-> n]
      \/ /\ \A b, g, n : ~NumberAt(w, b, g, n)
         /\ q.end = 0 /\ q.num = 0
  BY <1>3, StrtolIs
<1> HIDE DEF q, e
(* A number in r ends where w does. *)
<1>8. ASSUME NEW x \in Reference!Numbers(r)
      PROVE  \E b, g : NumberAt(w, b, g, Len(w)) /\ x = AmountAt(w, b, g, Len(w))
  <2>1. PICK b, g, n : /\ NumberAt(r, b, g, n) /\ x = AmountAt(r, b, g, n)
                       /\ \A i \in n + 1 .. Len(r) : r[i] \in Spaces
    BY NumbersAre
  <2>2. /\ NumberAt(w, b - lo, g, n - lo) /\ AmountAt(w, b - lo, g, n - lo) = AmountAt(r, b, g, n)
        /\ lo <= b /\ n <= hi
    BY <2>1, WindowOut
  <2>3. n \in Nat /\ b \in Nat /\ g \in {0, 1} /\ b + g < n
    BY <2>1 DEF NumberAt
  <2>4. n = hi
    <3>1. ASSUME n < hi PROVE FALSE
      <4>1. hi \in n + 1 .. Len(r) /\ lo < hi
        BY <1>1, <2>2, <2>3, <3>1
      <4>2. r[hi] \notin Spaces
        BY <4>1 DEF EndsSolid
      <4> QED BY <2>1, <4>1, <4>2
    <3> QED BY <1>1, <2>2, <2>3, <3>1
  <2>5. n - lo = Len(w)
    BY <1>4, <2>4
  <2> QED BY <2>1, <2>2, <2>5
<1>9. ASSUME NEW x \in Reference!Numbers(r)
      PROVE  e = IF Fits(x, LongLimit) THEN Parsed(Narrow(x, limit)) ELSE Failed("ERANGE")
  <2>1. PICK b, g : NumberAt(w, b, g, Len(w)) /\ x = AmountAt(w, b, g, Len(w))
    BY <1>8
  <2>2. PICK c, h, n : /\ NumberAt(w, c, h, n) /\ Longest(w, n)
                       /\ q = [num |-> AmountAt(w, c, h, n), end |-> n]
    BY <1>7, <2>1
  <2>3. b = c /\ g = h
    BY <2>1, <2>2, NumberUnique
  <2>4. Len(w) <= n
    BY <2>1, <2>2, NumberEndsUnique
  <2>5. n \in Nat /\ n # 0 /\ n <= Len(w)
    BY <2>2 DEF NumberAt
  <2>6. n = Len(w)
    BY <1>1, <1>4, <2>4, <2>5
  <2>7. q.num = x /\ q.end # 0 /\ ~(q.end < Len(w))
    BY <2>1, <2>2, <2>3, <2>5, <2>6
  <2> QED BY <1>5, <2>7
<1>10. ASSUME Reference!Numbers(r) = {} PROVE e.err # "ok" /\ e.num = 0
  <2>1. CASE q.end = 0
    <3>1. e = Failed("ERANGE") \/ e = Failed("EINVAL")
      BY <1>5, <2>1
    <3> QED BY <1>6, <3>1
  <2>2. CASE q.end # 0
    <3>1. PICK b, g, n : /\ NumberAt(w, b, g, n) /\ Longest(w, n)
                         /\ q = [num |-> AmountAt(w, b, g, n), end |-> n]
      BY <1>7, <2>2
    <3>2. NumberAt(r, lo + b, g, lo + n) /\ AmountAt(r, lo + b, g, lo + n) = AmountAt(w, b, g, n)
      BY <3>1, WindowIn
    <3>3. n \in Nat /\ n <= Len(w)
      BY <3>1 DEF NumberAt
    <3>4. n # Len(w)
      <4>1. ASSUME n = Len(w) PROVE FALSE
        <5>1. lo + n = hi
          BY <1>1, <1>4, <4>1
        <5> DEFINE x == AmountAt(r, lo + b, g, hi)
        <5>2. NumberAt(r, lo + b, g, hi) /\ x = AmountAt(r, lo + b, g, hi)
          BY <3>2, <5>1
        <5> HIDE DEF x
        <5>3. x \in Reference!Numbers(r)
          BY <1>1, <5>2, NumbersAre
        <5> QED BY <1>10, <5>3
      <4> QED BY <4>1
    <3>5. n < Len(w) /\ n + 1 \in 1 .. Len(w)
      BY <1>1, <1>4, <3>3, <3>4
    <3>6. q.end = n /\ w[n + 1] # Nul
      BY <1>4, <3>1, <3>5
    <3>7. e = Failed("ERANGE") \/ e = Failed("EILSEQ")
      BY <1>5, <2>2, <3>5, <3>6
    <3> QED BY <1>6, <3>7
  <2> QED BY <2>1, <2>2
<1> QED BY <1>9, <1>10 DEF Means, e

-----------------------------------------------------------------------------
(* The numbers a text starts with. *)

LEMMA PrefixNumber ==
  ASSUME NEW C, NEW r \in Seq(C), NEW u \in 0 .. Len(r),
         NEW e, NEW h, NEW k
  PROVE  /\ NumberAt(Before(r, u), e, h, k) <=> NumberAt(r, e, h, k) /\ k <= u
         /\ NumberAt(Before(r, u), e, h, k) =>
              AmountAt(Before(r, u), e, h, k) = AmountAt(r, e, h, k)
<1> DEFINE w == Before(r, u)
           a == 1
<1>1. Len(r) \in Nat /\ u \in Nat /\ u <= Len(r) /\ a = 1 /\ a \in Nat \ {0} /\ a <= u + 1
  BY LenProperties
<1>2. Len(w) = u /\ \A i \in 1 .. u : w[i] = r[i]
  BY BeforeIs
<1>3. w = SubSeq(r, a, u)
  BY DEF Before
<1> HIDE DEF w, a
<1>4. ASSUME NumberAt(w, e, h, k) PROVE NumberAt(r, e, h, k) /\ k <= u
  <2>1. /\ e \in Nat /\ h \in {0, 1} /\ k \in Nat /\ e + h < k /\ k <= u
        /\ \A i \in 1 .. e : w[i] \in Spaces
        /\ h = 1 => w[e + 1] \in {Minus, Plus}
        /\ \A i \in e + h + 1 .. k : w[i] \in DOMAIN Digit
    BY <1>2, <1>4 DEF NumberAt
  <2>2. \A i \in 1 .. k : w[i] = r[i]
    BY <1>1, <1>2, <2>1
  <2>3. \A i \in 1 .. e : i \in 1 .. k
    BY <2>1
  <2>4. \A i \in e + h + 1 .. k : i \in 1 .. k
    BY <2>1
  <2>5. e + 1 \in 1 .. k
    BY <2>1
  <2> QED BY <1>1, <2>1, <2>2, <2>3, <2>4, <2>5 DEF NumberAt
<1>5. ASSUME NumberAt(r, e, h, k), k <= u PROVE NumberAt(w, e, h, k)
  <2>1. /\ e \in Nat /\ h \in {0, 1} /\ k \in Nat /\ e + h < k /\ k <= u
        /\ \A i \in 1 .. e : r[i] \in Spaces
        /\ h = 1 => r[e + 1] \in {Minus, Plus}
        /\ \A i \in e + h + 1 .. k : r[i] \in DOMAIN Digit
    BY <1>5 DEF NumberAt
  <2>2. \A i \in 1 .. k : w[i] = r[i]
    BY <1>1, <1>2, <2>1
  <2>3. \A i \in 1 .. e : i \in 1 .. k
    BY <2>1
  <2>4. \A i \in e + h + 1 .. k : i \in 1 .. k
    BY <2>1
  <2>5. e + 1 \in 1 .. k
    BY <2>1
  <2> QED BY <1>2, <2>1, <2>2, <2>3, <2>4, <2>5 DEF NumberAt
<1>6. ASSUME NumberAt(w, e, h, k) PROVE AmountAt(w, e, h, k) = AmountAt(r, e, h, k)
  <2>1. e \in Nat /\ h \in {0, 1} /\ k \in Nat /\ e + h < k /\ k <= u
    BY <1>2, <1>6 DEF NumberAt
  <2>2. w[e + 1] = r[e + 1]
    BY <1>1, <1>2, <2>1
  <2> DEFINE p == e + h + 1
  <2>3. p \in Nat \ {0} /\ k \in 0 .. Len(w) /\ p <= k + 1 /\ u \in 0 .. Len(r)
    BY <1>1, <1>2, <2>1
  <2>4. a + p - 1 = p /\ a + k - 1 = k
    BY <1>1, <2>1
  <2> HIDE DEF p
  <2>5. SubSeq(w, p, k) = SubSeq(r, p, k)
    <3>1. SubSeq(w, p, k) = SubSeq(r, a + p - 1, a + k - 1)
      BY <1>1, <1>3, <2>3, SlicesNest
    <3> QED BY <2>4, <3>1
  <2> QED BY <2>2, <2>5 DEF AmountAt, p
<1> QED BY <1>4, <1>5, <1>6 DEF w

(* The text up to a character that is no blank stands for a number where a  *)
(* number ends there.                                                       *)
LEMMA EndsAre ==
  ASSUME NEW C, NEW r \in Seq(C), Invalid \notin Seq(C), NEW u \in 1 .. Len(r),
         r[u] \notin Spaces, NEW x
  PROVE  x \in Reference!Numbers(Before(r, u)) <=>
           \E e, h : NumberAt(r, e, h, u) /\ x = AmountAt(r, e, h, u)
<1> DEFINE w == Before(r, u)
<1>1. Len(r) \in Nat /\ u \in Nat /\ u # 0 /\ u \in 0 .. Len(r) /\ u \in 1 .. u
  BY LenProperties
<1>2. w \in Seq(C) /\ Len(w) = u /\ \A i \in 1 .. u : w[i] = r[i]
  BY <1>1, BeforeIs
<1>3. \A e, h, k : /\ NumberAt(w, e, h, k) <=> NumberAt(r, e, h, k) /\ k <= u
                   /\ NumberAt(w, e, h, k) => AmountAt(w, e, h, k) = AmountAt(r, e, h, k)
  BY <1>1, PrefixNumber
<1> HIDE DEF w
<1>4. ASSUME x \in Reference!Numbers(w)
      PROVE  \E e, h : NumberAt(r, e, h, u) /\ x = AmountAt(r, e, h, u)
  <2>1. PICK e, h, k : /\ NumberAt(w, e, h, k) /\ x = AmountAt(w, e, h, k)
                       /\ \A i \in k + 1 .. Len(w) : w[i] \in Spaces
    BY <1>2, <1>4, NumbersAre
  <2>2. NumberAt(r, e, h, k) /\ k <= u /\ x = AmountAt(r, e, h, k) /\ k \in Nat
    BY <1>3, <2>1 DEF NumberAt
  <2>3. k = u
    <3>1. ASSUME k < u PROVE FALSE
      <4>1. u \in k + 1 .. Len(w) /\ w[u] = r[u]
        BY <1>1, <1>2, <2>2, <3>1
      <4> QED BY <2>1, <4>1
    <3> QED BY <1>1, <2>2, <3>1
  <2> QED BY <2>2, <2>3
<1>5. ASSUME NEW e, NEW h, NumberAt(r, e, h, u), x = AmountAt(r, e, h, u)
      PROVE  x \in Reference!Numbers(w)
  <2>1. NumberAt(w, e, h, u) /\ x = AmountAt(w, e, h, u)
    BY <1>1, <1>3, <1>5
  <2>2. \A i \in u + 1 .. Len(w) : w[i] \in Spaces
    BY <1>1, <1>2
  <2> QED BY <1>2, <2>1, <2>2, NumbersAre
<1> QED BY <1>4, <1>5 DEF w

(* No number of a text ends behind u. *)
Furthest(r, u) == \A e, h, k : NumberAt(r, e, h, k) => k <= u

(* What strtol() makes of a text without its blanks is the number that ends *)
(* furthest behind.                                                         *)
LEMMA StrtolInside ==
  ASSUME NEW C, NEW r \in Seq(C), NEW w, NEW lo, NEW hi, Inside(w, r, lo, hi), w \in Seq(C),
         NEW e, NEW h, NEW k, NumberAt(r, e, h, k), Furthest(r, k)
  PROVE  /\ Strtol(w) = [num |-> AmountAt(r, e, h, k), end |-> k - lo]
         /\ lo < k /\ k <= hi
<1>1. lo \in Nat /\ hi \in Nat /\ Len(r) \in Nat /\ Len(w) \in Nat
  BY LenProperties DEF Inside, Window
<1>2. /\ NumberAt(w, e - lo, h, k - lo) /\ AmountAt(w, e - lo, h, k - lo) = AmountAt(r, e, h, k)
      /\ lo <= e /\ k <= hi
  BY WindowOut
<1>3. e \in Nat /\ h \in {0, 1} /\ k \in Nat /\ e + h < k
  BY DEF NumberAt
<1>4. PICK b, g, n : /\ NumberAt(w, b, g, n) /\ Longest(w, n)
                     /\ Strtol(w) = [num |-> AmountAt(w, b, g, n), end |-> n]
  BY <1>2, StrtolIs
<1>5. NumberAt(r, lo + b, g, lo + n)
  BY <1>4, WindowIn
<1>6. lo + n <= k
  BY <1>5 DEF Furthest
<1>7. k - lo <= n
  BY <1>2, <1>4, NumberEndsUnique
<1>8. n \in Nat
  BY <1>4 DEF NumberAt
<1>9. n = k - lo
  BY <1>1, <1>3, <1>6, <1>7, <1>8
<1>10. b = e - lo /\ g = h
  BY <1>2, <1>4, NumberUnique
<1> QED BY <1>1, <1>2, <1>3, <1>4, <1>9, <1>10

(* The text that is left is all of it, or what is between the blanks. *)
Kept(C, w, r, trim, lo, hi) ==
  /\ Inside(w, r, lo, hi) /\ w \in Seq(C) /\ Len(w) = hi - lo
  /\ \A i \in 1 .. hi - lo : w[i] = r[lo + i]
  /\ trim => EndsSolid(r, lo, hi)
  /\ ~trim => lo = 0 /\ hi = Len(r)

LEMMA TrimInside ==
  ASSUME NEW C, NEW r \in Seq(C), Invalid \notin Seq(C), NEW trim
  PROVE  \E lo, hi : Kept(C, IF trim THEN Trim(r) ELSE r, r, trim, lo, hi)
<1> DEFINE w == IF trim THEN Trim(r) ELSE r
<1>1. Len(r) \in Nat
  BY LenProperties
<1>2. CASE trim
  <2>1. PICK f, l : /\ Window(r, f, l) /\ EndsSolid(r, f, l) /\ Trim(r) = SubSeq(r, f + 1, l)
    BY TrimIs
  <2>2. f \in Nat /\ l \in Nat /\ f <= l /\ l <= Len(r)
    BY <2>1 DEF Window
  <2> DEFINE m == f + 1
  <2>3. m \in Nat \ {0} /\ l \in 0 .. Len(r) /\ m <= l + 1 /\ m = f + 1
    BY <1>1, <2>2
  <2>4. w = SubSeq(r, m, l)
    BY <1>2, <2>1
  <2> HIDE DEF w, m
  <2>5. w \in Seq(C) /\ Len(w) = l - m + 1 /\ \A i \in 1 .. l - m + 1 : w[i] = r[m + i - 1]
    BY <2>3, <2>4, SliceIs
  <2>6. \A i \in 1 .. l - f : i \in 1 .. l - m + 1 /\ m + i - 1 = f + i
    BY <2>2, <2>3
  <2>7. /\ Inside(w, r, f, l) /\ w \in Seq(C) /\ Len(w) = l - f
        /\ \A i \in 1 .. l - f : w[i] = r[f + i]
        /\ EndsSolid(r, f, l)
    <3>1. Len(w) = l - f
      BY <2>2, <2>3, <2>5
    <3>2. \A i \in 1 .. l - f : w[i] = r[f + i]
      BY <2>5, <2>6
    <3>3. Inside(w, r, f, l)
      BY <2>1, <2>3, <2>4 DEF Inside
    <3> QED BY <2>1, <2>5, <3>1, <3>2, <3>3
  <2>8. Kept(C, w, r, trim, f, l)
    BY <1>2, <2>7 DEF Kept
  <2> QED BY <2>8 DEF w
<1>3. CASE ~trim
  <2> DEFINE z == 0
             l == Len(r)
  <2>1. w = r
    BY <1>3
  <2>2. r = SubSeq(r, z + 1, l)
    <3>1. SubSeq(r, 1, Len(r)) = r
      BY SubSeqFull
    <3> QED BY <3>1
  <2>3. Window(r, z, l)
    BY <1>1 DEF Window
  <2>4. Len(r) = l - z /\ z = 0 /\ l = Len(r) /\ \A i \in 1 .. l - z : r[i] = r[z + i]
    BY <1>1
  <2> HIDE DEF w, z, l
  <2>5. /\ Inside(w, r, z, l) /\ w \in Seq(C) /\ Len(w) = l - z
        /\ \A i \in 1 .. l - z : w[i] = r[z + i]
        /\ z = 0 /\ l = Len(r)
    BY <2>1, <2>2, <2>3, <2>4 DEF Inside
  <2>6. Kept(C, w, r, trim, z, l)
    BY <1>3, <2>5 DEF Kept
  <2> QED BY <2>6 DEF w
<1> QED BY <1>2, <1>3

(* What follows the number that ends at k is nothing, for strtol(). *)
Ends(r, k, trim, strict) ==
  \/ ~strict
  \/ k = Len(r) \/ (k < Len(r) /\ r[k + 1] = Nul)
  \/ trim /\ \A i \in k + 1 .. Len(r) : r[i] \in Spaces

Refused(o) == o.err # "ok" /\ o.num = 0

LEMMA FailedRefused == ASSUME NEW c, c # "ok" PROVE Refused(Failed(c))
BY DEF Failed, Refused

(* A text is accepted for the number in it that ends furthest behind. *)
LEMMA ConvertIs ==
  ASSUME NEW C, NEW r \in Seq(C), Invalid \notin Seq(C),
         NEW trim \in BOOLEAN, NEW strict \in BOOLEAN, NEW limit
  PROVE  /\ (\A e, h, k : ~NumberAt(r, e, h, k)) => Refused(Convert(r, trim, strict, limit))
         /\ \A e, h, k : NumberAt(r, e, h, k) /\ Furthest(r, k) =>
              IF Fits(AmountAt(r, e, h, k), LongLimit) /\ Ends(r, k, trim, strict)
              THEN Convert(r, trim, strict, limit) = Parsed(Narrow(AmountAt(r, e, h, k), limit))
              ELSE Refused(Convert(r, trim, strict, limit))
<1> DEFINE w == IF trim THEN Trim(r) ELSE r
           q == Strtol(w)
           o == Convert(r, trim, strict, limit)
<1>0. PICK lo, hi : Kept(C, w, r, trim, lo, hi)
  BY TrimInside
<1>1. /\ Inside(w, r, lo, hi) /\ w \in Seq(C) /\ Len(w) = hi - lo
      /\ \A i \in 1 .. hi - lo : w[i] = r[lo + i]
      /\ trim => EndsSolid(r, lo, hi)
      /\ ~trim => lo = 0 /\ hi = Len(r)
  BY <1>0 DEF Kept
<1>2. /\ lo \in Nat /\ hi \in Nat /\ lo <= hi /\ hi <= Len(r) /\ Len(r) \in Nat
      /\ \A i \in hi + 1 .. Len(r) : r[i] \in Spaces
  BY <1>1, LenProperties DEF Inside, Window
<1>3. Valid(r)
  BY DEF Valid
<1>4. o = IF w = <<>> THEN Failed("EINVAL") ELSE Eat(w, strict, limit)
  BY <1>3 DEF Convert
<1>5. /\ ~Fits(q.num, LongLimit) => Eat(w, strict, limit) = Failed("ERANGE")
      /\ Fits(q.num, LongLimit) /\ q.end = 0 => Eat(w, strict, limit) = Failed("EINVAL")
      /\ Fits(q.num, LongLimit) /\ q.end # 0 =>
           Eat(w, strict, limit) =
             IF strict /\ q.end < Len(w) /\ w[q.end + 1] # Nul
             THEN Failed("EILSEQ") ELSE Parsed(Narrow(q.num, limit))
  BY DEF Eat
<1>6. /\ Refused(Failed("ERANGE")) /\ Refused(Failed("EINVAL")) /\ Refused(Failed("EILSEQ"))
  BY FailedRefused
<1> HIDE DEF w, o, q
<1>7. ASSUME \A e, h, k : ~NumberAt(r, e, h, k)
      PROVE  Refused(o)
  <2>1. ASSUME NEW b, NEW g, NEW n, NumberAt(w, b, g, n) PROVE FALSE
    <3>1. NumberAt(r, lo + b, g, lo + n)
      BY <1>1, <2>1, WindowIn
    <3> QED BY <1>7, <3>1
  <2>2. q.end = 0 /\ q.num = 0
    <3>1. Strtol(w).end = 0 /\ Strtol(w).num = 0
      BY <1>1, <2>1, StrtolIs
    <3> QED BY <3>1 DEF q
  <2> QED BY <1>4, <1>5, <1>6, <2>2
<1>8. ASSUME NEW e, NEW h, NEW k, NumberAt(r, e, h, k), Furthest(r, k)
      PROVE  IF Fits(AmountAt(r, e, h, k), LongLimit) /\ Ends(r, k, trim, strict)
             THEN o = Parsed(Narrow(AmountAt(r, e, h, k), limit))
             ELSE Refused(o)
  <2> DEFINE x == AmountAt(r, e, h, k)
             n == k - lo
  <2>1. q = [num |-> x, end |-> n] /\ lo < k /\ k <= hi
    <3>1. Strtol(w) = [num |-> AmountAt(r, e, h, k), end |-> k - lo] /\ lo < k /\ k <= hi
      BY <1>1, <1>8, StrtolInside
    <3> QED BY <3>1 DEF q
  <2>2. k \in Nat
    BY <1>8 DEF NumberAt
  <2>3. n \in Nat /\ n # 0 /\ n <= Len(w) /\ lo + n = k
    BY <1>1, <1>2, <2>1, <2>2
  <2>4. w # <<>>
    BY <1>1, <1>2, <2>1, <2>2
  <2> DEFINE more == n < Len(w) /\ w[n + 1] # Nul
  <2>5. more <=> k < hi /\ r[k + 1] # Nul
    <3>1. n < Len(w) <=> k < hi
      BY <1>1, <1>2, <2>2
    <3>2. ASSUME n < Len(w) PROVE w[n + 1] = r[k + 1]
      <4>1. n + 1 \in 1 .. hi - lo /\ lo + (n + 1) = k + 1
        BY <1>1, <1>2, <2>2, <2>3, <3>2
      <4> QED BY <1>1, <4>1
    <3> QED BY <3>1, <3>2
  <2>6. strict => (more <=> ~Ends(r, k, trim, strict))
    <3>1. ASSUME strict, k < hi, r[k + 1] # Nul PROVE ~Ends(r, k, trim, strict)
      <4>1. k # Len(r)
        BY <1>2, <2>2, <3>1
      <4>2. ASSUME trim, \A i \in k + 1 .. Len(r) : r[i] \in Spaces PROVE FALSE
        <5>1. hi \in k + 1 .. Len(r) /\ lo < hi
          BY <1>2, <2>1, <2>2, <3>1
        <5>2. r[hi] \notin Spaces
          BY <1>1, <4>2, <5>1 DEF EndsSolid
        <5> QED BY <4>2, <5>1, <5>2
      <4> QED BY <3>1, <4>1, <4>2 DEF Ends
    <3>2. ASSUME k < hi, r[k + 1] = Nul PROVE Ends(r, k, trim, strict)
      BY <1>2, <2>2, <3>2 DEF Ends
    <3>3. ASSUME ~(k < hi) PROVE Ends(r, k, trim, strict)
      <4>1. k = hi
        BY <1>2, <2>1, <2>2, <3>3
      <4> QED BY <1>1, <1>2, <4>1 DEF Ends
    <3> QED BY <2>5, <3>1, <3>2, <3>3
  <2>7. ~strict => Ends(r, k, trim, strict)
    BY DEF Ends
  <2>8. q.num = x /\ q.end = n
    BY <2>1
  <2>9. /\ ~Fits(x, LongLimit) => o = Failed("ERANGE")
        /\ Fits(x, LongLimit) =>
             o = IF strict /\ more THEN Failed("EILSEQ") ELSE Parsed(Narrow(x, limit))
    BY <1>4, <1>5, <2>3, <2>4, <2>8
  <2> HIDE DEF x, more
  <2>10. IF Fits(x, LongLimit) /\ Ends(r, k, trim, strict)
         THEN o = Parsed(Narrow(x, limit)) ELSE Refused(o)
    BY <1>6, <2>6, <2>7, <2>9
  <2> QED BY <2>10 DEF x
<1> QED BY <1>7, <1>8 DEF o

-----------------------------------------------------------------------------
(* The two sides of a mark. *)

(* What stands at position k of r, in what is left of it without blanks.    *)
LEMMA LeftMeans ==
  ASSUME NEW C, NEW r \in Seq(C), Invalid \notin Seq(C), \A i \in 1 .. Len(r) : r[i] # Nul,
         NEW w, NEW lo, NEW hi, Inside(w, r, lo, hi), w \in Seq(C),
         NEW k \in lo + 1 .. hi, NEW limit
  PROVE  Means(Eat(TrimEnd(Before(w, k - lo - 1)), TRUE, limit), SubSeq(r, 1, k - 1), limit)
<1> DEFINE one == 1
           m == lo + 1
           p == k - lo - 1
           q == k - 1
           u == SubSeq(r, one, q)
           v == Before(w, p)
<1>1. /\ lo \in Nat /\ hi \in Nat /\ lo <= hi /\ hi <= Len(r) /\ Len(r) \in Nat
      /\ k \in Nat /\ lo < k /\ k <= hi
      /\ \A i \in 1 .. lo : r[i] \in Spaces
      /\ w = SubSeq(r, m, hi)
  BY LenProperties DEF Inside, Window
<1>2. /\ one = 1 /\ one \in Nat \ {0} /\ m = lo + 1 /\ m \in Nat \ {0} /\ m <= hi + 1
      /\ hi \in 0 .. Len(r)
      /\ q \in 0 .. Len(r) /\ one <= q + 1 /\ m <= q + 1 /\ lo + p = q /\ p \in Nat
  BY <1>1
<1>3. Len(w) = hi - m + 1
  BY <1>1, <1>2, SliceIs
<1>4. p \in 0 .. Len(w) /\ one <= p + 1 /\ m + one - 1 = m /\ m + p - 1 = q
  BY <1>1, <1>2, <1>3
<1>5. v = SubSeq(w, one, p)
  BY DEF Before
<1> HIDE DEF one, m, p, q, v
<1>6. v = SubSeq(r, m, q)
  <2>1. SubSeq(w, one, p) = SubSeq(r, m + one - 1, m + p - 1)
    BY <1>1, <1>2, <1>4, SlicesNest
  <2> QED BY <1>4, <1>5, <2>1
<1>7. u \in Seq(C) /\ Len(u) = q /\ \A i \in 1 .. q : u[i] = r[i]
  <2>1. /\ u \in Seq(C) /\ Len(u) = q - one + 1
        /\ \A i \in 1 .. q - one + 1 : u[i] = r[one + i - 1]
    BY <1>2, SliceIs
  <2>2. \A i \in 1 .. q : i \in 1 .. q - one + 1 /\ one + i - 1 = i
    BY <1>1, <1>2
  <2>3. q - one + 1 = q
    BY <1>2
  <2> QED BY <2>1, <2>2, <2>3
<1>8. v \in Seq(C) /\ Len(v) = p /\ \A i \in 1 .. q - m + 1 : v[i] = r[m + i - 1]
  <2>1. r \in Seq(C) /\ m \in Nat \ {0} /\ q \in 0 .. Len(r) /\ m <= q + 1 /\ v = SubSeq(r, m, q)
    BY <1>2, <1>6
  <2>2. /\ v \in Seq(C) /\ Len(v) = q - m + 1
        /\ \A i \in 1 .. q - m + 1 : v[i] = r[m + i - 1]
    BY ONLY <2>1, SliceIs
  <2> QED BY <1>1, <1>2, <2>2
<1>9. v = SubSeq(u, m, q)
  <2>1. q \in 0 .. Len(u)
    BY <1>2, <1>7
  <2>2. one + m - 1 = m /\ one + q - 1 = q
    BY <1>1, <1>2
  <2>3. u = SubSeq(r, one, q)
    OBVIOUS
  <2> HIDE DEF u
  <2>4. SubSeq(u, m, q) = SubSeq(r, one + m - 1, one + q - 1)
    <3>1. /\ one \in Nat \ {0} /\ q \in 0 .. Len(r) /\ one <= q + 1 /\ u = SubSeq(r, one, q)
          /\ m \in Nat \ {0} /\ q \in 0 .. Len(u) /\ m <= q + 1
      BY <1>2, <2>1, <2>3
    <3> QED BY ONLY <3>1, r \in Seq(C), SlicesNest
  <2> QED BY <1>6, <2>2, <2>4
<1> HIDE DEF u
<1>10. Valid(v)
  BY <1>8 DEF Valid
<1>11. PICK l : /\ Window(v, 0, l) /\ EndsSolid(v, 0, l) /\ TrimEnd(v) = SubSeq(v, 1, l)
                /\ 0 < l => v[l] \notin Spaces
  BY <1>8, <1>10, TrimEndIs
<1>12. l \in Nat /\ l <= p /\ \A i \in l + 1 .. p : v[i] \in Spaces
  BY <1>8, <1>11 DEF Window
<1> DEFINE e == lo + l
           x == SubSeq(u, m, e)
<1>13. v \in Seq(C) /\ \A i \in 1 .. p : v[i] = r[lo + i]
  <2>1. \A i \in 1 .. p : i \in 1 .. q - m + 1 /\ m + i - 1 = lo + i
    BY <1>1, <1>2
  <2> QED BY <1>8, <2>1
<1>14. TrimEnd(v) = x
  <2>1. l \in 0 .. Len(v) /\ one <= l + 1 /\ q \in 0 .. Len(u)
    BY <1>2, <1>7, <1>8, <1>12
  <2>2. m + one - 1 = m /\ m + l - 1 = e /\ SubSeq(v, 1, l) = SubSeq(v, one, l)
    BY <1>1, <1>2, <1>12
  <2> HIDE DEF e, x
  <2>3. SubSeq(v, one, l) = SubSeq(u, m + one - 1, m + l - 1)
    <3>1. /\ u \in Seq(C) /\ m \in Nat \ {0} /\ q \in 0 .. Len(u) /\ m <= q + 1
          /\ v = SubSeq(u, m, q) /\ one \in Nat \ {0} /\ l \in 0 .. Len(v) /\ one <= l + 1
      BY <1>2, <1>7, <1>9, <2>1
    <3> QED BY ONLY <3>1, SlicesNest
  <2> QED BY <1>11, <2>2, <2>3 DEF x
<1>15. Inside(x, u, lo, e) /\ EndsSolid(u, lo, e)
  <2>1. e \in Nat /\ lo <= e /\ e <= Len(u)
    BY <1>1, <1>2, <1>7, <1>12
  <2>2. ASSUME NEW i \in 1 .. lo PROVE u[i] \in Spaces
    <3>1. i \in 1 .. q
      BY <1>1, <1>2
    <3> QED BY <1>1, <1>7, <3>1
  <2>3. ASSUME NEW i \in e + 1 .. Len(u) PROVE u[i] \in Spaces
    <3> DEFINE j == i - lo
    <3>1. i \in 1 .. q /\ j \in l + 1 .. p /\ j \in 1 .. p /\ lo + j = i
      BY <1>1, <1>2, <1>7, <1>12
    <3> HIDE DEF j
    <3>2. v[j] \in Spaces /\ v[j] = r[lo + j]
      BY <1>12, <1>13, <3>1
    <3> QED BY <1>7, <3>1, <3>2
  <2>4. ASSUME lo < e PROVE u[e] \notin Spaces
    <3>1. 0 < l /\ l \in 1 .. p /\ e \in 1 .. q
      <4>1. lo \in Nat /\ l \in Nat /\ l <= p /\ lo + p = q /\ p \in Nat
        BY <1>1, <1>2, <1>12
      <4> QED BY <2>4, <4>1
    <3>2. v[l] \notin Spaces /\ v[l] = r[lo + l]
      BY <1>11, <1>13, <3>1
    <3> QED BY <1>7, <3>1, <3>2
  <2>5. x = SubSeq(u, lo + 1, e)
    BY <1>2
  <2> HIDE DEF e, x
  <2> QED BY <1>1, <2>1, <2>2, <2>3, <2>4, <2>5 DEF Inside, Window, EndsSolid
<1>16. \A i \in 1 .. Len(u) : u[i] # Nul
  <2>1. \A i \in 1 .. q : i \in 1 .. Len(r)
    BY <1>1, <1>2
  <2> QED BY <1>7, <2>1
<1> HIDE DEF e, x
<1>17. Means(Eat(x, TRUE, limit), u, limit)
  BY <1>7, <1>15, <1>16, EatMeans
<1> QED BY <1>14, <1>17 DEF v, u, p, q, one

LEMMA RightMeans ==
  ASSUME NEW C, NEW r \in Seq(C), Invalid \notin Seq(C), \A i \in 1 .. Len(r) : r[i] # Nul,
         NEW w, NEW lo, NEW hi, Inside(w, r, lo, hi), EndsSolid(r, lo, hi), w \in Seq(C),
         NEW k \in lo + 1 .. hi, NEW limit
  PROVE  Means(Eat(TrimStart(From(w, k - lo)), TRUE, limit), SubSeq(r, k + 1, Len(r)), limit)
<1> DEFINE one == 1
           m == lo + 1
           p == k - lo + 1
           q == k + 1
           z == Len(r)
           t == Len(w)
           u == SubSeq(r, q, z)
           v == From(w, k - lo)
<1>1. /\ lo \in Nat /\ hi \in Nat /\ lo <= hi /\ hi <= z /\ z \in Nat
      /\ k \in Nat /\ lo < k /\ k <= hi
      /\ \A i \in hi + 1 .. z : r[i] \in Spaces
      /\ w = SubSeq(r, m, hi)
  BY LenProperties DEF Inside, Window
<1>2. /\ one = 1 /\ one \in Nat \ {0} /\ m = lo + 1 /\ m \in Nat \ {0} /\ m <= hi + 1
      /\ hi \in 0 .. Len(r) /\ z \in 0 .. Len(r)
      /\ q \in Nat \ {0} /\ q = k + 1 /\ q <= z + 1 /\ q <= hi + 1
      /\ lo + p = q /\ p \in Nat \ {0}
  BY <1>1
<1>3. Len(w) = hi - m + 1
  BY <1>1, <1>2, SliceIs
<1>4. t \in 0 .. Len(w) /\ p <= t + 1 /\ m + p - 1 = q /\ m + t - 1 = hi
  BY <1>1, <1>2, <1>3
<1>5. v = SubSeq(w, p, t)
  BY <1>1 DEF From
<1> HIDE DEF one, m, p, q, t, v
<1>6. v = SubSeq(r, q, hi)
  <2>1. SubSeq(w, p, t) = SubSeq(r, m + p - 1, m + t - 1)
    BY <1>1, <1>2, <1>4, SlicesNest
  <2> QED BY <1>4, <1>5, <2>1
<1>7. /\ u \in Seq(C) /\ Len(u) = z - q + 1
      /\ \A i \in 1 .. z - q + 1 : u[i] = r[q + i - 1]
  <2> HIDE DEF z
  <2> QED BY <1>2, SliceIs
<1> DEFINE n == hi - k
<1>8. /\ v \in Seq(C) /\ Len(v) = n /\ n \in Nat /\ \A i \in 1 .. n : v[i] = r[k + i]
  <2>1. v \in Seq(C) /\ Len(v) = hi - q + 1 /\ \A i \in 1 .. hi - q + 1 : v[i] = r[q + i - 1]
    <3>1. /\ r \in Seq(C) /\ q \in Nat \ {0} /\ hi \in 0 .. Len(r) /\ q <= hi + 1
          /\ v = SubSeq(r, q, hi)
      BY <1>2, <1>6
    <3> QED BY ONLY <3>1, SliceIs
  <2>2. hi - q + 1 = n /\ n \in Nat /\ \A i \in 1 .. n : i \in 1 .. hi - q + 1 /\ q + i - 1 = k + i
    BY <1>1, <1>2
  <2> QED BY <2>1, <2>2
<1>9. /\ Len(u) = z - k /\ n <= Len(u) /\ \A i \in 1 .. z - k : u[i] = r[k + i]
  <2>1. z - q + 1 = z - k /\ n <= z - k /\ \A i \in 1 .. z - k : i \in 1 .. z - q + 1 /\ q + i - 1 = k + i
    BY <1>1, <1>2
  <2> QED BY <1>7, <2>1
<1>10. v = SubSeq(u, one, n)
  <2>1. n \in 0 .. Len(u) /\ one <= n + 1
    BY <1>1, <1>2, <1>8, <1>9
  <2>2. q + one - 1 = q /\ q + n - 1 = hi
    BY <1>1, <1>2
  <2>3. u = SubSeq(r, q, z)
    OBVIOUS
  <2> HIDE DEF u, n, z
  <2>4. SubSeq(u, one, n) = SubSeq(r, q + one - 1, q + n - 1)
    BY <1>2, <2>1, <2>3, SlicesNest
  <2> QED BY <1>6, <2>2, <2>4
<1> HIDE DEF u, n
<1>11. Valid(v)
  BY <1>8 DEF Valid
<1>12. PICK f : /\ Window(v, f, Len(v)) /\ TrimStart(v) = SubSeq(v, f + 1, Len(v))
                /\ f < Len(v) => v[f + 1] \notin Spaces
  BY <1>8, <1>11, TrimStartIs
<1>13. f \in Nat /\ f <= n /\ \A i \in 1 .. f : v[i] \in Spaces
  BY <1>8, <1>12 DEF Window
<1> DEFINE g == f + 1
           x == SubSeq(u, g, n)
<1>14. g \in Nat \ {0} /\ g <= n + 1 /\ n \in 0 .. Len(v) /\ g = f + 1
  BY <1>8, <1>13
<1>15. TrimStart(v) = x
  <2>1. one + g - 1 = g /\ one + n - 1 = n /\ one <= n + 1 /\ n \in 0 .. Len(u)
    BY <1>2, <1>8, <1>9, <1>13
  <2>2. TrimStart(v) = SubSeq(v, g, n)
    BY <1>8, <1>12
  <2> HIDE DEF g, x
  <2>3. SubSeq(v, g, n) = SubSeq(u, one + g - 1, one + n - 1)
    <3>1. /\ u \in Seq(C) /\ one \in Nat \ {0} /\ n \in 0 .. Len(u) /\ one <= n + 1
          /\ v = SubSeq(u, one, n) /\ g \in Nat \ {0} /\ n \in 0 .. Len(v) /\ g <= n + 1
      BY <1>2, <1>7, <1>10, <1>14, <2>1
    <3> QED BY ONLY <3>1, SlicesNest
  <2> QED BY <2>1, <2>2, <2>3 DEF x
<1>16. Inside(x, u, f, n) /\ EndsSolid(u, f, n)
  <2>1. ASSUME NEW i \in 1 .. f PROVE u[i] \in Spaces
    <3>1. i \in 1 .. n /\ i \in 1 .. z - k
      BY <1>1, <1>8, <1>9, <1>13
    <3>2. v[i] = r[k + i] /\ u[i] = r[k + i] /\ v[i] \in Spaces
      BY <1>8, <1>9, <1>13, <3>1
    <3> QED BY <3>2
  <2>2. ASSUME NEW i \in n + 1 .. Len(u) PROVE u[i] \in Spaces
    <3>1. i \in 1 .. z - k /\ k + i \in hi + 1 .. z
      BY <1>1, <1>8, <1>9 DEF n
    <3> QED BY <1>1, <1>9, <3>1
  <2>3. ASSUME f < n PROVE u[n] \notin Spaces
    <3>1. n \in 1 .. z - k /\ k + n = hi /\ lo < hi
      BY <1>1, <1>8, <1>9, <1>13, <2>3 DEF n
    <3>2. r[hi] \notin Spaces
      BY <3>1 DEF EndsSolid
    <3> QED BY <1>9, <3>1, <3>2
  <2> HIDE DEF z
  <2> QED BY <1>8, <1>9, <1>13, <2>1, <2>2, <2>3 DEF Inside, Window, EndsSolid
<1>17. \A i \in 1 .. Len(u) : u[i] # Nul
  <2>1. \A i \in 1 .. z - k : k + i \in 1 .. Len(r)
    BY <1>1
  <2> QED BY <1>9, <2>1
<1> HIDE DEF g, x, z
<1>18. Means(Eat(x, TRUE, limit), u, limit)
  BY <1>7, <1>16, <1>17, EatMeans
<1> QED BY <1>15, <1>18 DEF v, u, q, z

(* What a number is written with. *)
LEMMA NumberWritten ==
  ASSUME NEW C, NEW r \in Seq(C), Invalid \notin Seq(C), Reference!Numbers(r) # {}
  PROVE  /\ \A i \in 1 .. Len(r) : r[i] \in Spaces \cup DOMAIN Digit \cup {Minus, Plus}
         /\ \E i \in 1 .. Len(r) : r[i] \notin Spaces
<1>1. PICK v : v \in Reference!Numbers(r)
  OBVIOUS
<1>2. PICK e, h, k : /\ NumberAt(r, e, h, k)
                     /\ \A i \in k + 1 .. Len(r) : r[i] \in Spaces
  BY <1>1, NumbersAre
<1>3. /\ e \in Nat /\ h \in {0, 1} /\ k \in Nat /\ e + h < k /\ k <= Len(r) /\ Len(r) \in Nat
      /\ \A i \in 1 .. e : r[i] \in Spaces
      /\ h = 1 => r[e + 1] \in {Minus, Plus}
      /\ \A i \in e + h + 1 .. k : r[i] \in DOMAIN Digit
  BY <1>2, LenProperties DEF NumberAt
<1>4. ASSUME NEW i \in 1 .. Len(r)
      PROVE  r[i] \in Spaces \cup DOMAIN Digit \cup {Minus, Plus}
  <2>1. CASE i <= e
    <3>1. i \in 1 .. e
      BY <1>3, <2>1
    <3> QED BY <1>3, <3>1
  <2>2. CASE e + h + 1 <= i /\ i <= k
    <3>1. i \in e + h + 1 .. k
      BY <1>3, <2>2
    <3> QED BY <1>3, <3>1
  <2>3. CASE k < i
    <3>1. i \in k + 1 .. Len(r)
      BY <1>3, <2>3
    <3> QED BY <1>2, <3>1
  <2>4. CASE h = 1 /\ i = e + 1
    BY <1>3, <2>4
  <2> QED BY <1>3, <2>1, <2>2, <2>3, <2>4
<1>5. k \in 1 .. Len(r) /\ r[k] \notin Spaces
  <2>1. k \in e + h + 1 .. k /\ k \in 1 .. Len(r)
    BY <1>3
  <2> QED BY <1>3, <2>1, CharactersAssumption
<1> QED BY <1>4, <1>5

LEMMA PairsAre ==
  ASSUME NEW C, NEW r \in Seq(C), NEW mark, NEW v
  PROVE  v \in Reference!PairsAround(r, mark) <=>
           \E k \in 1 .. Len(r) :
             /\ r[k] = mark
             /\ v \in Reference!Numbers(SubSeq(r, 1, k - 1))
                        \X Reference!Numbers(SubSeq(r, k + 1, Len(r)))
<1>1. DOMAIN r = 1 .. Len(r)
  BY LenProperties
<1> QED BY <1>1 DEF Reference!PairsAround

(* Where only one of the marks can separate two numbers, it does. *)
LEMMA PairsOnly ==
  ASSUME NEW C, NEW r \in Seq(C), NEW mark, NEW k \in 1 .. Len(r), r[k] = mark,
         \A j \in 1 .. Len(r) : r[j] = mark /\ j # k =>
           \/ Reference!Numbers(SubSeq(r, 1, j - 1)) = {}
           \/ Reference!Numbers(SubSeq(r, j + 1, Len(r))) = {}
  PROVE  Reference!PairsAround(r, mark) =
           Reference!Numbers(SubSeq(r, 1, k - 1)) \X Reference!Numbers(SubSeq(r, k + 1, Len(r)))
<1> DEFINE L(j) == Reference!Numbers(SubSeq(r, 1, j - 1))
           R(j) == Reference!Numbers(SubSeq(r, j + 1, Len(r)))
<1>1. \A v : v \in Reference!PairsAround(r, mark) <=>
               \E j \in 1 .. Len(r) : r[j] = mark /\ v \in L(j) \X R(j)
  BY PairsAre
<1>2. \A j \in 1 .. Len(r) : r[j] = mark /\ j # k => L(j) = {} \/ R(j) = {}
  OBVIOUS
<1> HIDE DEF L, R
<1>3. \A j \in 1 .. Len(r) : r[j] = mark /\ j # k => L(j) \X R(j) = {}
  BY <1>2
<1>4. \A v : v \in Reference!PairsAround(r, mark) <=> v \in L(k) \X R(k)
  BY <1>1, <1>3
<1> QED BY <1>4 DEF L, R

(* The part before a position, with what is in it. *)
LEMMA UpToIs ==
  ASSUME NEW C, NEW r \in Seq(C), NEW j \in 1 .. Len(r)
  PROVE  /\ SubSeq(r, 1, j - 1) \in Seq(C) /\ Len(SubSeq(r, 1, j - 1)) = j - 1
         /\ \A i \in 1 .. j - 1 : SubSeq(r, 1, j - 1)[i] = r[i]
<1> DEFINE n == j - 1
<1>1. n \in 0 .. Len(r)
  BY LenProperties
<1> HIDE DEF n
<1>2. /\ Before(r, n) \in Seq(C) /\ Len(Before(r, n)) = n
      /\ \A i \in 1 .. n : Before(r, n)[i] = r[i]
  BY <1>1, BeforeIs
<1> QED BY <1>2 DEF Before, n

LEMMA PairsAtFirst ==
  ASSUME NEW C, NEW r \in Seq(C), Invalid \notin Seq(C), NEW mark,
         mark \notin Spaces \cup DOMAIN Digit \cup {Minus, Plus},
         NEW k \in 1 .. Len(r), r[k] = mark, \A i \in 1 .. k - 1 : r[i] # mark
  PROVE  Reference!PairsAround(r, mark) =
           Reference!Numbers(SubSeq(r, 1, k - 1)) \X Reference!Numbers(SubSeq(r, k + 1, Len(r)))
<1>1. ASSUME NEW j \in 1 .. Len(r), r[j] = mark, j # k
      PROVE  Reference!Numbers(SubSeq(r, 1, j - 1)) = {}
  <2> DEFINE u == SubSeq(r, 1, j - 1)
  <2>1. k \in 1 .. j - 1
    <3>1. ~(j < k)
      <4>1. ASSUME j < k PROVE j \in 1 .. k - 1
        BY <4>1, LenProperties
      <4> QED BY <1>1, <4>1
    <3> QED BY <1>1, <3>1, LenProperties
  <2>2. u \in Seq(C) /\ Len(u) = j - 1 /\ \A i \in 1 .. j - 1 : u[i] = r[i]
    BY UpToIs
  <2>3. u[k] = mark /\ k \in 1 .. Len(u)
    BY <2>1, <2>2
  <2> HIDE DEF u
  <2>4. Reference!Numbers(u) = {}
    BY <2>2, <2>3, NumberWritten
  <2> QED BY <2>4 DEF u
<1> QED BY <1>1, PairsOnly

LEMMA PairsNone ==
  ASSUME NEW C, NEW r \in Seq(C), NEW mark, \A i \in 1 .. Len(r) : r[i] # mark
  PROVE  Reference!PairsAround(r, mark) = {}
BY PairsAre

-----------------------------------------------------------------------------
(* Searching for a mark. *)

(* From pos on the mark is first at k. *)
FirstAt(s, c, pos, k) ==
  /\ k \in pos + 1 .. Len(s) /\ s[k] = c
  /\ \A i \in pos + 1 .. k - 1 : s[i] # c

LEMMA FindFirstAt ==
  ASSUME NEW S, NEW s \in Seq(S), Valid(s), NEW c, NEW pos \in Nat
  PROVE  \/ Find(s, c, pos) = NPos /\ \A i \in pos + 1 .. Len(s) : s[i] # c
         \/ \E k : FirstAt(s, c, pos, k) /\ Find(s, c, pos) = k - 1
<1> DEFINE I == {i \in pos + 1 .. Len(s) : s[i] = c}
<1>1. Find(s, c, pos) = (IF I # {} THEN Min(I) ELSE 0) - 1
  BY DEF Find, SelectInSubSeq, Chars
<1>2. Len(s) \in Nat
  BY LenProperties
<1>3. CASE I = {}
  BY <1>1, <1>2, <1>3 DEF NPos
<1>4. CASE I # {}
  <2> DEFINE low == 1
             k == Min(I)
  <2>1. I \in SUBSET Int /\ low \in Int /\ \A i \in I : low <= i
    BY <1>2
  <2>2. \A i : i \in I <=> i \in pos + 1 .. Len(s) /\ s[i] = c
    OBVIOUS
  <2> HIDE DEF I, low
  <2>3. k \in I /\ \A i \in I : k <= i
    BY <1>4, <2>1, MinOf
  <2>4. Find(s, c, pos) = k - 1
    BY <1>1, <1>4
  <2> HIDE DEF k
  <2>5. k \in pos + 1 .. Len(s) /\ s[k] = c
    BY <2>2, <2>3
  <2>6. ASSUME NEW i \in pos + 1 .. k - 1 PROVE s[i] # c
    <3>1. i \in pos + 1 .. Len(s) /\ ~(k <= i)
      BY <1>2, <2>5
    <3> QED BY <2>2, <2>3, <3>1
  <2> QED BY <2>4, <2>5, <2>6 DEF FirstAt
<1> QED BY <1>3, <1>4

-----------------------------------------------------------------------------
(* Pairs. *)

PairRefused(o) == o.err # "ok" /\ o.nums = <<0, 0>>

LEMMA BothIs ==
  ASSUME NEW p1, NEW p2
  PROVE  /\ p1.err # "ok" \/ p2.err # "ok" => PairRefused(Both(p1, p2))
         /\ p1.err = "ok" /\ p2.err = "ok" =>
              Both(p1, p2) = [err |-> "ok", nums |-> <<p1.num, p2.num>>]
BY DEF Both, PairRefused

(* What is made of the only pair there is, or of none. *)
PairIs(o, pairs) ==
  \/ pairs = {} /\ PairRefused(o)
  \/ \E x, y \in Int :
       /\ pairs = {<<x, y>>}
       /\ IF Fits(x, LongLimit) /\ Fits(y, LongLimit)
          THEN o = [err |-> "ok", nums |-> <<Narrow(x, IntLimit), Narrow(y, IntLimit)>>]
          ELSE PairRefused(o)

LEMMA BothMean ==
  ASSUME NEW C, NEW s1 \in Seq(C), NEW s2 \in Seq(C), Invalid \notin Seq(C),
         NEW p1, NEW p2, Means(p1, s1, IntLimit), Means(p2, s2, IntLimit)
  PROVE  PairIs(Both(p1, p2), Reference!Numbers(s1) \X Reference!Numbers(s2))
<1> DEFINE N1 == Reference!Numbers(s1)
           N2 == Reference!Numbers(s2)
           good(x) == IF Fits(x, LongLimit) THEN Parsed(Narrow(x, IntLimit)) ELSE Failed("ERANGE")
<1>1. /\ \A x \in N1 : p1 = good(x)
      /\ N1 = {} => p1.err # "ok"
      /\ \A x \in N2 : p2 = good(x)
      /\ N2 = {} => p2.err # "ok"
  BY DEF Means
<1>2. /\ \A x \in N1 : x \in Int /\ N1 = {x}
      /\ \A x \in N2 : x \in Int /\ N2 = {x}
  BY NumbersOne
<1>3. \A x : /\ Fits(x, LongLimit) => good(x).err = "ok" /\ good(x).num = Narrow(x, IntLimit)
             /\ ~Fits(x, LongLimit) => good(x).err # "ok"
  BY DEF Parsed, Failed
<1> HIDE DEF N1, N2, good
<1>4. CASE N1 = {} \/ N2 = {}
  <2>1. N1 \X N2 = {}
    BY <1>4
  <2>2. PairRefused(Both(p1, p2))
    BY <1>1, <1>4, BothIs
  <2> QED BY <2>1, <2>2 DEF PairIs, N1, N2
<1>5. CASE N1 # {} /\ N2 # {}
  <2>1. PICK x \in N1, y \in N2 : TRUE
    BY <1>5
  <2>2. x \in Int /\ y \in Int /\ N1 = {x} /\ N2 = {y}
    BY <1>2, <2>1
  <2>3. N1 \X N2 = {<<x, y>>}
    BY <2>2
  <2>4. p1 = good(x) /\ p2 = good(y)
    BY <1>1, <2>1
  <2>5. CASE Fits(x, LongLimit) /\ Fits(y, LongLimit)
    <3>1. Both(p1, p2) = [err |-> "ok", nums |-> <<Narrow(x, IntLimit), Narrow(y, IntLimit)>>]
      BY <1>3, <2>4, <2>5, BothIs
    <3> QED BY <2>2, <2>3, <2>5, <3>1 DEF PairIs, N1, N2
  <2>6. CASE ~(Fits(x, LongLimit) /\ Fits(y, LongLimit))
    <3>1. PairRefused(Both(p1, p2))
      BY <1>3, <2>4, <2>6, BothIs
    <3> QED BY <2>2, <2>3, <2>6, <3>1 DEF PairIs, N1, N2
  <2> QED BY <2>5, <2>6
<1> QED BY <1>4, <1>5

LEMMA BlankNoNumber ==
  ASSUME NEW C, NEW r \in Seq(C), Invalid \notin Seq(C), \A i \in 1 .. Len(r) : r[i] \in Spaces
  PROVE  Reference!Numbers(r) = {}
BY NumberWritten

(* The part behind a position, with what is in it. *)
LEMMA BehindIs ==
  ASSUME NEW C, NEW r \in Seq(C), NEW j \in 1 .. Len(r)
  PROVE  /\ SubSeq(r, j + 1, Len(r)) \in Seq(C) /\ Len(SubSeq(r, j + 1, Len(r))) = Len(r) - j
         /\ \A i \in 1 .. Len(r) - j : SubSeq(r, j + 1, Len(r))[i] = r[j + i]
<1>1. j \in 0 .. Len(r)
  BY LenProperties
<1>2. /\ From(r, j) \in Seq(C) /\ Len(From(r, j)) = Len(r) - j
      /\ \A i \in 1 .. Len(r) - j : From(r, j)[i] = r[j + i]
  BY <1>1, FromIs
<1> QED BY <1>2 DEF From

(* The first mark in what is left without blanks is the first of all. *)
LEMMA MarkOutside ==
  ASSUME NEW C, NEW r \in Seq(C), NEW w, NEW lo, NEW hi, Window(r, lo, hi), Len(w) = hi - lo,
         \A i \in 1 .. hi - lo : w[i] = r[lo + i], NEW mark, mark \notin Spaces
  PROVE  /\ (\A i \in 1 .. Len(w) : w[i] # mark) => \A i \in 1 .. Len(r) : r[i] # mark
         /\ \A j \in 1 .. Len(w) : w[j] = mark /\ (\A i \in 1 .. j - 1 : w[i] # mark) =>
              /\ lo + j \in lo + 1 .. hi /\ lo + j \in 1 .. Len(r) /\ r[lo + j] = mark
              /\ \A i \in 1 .. lo + j - 1 : r[i] # mark
<1>1. /\ lo \in Nat /\ hi \in Nat /\ lo <= hi /\ hi <= Len(r) /\ Len(r) \in Nat
      /\ \A i \in 1 .. lo : r[i] \in Spaces
      /\ \A i \in hi + 1 .. Len(r) : r[i] \in Spaces
  BY LenProperties DEF Window
<1>2. ASSUME NEW n \in 0 .. hi - lo, \A i \in 1 .. n : w[i] # mark, NEW i \in 1 .. lo + n
      PROVE  r[i] # mark
  <2>1. CASE i <= lo
    <3>1. i \in 1 .. lo
      BY <1>1, <2>1
    <3> QED BY <1>1, <3>1
  <2>2. CASE lo < i
    <3> DEFINE j == i - lo
    <3>1. j \in 1 .. n /\ j \in 1 .. hi - lo /\ lo + j = i
      BY <1>1, <2>2
    <3> HIDE DEF j
    <3>2. w[j] = r[lo + j] /\ w[j] # mark
      BY <1>2, <3>1
    <3> QED BY <3>1, <3>2
  <2> QED BY <1>1, <2>1, <2>2
<1>3. ASSUME \A i \in 1 .. Len(w) : w[i] # mark, NEW i \in 1 .. Len(r)
      PROVE  r[i] # mark
  <2>1. CASE hi < i
    <3>1. i \in hi + 1 .. Len(r)
      BY <1>1, <2>1
    <3> QED BY <1>1, <3>1
  <2>2. CASE i <= hi
    <3> DEFINE n == hi - lo
    <3>1. n \in 0 .. hi - lo /\ i \in 1 .. lo + n /\ \A x \in 1 .. n : w[x] # mark
      BY <1>1, <1>3, <2>2
    <3> HIDE DEF n
    <3> QED BY <1>2, <3>1
  <2> QED BY <1>1, <2>1, <2>2
<1>4. ASSUME NEW j \in 1 .. Len(w), w[j] = mark, \A i \in 1 .. j - 1 : w[i] # mark
      PROVE  /\ lo + j \in lo + 1 .. hi /\ lo + j \in 1 .. Len(r) /\ r[lo + j] = mark
             /\ \A i \in 1 .. lo + j - 1 : r[i] # mark
  <2> DEFINE n == j - 1
  <2>1. n \in 0 .. hi - lo /\ \A x \in 1 .. n : w[x] # mark
    BY <1>1, <1>4
  <2>2. lo + n = lo + j - 1 /\ lo + j \in lo + 1 .. hi /\ lo + j \in 1 .. Len(r) /\ j \in 1 .. hi - lo
    BY <1>1
  <2> HIDE DEF n
  <2>3. \A i \in 1 .. lo + n : r[i] # mark
    BY <1>2, <2>1
  <2>4. r[lo + j] = mark
    BY <1>4, <2>2
  <2> QED BY <2>2, <2>3, <2>4
<1> QED BY <1>3, <1>4

(* StrToIntPair() of a text without Nul is what the two numbers around the  *)
(* separator are.                                                           *)
LEMMA PairParsed ==
  ASSUME NEW C, NEW r \in Seq(C), Invalid \notin Seq(C), \A i \in 1 .. Len(r) : r[i] # Nul,
         NEW mark, mark \notin Spaces \cup DOMAIN Digit \cup {Minus, Plus}
  PROVE  PairIs(StrToIntPair(r, mark), Reference!PairsAround(r, mark))
<1> DEFINE yes == TRUE
           w == IF yes THEN Trim(r) ELSE r
           z == 0
           p == Find(w, mark, z)
           pairs == Reference!PairsAround(r, mark)
           o == StrToIntPair(r, mark)
           no == Both(Failed("EILSEQ"), Failed("EILSEQ"))
<1>0. PICK lo, hi : Kept(C, w, r, yes, lo, hi)
  <2> HIDE DEF yes
  <2> QED BY TrimInside
<1>1. /\ Inside(w, r, lo, hi) /\ w \in Seq(C) /\ Len(w) = hi - lo
      /\ \A i \in 1 .. hi - lo : w[i] = r[lo + i]
      /\ yes => EndsSolid(r, lo, hi)
  <2> HIDE DEF w
  <2> QED BY <1>0 DEF Kept
<1>2. Window(r, lo, hi) /\ EndsSolid(r, lo, hi)
  BY <1>1 DEF Inside
<1>3. /\ lo \in Nat /\ hi \in Nat /\ lo <= hi /\ hi <= Len(r) /\ Len(r) \in Nat
      /\ \A i \in 1 .. lo : r[i] \in Spaces
      /\ \A i \in hi + 1 .. Len(r) : r[i] \in Spaces
  BY <1>2, LenProperties DEF Window
<1>4. /\ p \in {NPos, z, Len(w) - 1} => o = no
      /\ p \notin {NPos, z, Len(w) - 1} =>
           o = Both(Eat(TrimEnd(Before(w, p)), TRUE, IntLimit),
                    Eat(TrimStart(From(w, p + 1)), TRUE, IntLimit))
  BY DEF StrToIntPair, Valid, Eat32
<1>5. z \in Nat /\ z = 0 /\ Valid(w)
  BY <1>1 DEF Valid
<1>6. PairRefused(no)
  BY BothIs DEF Failed
<1> HIDE DEF w, yes, o, no
<1>7. \/ p = NPos /\ \A i \in z + 1 .. Len(w) : w[i] # mark
      \/ \E k : FirstAt(w, mark, z, k) /\ p = k - 1
  <2>1. w \in Seq(C) /\ Valid(w) /\ z \in Nat
    BY <1>1, <1>5
  <2> HIDE DEF z
  <2> QED BY ONLY <2>1, FindFirstAt DEF p
<1> HIDE DEF p
<1>8. CASE p = NPos /\ \A i \in z + 1 .. Len(w) : w[i] # mark
  <2>1. \A i \in 1 .. Len(w) : w[i] # mark
    BY <1>8
  <2>2. \A i \in 1 .. Len(r) : r[i] # mark
    <3>1. mark \notin Spaces
      OBVIOUS
    <3>2. /\ Window(r, lo, hi) /\ Len(w) = hi - lo /\ \A i \in 1 .. hi - lo : w[i] = r[lo + i]
      BY <1>1, <1>2
    <3> QED BY ONLY <2>1, <3>1, <3>2, r \in Seq(C), MarkOutside
  <2>3. pairs = {}
    BY <2>2, PairsNone
  <2> QED BY <1>4, <1>6, <1>8, <2>3 DEF PairIs, o
<1>9. ASSUME NEW k0, FirstAt(w, mark, z, k0), p = k0 - 1
      PROVE  PairIs(o, pairs)
  <2> DEFINE k == lo + k0
             s1 == SubSeq(r, 1, k - 1)
             s2 == SubSeq(r, k + 1, Len(r))
  <2>1. k0 \in 1 .. Len(w) /\ w[k0] = mark /\ \A i \in 1 .. k0 - 1 : w[i] # mark
    BY <1>9 DEF FirstAt
  <2>2. /\ k \in lo + 1 .. hi /\ k \in 1 .. Len(r) /\ r[k] = mark
        /\ \A i \in 1 .. k - 1 : r[i] # mark
    <3>1. mark \notin Spaces
      OBVIOUS
    <3>2. /\ Window(r, lo, hi) /\ Len(w) = hi - lo /\ \A i \in 1 .. hi - lo : w[i] = r[lo + i]
      BY <1>1, <1>2
    <3>3. \A j \in 1 .. Len(w) : w[j] = mark /\ (\A i \in 1 .. j - 1 : w[i] # mark) =>
            /\ lo + j \in lo + 1 .. hi /\ lo + j \in 1 .. Len(r) /\ r[lo + j] = mark
            /\ \A i \in 1 .. lo + j - 1 : r[i] # mark
      BY ONLY <3>1, <3>2, r \in Seq(C), MarkOutside
    <3>4. /\ lo + k0 \in lo + 1 .. hi /\ lo + k0 \in 1 .. Len(r) /\ r[lo + k0] = mark
          /\ \A i \in 1 .. lo + k0 - 1 : r[i] # mark
      BY ONLY <2>1, <3>3
    <3>5. lo + k0 - 1 = (lo + k0) - 1
      BY <1>3, <2>1
    <3> QED BY ONLY <3>4, <3>5 DEF k
  <2>3. k0 \in Nat /\ k - lo = k0 /\ k - lo - 1 = p /\ p + 1 = k - lo
    BY <1>3, <1>9, <2>1
  <2> HIDE DEF k
  <2>4. pairs = Reference!Numbers(s1) \X Reference!Numbers(s2)
    BY <2>2, PairsAtFirst
  <2>5. s1 \in Seq(C) /\ Len(s1) = k - 1 /\ \A i \in 1 .. k - 1 : s1[i] = r[i]
    BY <2>2, UpToIs
  <2>6. s2 \in Seq(C) /\ Len(s2) = Len(r) - k /\ \A i \in 1 .. Len(r) - k : s2[i] = r[k + i]
    BY <2>2, BehindIs
  <2> HIDE DEF s1, s2
  <2>7. CASE p = z
    <3>1. k - 1 = lo
      BY <1>3, <2>2, <2>3, <2>7
    <3>2. Reference!Numbers(s1) = {}
      BY <1>3, <2>5, <3>1, BlankNoNumber
    <3>3. pairs = {} /\ o = no
      BY <1>4, <2>4, <2>7, <3>2
    <3> QED BY <1>6, <3>3 DEF PairIs
  <2>8. CASE p = Len(w) - 1
    <3>1. k = hi
      BY <1>1, <1>3, <2>2, <2>3, <2>8
    <3>2. \A i \in 1 .. Len(s2) : s2[i] \in Spaces
      <4>1. \A i \in 1 .. Len(r) - k : k + i \in hi + 1 .. Len(r)
        BY <1>3, <3>1
      <4> QED BY <1>3, <2>6, <4>1
    <3>3. Reference!Numbers(s2) = {}
      BY <2>6, <3>2, BlankNoNumber
    <3>4. pairs = {} /\ o = no
      BY <1>4, <2>4, <2>8, <3>3
    <3> QED BY <1>6, <3>4 DEF PairIs
  <2>9. CASE p \notin {z, Len(w) - 1}
    <3>1. p # NPos
      BY <2>1, <2>3, <1>9 DEF NPos
    <3> DEFINE p1 == Eat(TrimEnd(Before(w, p)), TRUE, IntLimit)
               p2 == Eat(TrimStart(From(w, p + 1)), TRUE, IntLimit)
    <3>2. o = Both(p1, p2)
      BY <1>4, <2>9, <3>1
    <3>3. Means(p1, s1, IntLimit)
      BY <1>1, <2>2, <2>3, LeftMeans DEF s1
    <3>4. Means(p2, s2, IntLimit)
      <4>1. Means(Eat(TrimStart(From(w, k - lo)), TRUE, IntLimit), SubSeq(r, k + 1, Len(r)), IntLimit)
        <5>1. /\ r \in Seq(C) /\ Invalid \notin Seq(C) /\ \A i \in 1 .. Len(r) : r[i] # Nul
              /\ w \in Seq(C)
          BY <1>1
        <5> QED BY ONLY <1>1, <1>2, <2>2, <5>1, RightMeans
      <4> QED BY <2>3, <4>1 DEF s2
    <3> HIDE DEF p1, p2
    <3>5. PairIs(Both(p1, p2), Reference!Numbers(s1) \X Reference!Numbers(s2))
      BY <2>5, <2>6, <3>3, <3>4, BothMean
    <3> QED BY <2>4, <3>2, <3>5
  <2> QED BY <2>7, <2>8, <2>9
<1> QED BY <1>7, <1>8, <1>9 DEF o

(* A text without Nul, trimmed and converted strictly. *)
LEMMA ConvertMeans ==
  ASSUME NEW C, NEW r \in Seq(C), Invalid \notin Seq(C), \A i \in 1 .. Len(r) : r[i] # Nul,
         NEW limit
  PROVE  Means(Convert(r, TRUE, TRUE, limit), r, limit)
<1> DEFINE yes == TRUE
           w == IF yes THEN Trim(r) ELSE r
           o == Convert(r, TRUE, TRUE, limit)
<1>0. PICK lo, hi : Kept(C, w, r, yes, lo, hi)
  <2> HIDE DEF yes
  <2> QED BY TrimInside
<1>1. /\ Inside(w, r, lo, hi) /\ w \in Seq(C) /\ Len(w) = hi - lo
      /\ yes => EndsSolid(r, lo, hi)
  <2> HIDE DEF w
  <2> QED BY <1>0 DEF Kept
<1>2. o = IF w = <<>> THEN Failed("EINVAL") ELSE Eat(w, TRUE, limit)
  BY DEF Convert, Valid
<1>3. EndsSolid(r, lo, hi)
  BY <1>1
<1> HIDE DEF w, yes, o
<1>4. CASE w = <<>>
  <2>1. lo \in Nat /\ hi \in Nat /\ hi = lo
    BY <1>1, <1>4, EmptySeq DEF Inside, Window
  <2>2. \A i \in 1 .. Len(r) : r[i] \in Spaces
    <3>1. /\ \A i \in 1 .. lo : r[i] \in Spaces
          /\ \A i \in hi + 1 .. Len(r) : r[i] \in Spaces
      BY <1>1 DEF Inside, Window
    <3>2. ASSUME NEW i \in 1 .. Len(r) PROVE i \in 1 .. lo \/ i \in hi + 1 .. Len(r)
      BY <2>1, LenProperties
    <3> QED BY <3>1, <3>2
  <2>3. Reference!Numbers(r) = {}
    BY <2>2, BlankNoNumber
  <2>4. Refused(o)
    BY <1>2, <1>4, FailedRefused
  <2>5. Means(o, r, limit)
    BY <2>3, <2>4 DEF Means, Refused
  <2> QED BY <2>5 DEF o
<1>5. CASE w # <<>>
  <2>1. Means(o, r, limit)
    BY <1>1, <1>2, <1>3, <1>5, EatMeans
  <2> QED BY <2>1 DEF o
<1> QED BY <1>4, <1>5

-----------------------------------------------------------------------------
(* Sets of numbers in ascending order. *)

LEMMA SameCardinality == ASSUME NEW D PROVE Reference!Cardinality(D) = Cardinality(D)
BY DEF Cardinality, Reference!Cardinality

Ascends(f, n, D) ==
  /\ n \in Nat /\ f \in [1 .. n -> Int]
  /\ \A i, j \in 1 .. n : i < j => f[i] < f[j]
  /\ \A x : x \in D <=> \E i \in 1 .. n : x = f[i]

(* The first m elements. *)
FirstOnes(f, m) == {f[i] : i \in 1 .. m}

LEMMA FirstOnesCount ==
  ASSUME NEW f, NEW n, NEW D, Ascends(f, n, D), NEW m \in 0 .. n
  PROVE  IsFiniteSet(FirstOnes(f, m)) /\ Cardinality(FirstOnes(f, m)) = m
<1> DEFINE G == {k \in Nat : k <= n => /\ IsFiniteSet(FirstOnes(f, k))
                                       /\ Cardinality(FirstOnes(f, k)) = k}
<1>1. n \in Nat /\ \A i, j \in 1 .. n : i < j => f[i] < f[j] /\ f[i] \in Int /\ f[j] \in Int
  BY DEF Ascends
<1>2. 0 \in G
  <2>1. FirstOnes(f, 0) = {}
    BY DEF FirstOnes
  <2> QED BY <2>1, FS_EmptySet
<1>3. ASSUME NEW k \in Nat, k \in G PROVE k + 1 \in G
  <2>1. CASE k + 1 <= n
    <3> DEFINE D1 == FirstOnes(f, k)
               D2 == FirstOnes(f, k + 1)
               x == f[k + 1]
    <3>1. IsFiniteSet(D1) /\ Cardinality(D1) = k
      BY <1>1, <1>3, <2>1
    <3>2. D2 = D1 \cup {x}
      <4>1. \A i : i \in 1 .. k + 1 <=> i \in 1 .. k \/ i = k + 1
        OBVIOUS
      <4> QED BY <4>1 DEF FirstOnes
    <3>3. x \notin D1
      <4>1. ASSUME NEW i \in 1 .. k, x = f[i] PROVE FALSE
        <5>1. i \in 1 .. n /\ k + 1 \in 1 .. n /\ i < k + 1
          BY <1>1, <2>1
        <5>2. f[i] < f[k + 1] /\ f[i] \in Int
          BY <1>1, <5>1
        <5> QED BY <4>1, <5>2
      <4> QED BY <4>1 DEF FirstOnes
    <3> HIDE DEF D1, D2, x
    <3>4. IsFiniteSet(D2) /\ Cardinality(D2) = k + 1
      BY <3>1, <3>2, <3>3, FS_AddElement
    <3> QED BY <2>1, <3>4 DEF D2
  <2>2. CASE ~(k + 1 <= n)
    BY <2>2
  <2> QED BY <2>1, <2>2
<1> HIDE DEF G
<1>4. \A k \in Nat : k \in G
  BY <1>2, <1>3, NatInd
<1>5. m \in Nat /\ m <= n
  BY <1>1
<1> QED BY <1>4, <1>5 DEF G

LEMMA InOrderIs ==
  ASSUME NEW f, NEW n, NEW D, Ascends(f, n, D)
  PROVE  Reference!InOrder(D) = f
<1> DEFINE below(x) == Cardinality({y \in D : y < x})
<1>1. /\ n \in Nat /\ f \in [1 .. n -> Int]
      /\ \A i, j \in 1 .. n : i < j => f[i] < f[j]
      /\ \A x : x \in D <=> \E i \in 1 .. n : x = f[i]
  BY DEF Ascends
<1>2. D = FirstOnes(f, n)
  BY <1>1 DEF FirstOnes
<1>3. Cardinality(D) = n
  <2>1. n \in 0 .. n
    BY <1>1
  <2> QED BY <1>2, <2>1, FirstOnesCount
<1>4. ASSUME NEW k \in 1 .. n PROVE below(f[k]) = k - 1
  <2> DEFINE m == k - 1
  <2>1. m \in 0 .. n
    BY <1>1
  <2>2. {y \in D : y < f[k]} = FirstOnes(f, m)
    <3>1. ASSUME NEW y \in D, y < f[k] PROVE y \in FirstOnes(f, m)
      <4>1. PICK i \in 1 .. n : y = f[i]
        BY <1>1, <3>1
      <4>2. f[i] \in Int /\ f[k] \in Int
        BY <1>1
      <4>3. ~(k < i) /\ k # i
        BY <1>1, <3>1, <4>1, <4>2
      <4>4. i \in 1 .. m
        BY <1>1, <4>3
      <4> QED BY <4>1, <4>4 DEF FirstOnes
    <3>2. ASSUME NEW i \in 1 .. m PROVE f[i] \in D /\ f[i] < f[k]
      <4>1. i \in 1 .. n /\ i < k
        BY <1>1
      <4> QED BY <1>1, <4>1
    <3> QED BY <3>1, <3>2 DEF FirstOnes
  <2> HIDE DEF m
  <2>3. Cardinality(FirstOnes(f, m)) = m
    BY <2>1, FirstOnesCount
  <2> QED BY <2>2, <2>3 DEF m
<1>5. Reference!InOrder(D) = [k \in 1 .. n |-> CHOOSE x \in D : below(x) = k - 1]
  <2>1. Reference!Cardinality(D) = n
    BY <1>3, SameCardinality
  <2>2. Reference!InOrder(D) = [k \in 1 .. Reference!Cardinality(D) |->
            CHOOSE x \in D : Reference!Cardinality({y \in D : y < x}) = k - 1]
    BY DEF Reference!InOrder
  <2>3. ASSUME NEW x PROVE Reference!Cardinality({y \in D : y < x}) = below(x)
    BY SameCardinality
  <2> HIDE DEF below
  <2> QED BY <2>1, <2>2, <2>3
<1> HIDE DEF below
<1>6. ASSUME NEW k \in 1 .. n PROVE (CHOOSE x \in D : below(x) = k - 1) = f[k]
  <2>1. f[k] \in D /\ below(f[k]) = k - 1
    BY <1>1, <1>4
  <2>2. ASSUME NEW x \in D, below(x) = k - 1 PROVE x = f[k]
    <3>1. PICK i \in 1 .. n : x = f[i]
      BY <1>1
    <3>2. i - 1 = k - 1
      BY <1>4, <2>2, <3>1
    <3>3. i = k
      BY <1>1, <3>2
    <3> QED BY <3>1, <3>3
  <2> QED BY <2>1, <2>2
<1>7. f = [k \in 1 .. n |-> f[k]]
  BY <1>1
<1> QED BY <1>5, <1>6, <1>7

LEMMA AscendExists ==
  ASSUME NEW low \in Int, NEW high \in Nat, NEW D \in SUBSET Int,
         \A x \in D : low <= x /\ x < low + high
  PROVE  \E f, n : Ascends(f, n, D)
<1> DEFINE Upto(h) == {x \in D : x < low + h}
           G == {h \in Nat : \E f, n : Ascends(f, n, Upto(h))}
<1>1. 0 \in G
  <2> DEFINE f == [i \in 1 .. 0 |-> 0]
             n == 0
  <2>1. Upto(0) = {}
    <3>1. ASSUME NEW x \in D PROVE ~(x < low + 0)
      OBVIOUS
    <3> QED BY <3>1
  <2>2. Ascends(f, n, Upto(0))
    <3> HIDE DEF Upto
    <3> QED BY <2>1 DEF Ascends
  <2> QED BY <2>2
<1>2. ASSUME NEW h \in Nat, h \in G PROVE h + 1 \in G
  <2> DEFINE c == low + h
             D1 == Upto(h)
             D2 == Upto(h + 1)
  <2>1. PICK f, n : Ascends(f, n, D1)
    BY <1>2
  <2>2. c \in Int /\ \A x : x \in D2 <=> x \in D1 \/ (x = c /\ x \in D)
    <3>1. \A x \in D : x < low + (h + 1) <=> x < c \/ x = c
      OBVIOUS
    <3>2. c \in Int
      OBVIOUS
    <3> QED BY <3>1, <3>2
  <2>3. \A x \in D1 : x < c /\ x \in Int
    OBVIOUS
  <2>6. ASSUME NEW g, NEW m, Ascends(g, m, D2) PROVE h + 1 \in G
    <3>1. Ascends(g, m, Upto(h + 1)) /\ h + 1 \in Nat
      BY <2>6
    <3> HIDE DEF Upto
    <3> QED BY <3>1
  <2> HIDE DEF c, D1, D2, G
  <2>4. CASE c \notin D
    <3>1. Ascends(f, n, D2)
      BY <2>1, <2>2, <2>4 DEF Ascends
    <3> QED BY <2>6, <3>1
  <2>5. CASE c \in D
    <3> DEFINE m == n + 1
               g == [i \in 1 .. m |-> IF i = m THEN c ELSE f[i]]
    <3>1. /\ n \in Nat /\ f \in [1 .. n -> Int]
          /\ \A i, j \in 1 .. n : i < j => f[i] < f[j]
          /\ \A x : x \in D1 <=> \E i \in 1 .. n : x = f[i]
      BY <2>1 DEF Ascends
    <3>2. /\ m \in Nat /\ \A i \in 1 .. m : i # m => i \in 1 .. n
          /\ \A i \in 1 .. n : i \in 1 .. m /\ i # m /\ i < m
          /\ m \in 1 .. m
      BY <3>1
    <3> HIDE DEF m
    <3>3. g \in [1 .. m -> Int] /\ g[m] = c /\ \A i \in 1 .. n : g[i] = f[i]
      BY <2>2, <3>1, <3>2
    <3> HIDE DEF g
    <3>4. ASSUME NEW i \in 1 .. m, NEW j \in 1 .. m, i < j PROVE g[i] < g[j]
      <4>1. i # m
        BY <3>2, <3>4
      <4>2. i \in 1 .. n /\ f[i] \in D1 /\ g[i] = f[i]
        BY <3>1, <3>2, <3>3, <4>1
      <4>3. CASE j = m
        BY <2>3, <3>3, <4>2, <4>3
      <4>4. CASE j # m
        BY <3>1, <3>2, <3>3, <3>4, <4>2, <4>4
      <4> QED BY <4>3, <4>4
    <3>5. \A x : x \in D2 <=> \E i \in 1 .. m : x = g[i]
      BY <2>2, <2>5, <3>1, <3>2, <3>3
    <3>6. Ascends(g, m, D2)
      BY <3>2, <3>3, <3>4, <3>5 DEF Ascends
    <3> QED BY <2>6, <3>6
  <2> QED BY <2>4, <2>5
<1> HIDE DEF G
<1>3. high \in G
  BY <1>1, <1>2, NatInd
<1>4. Upto(high) = D
  OBVIOUS
<1> QED BY <1>3, <1>4 DEF G

-----------------------------------------------------------------------------
(* The parts of a text. *)

EndsOf(s, sep) == {0, Len(s) + 1} \cup {i \in 1 .. Len(s) : s[i] = sep}

LEMMA PartsOf ==
  ASSUME NEW C, NEW s \in Seq(C), NEW sep, NEW f, NEW n, Ascends(f, n, EndsOf(s, sep))
  PROVE  Reference!Parts(s, sep) = [k \in 1 .. n - 1 |-> SubSeq(s, f[k] + 1, f[k + 1] - 1)]
<1> DEFINE D == {0, Len(s) + 1} \cup {i \in DOMAIN s : s[i] = sep}
           e == Reference!InOrder(D)
<1>1. D = EndsOf(s, sep)
  BY LenProperties DEF EndsOf
<1> HIDE DEF D
<1>2. e = f
  BY <1>1, InOrderIs
<1>3. n \in Nat /\ f \in Seq(Int) /\ Len(f) = n
  BY DEF Ascends
<1>4. Reference!Parts(s, sep) = [k \in 1 .. Len(e) - 1 |-> SubSeq(s, e[k] + 1, e[k + 1] - 1)]
  BY DEF Reference!Parts, D
<1> HIDE DEF e
<1> QED BY <1>2, <1>3, <1>4

LEMMA EndsAscend ==
  ASSUME NEW C, NEW s \in Seq(C), NEW sep
  PROVE  \E f, n : /\ Ascends(f, n, EndsOf(s, sep)) /\ n >= 2
                   /\ f[1] = 0 /\ f[n] = Len(s) + 1
                   /\ \A i \in 1 .. n : f[i] \in 0 .. Len(s) + 1
<1> DEFINE D == EndsOf(s, sep)
           low == 0
           high == Len(s) + 2
<1>1. Len(s) \in Nat
  BY LenProperties
<1>2. D \in SUBSET Int /\ 0 \in D /\ Len(s) + 1 \in D /\ \A x \in D : 0 <= x /\ x <= Len(s) + 1
  BY <1>1 DEF EndsOf
<1>3. low \in Int /\ high \in Nat /\ \A x \in D : low <= x /\ x < low + high
  BY <1>1, <1>2
<1> HIDE DEF D, low, high
<1>4. PICK f, n : Ascends(f, n, D)
  BY <1>2, <1>3, AscendExists
<1>5. /\ n \in Nat /\ f \in [1 .. n -> Int]
      /\ \A i, j \in 1 .. n : i < j => f[i] < f[j]
      /\ \A x : x \in D <=> \E i \in 1 .. n : x = f[i]
  BY <1>4 DEF Ascends
<1>6. PICK a \in 1 .. n : f[a] = 0
  BY <1>2, <1>5
<1>7. PICK b \in 1 .. n : f[b] = Len(s) + 1
  BY <1>2, <1>5
<1>8. ASSUME NEW i \in 1 .. n PROVE f[i] \in 0 .. Len(s) + 1
  BY <1>1, <1>2, <1>5
<1>9. a = 1
  <2>1. ASSUME 1 < a PROVE FALSE
    <3>1. 1 \in 1 .. n /\ f[1] < f[a] /\ f[1] \in 0 .. Len(s) + 1
      BY <1>5, <1>8, <2>1
    <3> QED BY <1>1, <1>6, <3>1
  <2> QED BY <2>1
<1>10. b = n
  <2>1. ASSUME b < n PROVE FALSE
    <3>1. n \in 1 .. n /\ f[b] < f[n] /\ f[n] \in 0 .. Len(s) + 1
      BY <1>5, <1>8, <2>1
    <3> QED BY <1>1, <1>7, <3>1
  <2> QED BY <1>5, <2>1
<1>11. n >= 2
  <2>1. n # 1
    BY <1>1, <1>6, <1>7, <1>9, <1>10
  <2> QED BY <1>5, <1>9, <2>1
<1> QED BY <1>4, <1>6, <1>7, <1>8, <1>9, <1>10, <1>11 DEF D

LEMMA PartsType ==
  ASSUME NEW C, NEW s \in Seq(C), NEW sep
  PROVE  Reference!Parts(s, sep) \in Seq(Seq(C)) /\ Len(Reference!Parts(s, sep)) >= 1
<1>1. PICK f, n : /\ Ascends(f, n, EndsOf(s, sep)) /\ n >= 2
                  /\ \A i \in 1 .. n : f[i] \in 0 .. Len(s) + 1
  BY EndsAscend
<1> DEFINE m == n - 1
           part(k) == SubSeq(s, f[k] + 1, f[k + 1] - 1)
<1>2. Reference!Parts(s, sep) = [k \in 1 .. m |-> part(k)]
  BY <1>1, PartsOf
<1>3. n \in Nat /\ m \in Nat /\ m >= 1 /\ \A i, j \in 1 .. n : i < j => f[i] < f[j]
  BY <1>1 DEF Ascends
<1>4. ASSUME NEW k \in 1 .. m PROVE part(k) \in Seq(C)
  <2> DEFINE a == f[k] + 1
             b == f[k + 1] - 1
  <2>1. k \in 1 .. n /\ k + 1 \in 1 .. n /\ k < k + 1
    BY <1>3
  <2>2. f[k] < f[k + 1] /\ f[k] \in 0 .. Len(s) + 1 /\ f[k + 1] \in 0 .. Len(s) + 1
    BY <1>1, <1>3, <2>1
  <2>3. a \in Nat \ {0} /\ b \in 0 .. Len(s) /\ a <= b + 1
    BY <2>2, LenProperties
  <2> HIDE DEF a, b
  <2>4. SubSeq(s, a, b) \in Seq(C)
    BY <2>3, SliceIs
  <2> QED BY <2>4 DEF a, b
<1> HIDE DEF m, part
<1>5. [k \in 1 .. m |-> part(k)] \in [1 .. m -> Seq(C)]
  BY <1>4
<1>6. Reference!Parts(s, sep) \in Seq(Seq(C)) /\ Len(Reference!Parts(s, sep)) = m
  BY <1>2, <1>3, <1>5
<1> QED BY <1>3, <1>6

(* Without a separator there is one part. *)
LEMMA PartsWhole ==
  ASSUME NEW C, NEW s \in Seq(C), NEW sep, \A i \in 1 .. Len(s) : s[i] # sep
  PROVE  Reference!Parts(s, sep) = <<s>>
<1> DEFINE f == [i \in 1 .. 2 |-> IF i = 1 THEN 0 ELSE Len(s) + 1]
           two == 2
<1>1. Len(s) \in Nat /\ SubSeq(s, 1, Len(s)) = s
  BY LenProperties, SubSeqFull
<1>2. EndsOf(s, sep) = {0, Len(s) + 1}
  BY DEF EndsOf
<1>3. f[1] = 0 /\ f[2] = Len(s) + 1
  OBVIOUS
<1>4. Ascends(f, two, EndsOf(s, sep))
  <2>1. f \in [1 .. 2 -> Int]
    BY <1>1
  <2>2. \A i, j \in 1 .. 2 : i < j => f[i] < f[j]
    BY <1>1
  <2>3. \A i : i \in 1 .. 2 <=> i = 1 \/ i = 2
    OBVIOUS
  <2>4. \A x : x \in {0, Len(s) + 1} <=> \E i \in 1 .. 2 : x = f[i]
    <3> HIDE DEF f
    <3> QED BY <1>3, <2>3
  <2> HIDE DEF f
  <2> QED BY <1>2, <2>1, <2>2, <2>4 DEF Ascends
<1> HIDE DEF f, two
<1>5. Reference!Parts(s, sep) = [k \in 1 .. two - 1 |-> SubSeq(s, f[k] + 1, f[k + 1] - 1)]
  BY <1>4, PartsOf
<1>6. [k \in 1 .. two - 1 |-> SubSeq(s, f[k] + 1, f[k + 1] - 1)] = <<s>>
  <2>1. \A k : k \in 1 .. two - 1 <=> k = 1
    BY DEF two
  <2>2. f[1] + 1 = 1 /\ f[1 + 1] - 1 = Len(s)
    BY <1>1, <1>3
  <2>3. SubSeq(s, f[1] + 1, f[1 + 1] - 1) = s
    BY <1>1, <2>2
  <2>4. [k \in 1 .. two - 1 |-> SubSeq(s, f[k] + 1, f[k + 1] - 1)] = [k \in 1 .. 1 |-> s]
    BY <2>1, <2>3
  <2>5. [k \in 1 .. 1 |-> s] = <<s>>
    OBVIOUS
  <2> QED BY <2>4, <2>5
<1> QED BY <1>5, <1>6

(* The first part is what is before the first separator, and the others are *)
(* the parts of what is behind it.                                          *)
LEMMA EndsStep ==
  ASSUME NEW C, NEW s \in Seq(C), NEW sep, NEW c, FirstAt(s, sep, 0, c),
         NEW t, t = From(s, c), NEW x \in Int
  PROVE  x \in EndsOf(s, sep) <=> x = 0 \/ x - c \in EndsOf(t, sep)
<1>1. /\ Len(s) \in Nat /\ c \in 1 .. Len(s) /\ s[c] = sep
      /\ \A i \in 1 .. c - 1 : s[i] # sep
  BY LenProperties DEF FirstAt
<1>2. c \in 0 .. Len(s)
  BY <1>1
<1>3. Len(t) = Len(s) - c /\ \A i \in 1 .. Len(s) - c : t[i] = s[c + i]
  BY <1>2, FromIs
<1>4. ASSUME x \in 1 .. Len(s), s[x] = sep PROVE x - c \in EndsOf(t, sep)
  <2>1. x = c \/ c < x
    BY <1>1, <1>4
  <2>2. CASE x = c
    BY <1>1, <2>2 DEF EndsOf
  <2>3. CASE c < x
    <3>1. x - c \in 1 .. Len(t) /\ x - c \in 1 .. Len(s) - c /\ c + (x - c) = x
      BY <1>1, <1>3, <1>4, <2>3
    <3>2. t[x - c] = s[c + (x - c)]
      BY <1>3, <3>1
    <3>3. t[x - c] = sep
      BY <1>4, <3>1, <3>2
    <3> QED BY <3>1, <3>3 DEF EndsOf
  <2> QED BY <2>1, <2>2, <2>3
<1>5. ASSUME x - c \in 1 .. Len(t), t[x - c] = sep PROVE x \in 1 .. Len(s) /\ s[x] = sep
  <2>1. x - c \in 1 .. Len(s) - c /\ c + (x - c) = x /\ x \in 1 .. Len(s)
    BY <1>1, <1>3, <1>5
  <2>2. t[x - c] = s[c + (x - c)]
    BY <1>3, <2>1
  <2> QED BY <1>5, <2>1, <2>2
<1>6. /\ x = Len(s) + 1 <=> x - c = Len(t) + 1
      /\ x = c <=> x - c = 0
  BY <1>1, <1>3
<1>7. /\ x \in EndsOf(s, sep) <=> x = 0 \/ x = Len(s) + 1 \/ (x \in 1 .. Len(s) /\ s[x] = sep)
      /\ x - c \in EndsOf(t, sep) <=>
           x - c = 0 \/ x - c = Len(t) + 1 \/ (x - c \in 1 .. Len(t) /\ t[x - c] = sep)
  BY DEF EndsOf
<1> QED BY <1>1, <1>4, <1>5, <1>6, <1>7

LEMMA PartsStep ==
  ASSUME NEW C, NEW s \in Seq(C), NEW sep, NEW c, FirstAt(s, sep, 0, c),
         NEW t, t = From(s, c)
  PROVE  /\ Len(Reference!Parts(s, sep)) = Len(Reference!Parts(t, sep)) + 1
         /\ Reference!Parts(s, sep)[1] = Before(s, c - 1)
         /\ \A k \in 1 .. Len(Reference!Parts(t, sep)) :
              Reference!Parts(s, sep)[k + 1] = Reference!Parts(t, sep)[k]
<1>1. Len(s) \in Nat /\ c \in 1 .. Len(s)
  BY LenProperties DEF FirstAt
<1>2. c \in 0 .. Len(s)
  BY <1>1
<1>3. t \in Seq(C) /\ Len(t) = Len(s) - c
  BY <1>2, FromIs
<1>4. PICK f, n : /\ Ascends(f, n, EndsOf(t, sep)) /\ n >= 2 /\ f[1] = 0
                  /\ \A i \in 1 .. n : f[i] \in 0 .. Len(t) + 1
  BY <1>3, EndsAscend
<1>5. /\ n \in Nat /\ f \in [1 .. n -> Int]
      /\ \A i, j \in 1 .. n : i < j => f[i] < f[j]
      /\ \A x : x \in EndsOf(t, sep) <=> \E i \in 1 .. n : x = f[i]
  BY <1>4 DEF Ascends
<1> DEFINE m == n + 1
           g == [k \in 1 .. m |-> IF k = 1 THEN 0 ELSE c + f[k - 1]]
<1>6. m \in Nat /\ m = n + 1
  BY <1>5
<1>7. /\ g[1] = 0 /\ \A k \in 1 .. n : g[k + 1] = c + f[k]
      /\ g \in [1 .. m -> Int]
  <2>1. ASSUME NEW k \in 1 .. n PROVE k + 1 \in 1 .. m /\ k + 1 # 1 /\ (k + 1) - 1 = k
    BY <1>5, <1>6
  <2>2. ASSUME NEW k \in 1 .. m, k # 1 PROVE k - 1 \in 1 .. n
    BY <1>5, <1>6, <2>2
  <2>3. ASSUME NEW k \in 1 .. m PROVE (IF k = 1 THEN 0 ELSE c + f[k - 1]) \in Int
    <3>1. CASE k = 1
      BY <3>1
    <3>2. CASE k # 1
      BY <1>1, <1>5, <2>2, <3>2
    <3> QED BY <3>1, <3>2
  <2>4. 1 \in 1 .. m
    BY <1>4, <1>5, <1>6
  <2> HIDE DEF m
  <2> QED BY <2>1, <2>3, <2>4
<1> HIDE DEF m, g
<1>8. Ascends(g, m, EndsOf(s, sep))
  <2>1. ASSUME NEW k \in 1 .. m PROVE k = 1 \/ \E i \in 1 .. n : k = i + 1 /\ g[k] = c + f[i]
    <3>1. CASE k # 1
      <4>1. k - 1 \in 1 .. n /\ (k - 1) + 1 = k
        BY <1>5, <1>6, <3>1
      <4> QED BY <1>7, <4>1
    <3> QED BY <3>1
  <2>2. ASSUME NEW i \in 1 .. m, NEW j \in 1 .. m, i < j PROVE g[i] < g[j]
    <3>1. PICK b \in 1 .. n : j = b + 1 /\ g[j] = c + f[b]
      BY <2>1, <2>2
    <3>2. f[b] \in Nat
      BY <1>3, <1>4
    <3>3. CASE i = 1
      BY <1>1, <1>7, <3>1, <3>2, <3>3
    <3>4. CASE i # 1
      <4>1. PICK a \in 1 .. n : i = a + 1 /\ g[i] = c + f[a]
        BY <2>1, <3>4
      <4>2. a < b
        BY <2>2, <3>1, <4>1
      <4>3. f[a] < f[b] /\ f[a] \in Int /\ f[b] \in Int
        BY <1>5, <4>2
      <4> QED BY <1>1, <3>1, <4>1, <4>3
    <3> QED BY <3>3, <3>4
  <2>3. ASSUME NEW x \in EndsOf(s, sep) PROVE \E i \in 1 .. m : x = g[i]
    <3>1. x \in Int
      BY <1>1 DEF EndsOf
    <3>2. x = 0 \/ x - c \in EndsOf(t, sep)
      BY <3>1, EndsStep
    <3>3. CASE x = 0
      BY <1>5, <1>6, <1>7, <3>3
    <3>4. CASE x - c \in EndsOf(t, sep)
      <4>1. PICK i \in 1 .. n : x - c = f[i]
        BY <1>5, <3>4
      <4>2. x = c + f[i] /\ i + 1 \in 1 .. m
        BY <1>1, <1>5, <1>6, <3>1, <4>1
      <4> QED BY <1>7, <4>2
    <3> QED BY <3>2, <3>3, <3>4
  <2>4. ASSUME NEW i \in 1 .. m PROVE g[i] \in EndsOf(s, sep)
    <3>1. g[i] \in Int
      BY <1>7
    <3>2. CASE i = 1
      BY <1>7, <3>2 DEF EndsOf
    <3>3. CASE i # 1
      <4>1. PICK a \in 1 .. n : g[i] = c + f[a]
        BY <2>1, <3>3
      <4>2. g[i] - c = f[a]
        BY <1>1, <1>5, <4>1
      <4>3. g[i] - c \in EndsOf(t, sep)
        BY <1>5, <4>2
      <4> QED BY <3>1, <4>3, EndsStep
    <3> QED BY <3>2, <3>3
  <2> QED BY <1>6, <1>7, <2>2, <2>3, <2>4 DEF Ascends
<1> DEFINE P == Reference!Parts(s, sep)
           Q == Reference!Parts(t, sep)
<1>9. P = [k \in 1 .. m - 1 |-> SubSeq(s, g[k] + 1, g[k + 1] - 1)]
  BY <1>8, PartsOf
<1>10. Q = [k \in 1 .. n - 1 |-> SubSeq(t, f[k] + 1, f[k + 1] - 1)]
  BY <1>3, <1>4, PartsOf
<1> HIDE DEF P, Q
<1>11. m - 1 = n /\ n - 1 \in Nat
  BY <1>4, <1>5, <1>6
<1>12. Len(P) = n /\ Len(Q) = n - 1
  BY <1>5, <1>9, <1>10, <1>11
<1>13. P[1] = Before(s, c - 1)
  <2>1. 1 \in 1 .. m - 1 /\ 1 \in 1 .. n
    BY <1>4, <1>5, <1>11
  <2>2. g[1] = 0 /\ g[1 + 1] = c + f[1]
    BY <1>7, <2>1
  <2>3. g[1] + 1 = 1 /\ g[1 + 1] - 1 = c - 1
    BY <1>1, <1>4, <2>2
  <2>4. P[1] = SubSeq(s, g[1] + 1, g[1 + 1] - 1)
    BY <1>9, <2>1
  <2> QED BY <2>3, <2>4 DEF Before
<1>14. ASSUME NEW k \in 1 .. n - 1 PROVE P[k + 1] = Q[k]
  <2> DEFINE a == f[k] + 1
             b == f[k + 1] - 1
             lo == c + 1
             hi == Len(s)
             j == k + 1
  <2>1. k \in 1 .. n /\ k + 1 \in 1 .. n /\ k < k + 1 /\ j \in 1 .. m - 1
    BY <1>5, <1>11
  <2>2. f[k] < f[k + 1] /\ f[k] \in 0 .. Len(t) + 1 /\ f[k + 1] \in 0 .. Len(t) + 1
    BY <1>4, <1>5, <2>1
  <2>3. /\ a \in Nat \ {0} /\ b \in 0 .. Len(t) /\ a <= b + 1
        /\ lo \in Nat \ {0} /\ hi \in 0 .. Len(s) /\ lo <= hi + 1 /\ t = SubSeq(s, lo, hi)
    <3>1. a \in Nat \ {0} /\ b \in 0 .. Len(t) /\ a <= b + 1
      BY <1>1, <1>3, <2>2
    <3>2. lo \in Nat \ {0} /\ hi \in 0 .. Len(s) /\ lo <= hi + 1
      BY <1>1
    <3>3. t = SubSeq(s, lo, hi)
      BY DEF From
    <3> HIDE DEF a, b, lo, hi
    <3> QED BY <3>1, <3>2, <3>3
  <2>4. /\ g[j] + 1 = lo + a - 1 /\ g[j + 1] - 1 = lo + b - 1
    <3>1. g[k + 1] = c + f[k] /\ g[(k + 1) + 1] = c + f[k + 1]
      BY <1>7, <2>1
    <3> DEFINE y == f[k]  z == f[k + 1]
    <3>2. c \in Int /\ y \in Int /\ z \in Int
      BY <1>1, <1>3, <2>2
    <3>3. (c + y) + 1 = lo + a - 1 /\ (c + z) - 1 = lo + b - 1
      <4>1. a = y + 1 /\ b = z - 1 /\ lo = c + 1
        OBVIOUS
      <4> HIDE DEF a, b, lo, y, z
      <4> QED BY <3>2, <4>1
    <3> QED BY ONLY <3>1, <3>3 DEF j, y, z
  <2>5. P[j] = SubSeq(s, g[j] + 1, g[j + 1] - 1)
    <3> HIDE DEF j
    <3> QED BY <1>9, <2>1
  <2>6. Q[k] = SubSeq(t, a, b)
    BY <1>10
  <2> HIDE DEF a, b, lo, hi
  <2>7. SubSeq(t, a, b) = SubSeq(s, lo + a - 1, lo + b - 1)
    BY <2>3, SlicesNest
  <2> QED BY <2>4, <2>5, <2>6, <2>7
<1> QED BY <1>5, <1>12, <1>13, <1>14 DEF P, Q

(* Leaving out the empty parts. *)
Filled(P) == {k \in 1 .. Len(P) : P[k] # <<>>}

LEMMA NotEmptyOf ==
  ASSUME NEW X, NEW P \in Seq(X), NEW f, NEW n, Ascends(f, n, Filled(P))
  PROVE  /\ Reference!NotEmpty(P) = [k \in 1 .. n |-> P[f[k]]]
         /\ n \in Nat /\ Len(Reference!NotEmpty(P)) = n
<1> DEFINE D == {k \in DOMAIN P : P[k] # <<>>}
           e == Reference!InOrder(D)
<1>1. D = Filled(P)
  BY LenProperties DEF Filled
<1> HIDE DEF D
<1>2. e = f
  BY <1>1, InOrderIs
<1>3. n \in Nat /\ DOMAIN f = 1 .. n
  BY DEF Ascends
<1>4. Reference!NotEmpty(P) = [k \in DOMAIN e |-> P[e[k]]]
  BY DEF Reference!NotEmpty, D
<1> HIDE DEF e
<1>5. Reference!NotEmpty(P) = [k \in 1 .. n |-> P[f[k]]]
  BY <1>2, <1>3, <1>4
<1>6. Len([k \in 1 .. n |-> P[f[k]]]) = n
  BY <1>3
<1> QED BY <1>3, <1>5, <1>6

LEMMA FilledAscend ==
  ASSUME NEW X, NEW P \in Seq(X)
  PROVE  \E f, n : Ascends(f, n, Filled(P))
<1> DEFINE D == Filled(P)
           low == 1
           high == Len(P)
<1>1. D \in SUBSET Int /\ low \in Int /\ high \in Nat /\ \A x \in D : low <= x /\ x < low + high
  BY LenProperties DEF Filled
<1> HIDE DEF D, low, high
<1> QED BY <1>1, AscendExists DEF D

LEMMA NotEmptyType ==
  ASSUME NEW X, NEW P \in Seq(X)
  PROVE  /\ Reference!NotEmpty(P) \in Seq(X)
         /\ \A k \in 1 .. Len(Reference!NotEmpty(P)) : Reference!NotEmpty(P)[k] # <<>>
<1>1. PICK f, n : Ascends(f, n, Filled(P))
  BY FilledAscend
<1>2. n \in Nat /\ \A k \in 1 .. n : f[k] \in Filled(P)
  BY <1>1 DEF Ascends
<1>3. /\ Reference!NotEmpty(P) = [k \in 1 .. n |-> P[f[k]]]
      /\ Len(Reference!NotEmpty(P)) = n
  BY <1>1, NotEmptyOf
<1>4. \A k \in 1 .. n : f[k] \in 1 .. Len(P) /\ P[f[k]] # <<>> /\ P[f[k]] \in X
  BY <1>2, ElementOfSeq DEF Filled
<1>5. [k \in 1 .. n |-> P[f[k]]] \in [1 .. n -> X]
  BY <1>4
<1>6. \A k \in 1 .. n : [i \in 1 .. n |-> P[f[i]]][k] # <<>>
  BY <1>4
<1> QED BY <1>2, <1>3, <1>5, <1>6

LEMMA NotEmptyNone ==
  ASSUME NEW X, NEW P \in Seq(X), \A k \in 1 .. Len(P) : P[k] = <<>>
  PROVE  Reference!NotEmpty(P) = <<>>
<1>1. PICK f, n : Ascends(f, n, Filled(P))
  BY FilledAscend
<1>2. n \in Nat /\ Filled(P) = {} /\ \A k \in 1 .. n : f[k] \in Filled(P)
  BY <1>1 DEF Ascends, Filled
<1>3. n = 0
  BY <1>2
<1>4. Reference!NotEmpty(P) \in Seq(X) /\ Len(Reference!NotEmpty(P)) = 0
  BY <1>1, <1>3, NotEmptyOf, NotEmptyType
<1> QED BY <1>4, EmptySeq

(* Of P and what is behind its first element. *)
Follows(P, Q) == Len(P) = Len(Q) + 1 /\ \A k \in 1 .. Len(Q) : P[k + 1] = Q[k]

LEMMA FilledStep ==
  ASSUME NEW X, NEW P \in Seq(X), NEW Q \in Seq(X), Follows(P, Q), NEW x \in Int
  PROVE  x \in Filled(P) <=> (x = 1 /\ P[1] # <<>>) \/ x - 1 \in Filled(Q)
<1>1. Len(P) \in Nat /\ Len(Q) \in Nat /\ Len(P) = Len(Q) + 1
      /\ \A k \in 1 .. Len(Q) : P[k + 1] = Q[k]
  BY LenProperties DEF Follows
<1>2. CASE x - 1 \in 1 .. Len(Q)
  <2>1. P[(x - 1) + 1] = Q[x - 1] /\ (x - 1) + 1 = x
    BY <1>1, <1>2
  <2>2. x \in 1 .. Len(P) /\ x # 1
    BY <1>1, <1>2
  <2> QED BY <1>2, <2>1, <2>2 DEF Filled
<1>3. CASE x - 1 \notin 1 .. Len(Q)
  <2>1. x \in 1 .. Len(P) <=> x = 1
    BY <1>1, <1>3
  <2> QED BY <1>3, <2>1 DEF Filled
<1> QED BY <1>2, <1>3

LEMMA NotEmptySkip ==
  ASSUME NEW X, NEW P \in Seq(X), NEW Q \in Seq(X), Follows(P, Q), P[1] = <<>>
  PROVE  Reference!NotEmpty(P) = Reference!NotEmpty(Q)
<1>1. PICK f, n : Ascends(f, n, Filled(Q))
  BY FilledAscend
<1>2. /\ n \in Nat /\ f \in [1 .. n -> Int]
      /\ \A i, j \in 1 .. n : i < j => f[i] < f[j]
      /\ \A x : x \in Filled(Q) <=> \E i \in 1 .. n : x = f[i]
  BY <1>1 DEF Ascends
<1> DEFINE g == [k \in 1 .. n |-> f[k] + 1]
<1>3. /\ g \in [1 .. n -> Int]
      /\ \A k \in 1 .. n : g[k] = f[k] + 1 /\ g[k] - 1 = f[k] /\ f[k] \in Int
  BY <1>2
<1> HIDE DEF g
<1>4. Ascends(g, n, Filled(P))
  <2>1. \A i, j \in 1 .. n : i < j => g[i] < g[j]
    BY <1>2, <1>3
  <2>2. ASSUME NEW x \in Filled(P) PROVE \E i \in 1 .. n : x = g[i]
    <3>1. x \in Int
      BY DEF Filled
    <3>2. x - 1 \in Filled(Q)
      BY <3>1, FilledStep
    <3>3. PICK i \in 1 .. n : x - 1 = f[i]
      BY <1>2, <3>2
    <3>4. x = g[i]
      BY <1>3, <3>1, <3>3
    <3> QED BY <3>4
  <2>3. ASSUME NEW i \in 1 .. n PROVE g[i] \in Filled(P)
    <3>1. g[i] \in Int /\ g[i] - 1 \in Filled(Q)
      BY <1>2, <1>3
    <3> QED BY <3>1, FilledStep
  <2> QED BY <1>2, <1>3, <2>1, <2>2, <2>3 DEF Ascends
<1>5. Reference!NotEmpty(P) = [k \in 1 .. n |-> P[g[k]]]
  BY <1>4, NotEmptyOf
<1>6. Reference!NotEmpty(Q) = [k \in 1 .. n |-> Q[f[k]]]
  BY <1>1, NotEmptyOf
<1>7. ASSUME NEW k \in 1 .. n PROVE P[g[k]] = Q[f[k]]
  <2>1. f[k] \in 1 .. Len(Q)
    BY <1>2 DEF Filled
  <2> QED BY <1>3, <2>1 DEF Follows
<1> QED BY <1>5, <1>6, <1>7

LEMMA NotEmptyKeep ==
  ASSUME NEW X, NEW P \in Seq(X), NEW Q \in Seq(X), Follows(P, Q), P[1] # <<>>
  PROVE  /\ Follows(Reference!NotEmpty(P), Reference!NotEmpty(Q))
         /\ Reference!NotEmpty(P)[1] = P[1]
<1>1. PICK f, n : Ascends(f, n, Filled(Q))
  BY FilledAscend
<1>2. /\ n \in Nat /\ f \in [1 .. n -> Int]
      /\ \A i, j \in 1 .. n : i < j => f[i] < f[j]
      /\ \A x : x \in Filled(Q) <=> \E i \in 1 .. n : x = f[i]
  BY <1>1 DEF Ascends
<1> DEFINE m == n + 1
           g == [k \in 1 .. m |-> IF k = 1 THEN 1 ELSE f[k - 1] + 1]
<1>3. m \in Nat /\ m = n + 1 /\ 1 \in 1 .. m
  BY <1>2
<1>4. /\ g \in [1 .. m -> Int] /\ g[1] = 1
      /\ \A k \in 1 .. n : k + 1 \in 1 .. m /\ f[k] \in Int
                           /\ g[k + 1] = f[k] + 1 /\ g[k + 1] - 1 = f[k]
  <2>1. ASSUME NEW k \in 1 .. n PROVE k + 1 \in 1 .. m /\ k + 1 # 1 /\ (k + 1) - 1 = k
    BY <1>2, <1>3
  <2>2. ASSUME NEW k \in 1 .. m PROVE (IF k = 1 THEN 1 ELSE f[k - 1] + 1) \in Int
    <3>1. CASE k = 1
      BY <3>1
    <3>2. CASE k # 1
      <4>1. k - 1 \in 1 .. n
        BY <1>2, <1>3, <3>2
      <4> QED BY <1>2, <3>2, <4>1
    <3> QED BY <3>1, <3>2
  <2>3. \A k \in 1 .. n : f[k] \in Int
    BY <1>2
  <2> HIDE DEF m
  <2> QED BY <1>3, <2>1, <2>2, <2>3
<1> HIDE DEF m, g
<1>5. ASSUME NEW k \in 1 .. m PROVE k = 1 \/ \E i \in 1 .. n : k = i + 1
  <2>1. CASE k # 1
    <3>1. k - 1 \in 1 .. n /\ k = (k - 1) + 1
      BY <1>2, <1>3, <2>1
    <3> QED BY <3>1
  <2> QED BY <2>1
<1>6. Ascends(g, m, Filled(P))
  <2>1. ASSUME NEW i \in 1 .. m, NEW j \in 1 .. m, i < j PROVE g[i] < g[j]
    <3>1. PICK b \in 1 .. n : j = b + 1
      BY <1>5, <2>1
    <3>2. g[j] = f[b] + 1 /\ f[b] \in Int /\ f[b] >= 1
      BY <1>2, <1>4, <3>1 DEF Filled
    <3>3. CASE i = 1
      BY <1>4, <3>2, <3>3
    <3>4. CASE i # 1
      <4>1. PICK a \in 1 .. n : i = a + 1
        BY <1>5, <3>4
      <4>2. a < b
        BY <2>1, <3>1, <4>1
      <4>3. f[a] < f[b] /\ f[a] \in Int /\ g[i] = f[a] + 1
        BY <1>2, <1>4, <4>1, <4>2
      <4> QED BY <3>2, <4>3
    <3> QED BY <3>3, <3>4
  <2>2. ASSUME NEW x \in Filled(P) PROVE \E i \in 1 .. m : x = g[i]
    <3>1. x \in Int
      BY DEF Filled
    <3>2. x = 1 \/ x - 1 \in Filled(Q)
      BY <3>1, FilledStep
    <3>3. CASE x = 1
      BY <1>3, <1>4, <3>3
    <3>4. CASE x - 1 \in Filled(Q)
      <4>1. PICK i \in 1 .. n : x - 1 = f[i]
        BY <1>2, <3>4
      <4>2. i + 1 \in 1 .. m /\ x = g[i + 1]
        BY <1>4, <3>1, <4>1
      <4> QED BY <4>2
    <3> QED BY <3>2, <3>3, <3>4
  <2>3. ASSUME NEW i \in 1 .. m PROVE g[i] \in Filled(P)
    <3>1. g[i] \in Int
      BY <1>4
    <3>2. (g[i] = 1 /\ P[1] # <<>>) \/ g[i] - 1 \in Filled(Q)
      <4>1. CASE i = 1
        BY <1>4, <4>1
      <4>2. CASE i # 1
        <5>1. PICK a \in 1 .. n : i = a + 1
          BY <1>5, <4>2
        <5> QED BY <1>2, <1>4, <5>1
      <4> QED BY <4>1, <4>2
    <3> QED BY <3>1, <3>2, FilledStep
  <2> QED BY <1>3, <1>4, <2>1, <2>2, <2>3 DEF Ascends
<1> DEFINE A == Reference!NotEmpty(P)
           B == Reference!NotEmpty(Q)
<1>7. A = [k \in 1 .. m |-> P[g[k]]] /\ Len(A) = m
  BY <1>6, NotEmptyOf
<1>8. B = [k \in 1 .. n |-> Q[f[k]]] /\ Len(B) = n
  BY <1>1, NotEmptyOf
<1> HIDE DEF A, B
<1>9. A[1] = P[1]
  BY <1>3, <1>4, <1>7
<1>10. ASSUME NEW k \in 1 .. n PROVE A[k + 1] = B[k]
  <2>1. f[k] \in 1 .. Len(Q)
    BY <1>2 DEF Filled
  <2>2. P[f[k] + 1] = Q[f[k]]
    BY <2>1 DEF Follows
  <2>3. A[k + 1] = P[g[k + 1]] /\ g[k + 1] = f[k] + 1
    BY <1>4, <1>7
  <2> QED BY <1>8, <2>2, <2>3
<1> QED BY <1>3, <1>7, <1>8, <1>9, <1>10 DEF Follows, A, B

(* Separators in front add only empty parts. *)
LEMMA PartsBehind ==
  ASSUME NEW C, NEW s \in Seq(C), NEW sep, NEW c, FirstAt(s, sep, 0, c),
         NEW t, t = From(s, c)
  PROVE  /\ Follows(Reference!Parts(s, sep), Reference!Parts(t, sep))
         /\ Reference!Parts(s, sep)[1] = Before(s, c - 1)
         /\ Reference!Parts(s, sep) \in Seq(Seq(C)) /\ Reference!Parts(t, sep) \in Seq(Seq(C))
<1>1. c \in 0 .. Len(s)
  BY LenProperties DEF FirstAt
<1>2. t \in Seq(C)
  BY <1>1, FromIs
<1> QED BY <1>2, PartsStep, PartsType DEF Follows

LEMMA PartsSkip ==
  ASSUME NEW C, NEW s \in Seq(C), NEW sep, NEW n \in 0 .. Len(s), \A i \in 1 .. n : s[i] = sep
  PROVE  Reference!NotEmpty(Reference!Parts(From(s, n), sep)) =
           Reference!NotEmpty(Reference!Parts(s, sep))
<1> DEFINE G == {k \in Nat : k <= n =>
                   Reference!NotEmpty(Reference!Parts(From(s, k), sep)) =
                     Reference!NotEmpty(Reference!Parts(s, sep))}
<1>1. Len(s) \in Nat /\ n \in Nat /\ n <= Len(s)
  BY LenProperties
<1>2. 0 \in G
  <2>1. From(s, 0) = s
    BY SubSeqFull DEF From
  <2> QED BY <2>1
<1>3. ASSUME NEW k \in Nat, k \in G PROVE k + 1 \in G
  <2> DEFINE t == From(s, k)
             j == k + 1
             u == From(s, j)
             one == 1
  <2>1. CASE j <= n
    <3>1. k \in 0 .. Len(s) /\ j \in 0 .. Len(s) /\ 1 \in 1 .. Len(s) - k /\ j \in 1 .. n
          /\ j = k + 1 /\ k <= n
      BY <1>1, <2>1
    <3> HIDE DEF j
    <3>2. /\ t \in Seq(C) /\ Len(t) = Len(s) - k
          /\ \A i \in 1 .. Len(s) - k : t[i] = s[k + i]
      BY <3>1, FromIs
    <3>3. t[1] = sep /\ 1 \in 1 .. Len(t)
      BY <3>1, <3>2
    <3>4. FirstAt(t, sep, 0, one)
      <4> HIDE DEF t
      <4> QED BY <3>3 DEF FirstAt
    <3>5. u = From(t, one)
      <4> DEFINE lo == k + 1
                 hi == Len(s)
                 fst == 2
                 lst == Len(t)
      <4>1. /\ lo \in Nat \ {0} /\ hi \in 0 .. Len(s) /\ lo <= hi + 1 /\ t = SubSeq(s, lo, hi)
            /\ fst \in Nat \ {0} /\ lst \in 0 .. Len(t) /\ fst <= lst + 1
        BY <1>1, <3>1, <3>2, <3>3 DEF From
      <4>2. lo + fst - 1 = j + 1 /\ lo + lst - 1 = Len(s)
        BY <1>1, <3>1, <3>2
      <4>3. From(t, one) = SubSeq(t, fst, lst) /\ u = SubSeq(s, j + 1, Len(s))
        BY DEF From
      <4> HIDE DEF lo, hi, fst, lst, t, u
      <4>4. SubSeq(t, fst, lst) = SubSeq(s, lo + fst - 1, lo + lst - 1)
        BY <4>1, SlicesNest
      <4> QED BY <4>2, <4>3, <4>4
    <3>6. Before(t, one - 1) = <<>>
      <4> DEFINE z == 0
      <4>1. z \in 0 .. Len(t) /\ one - 1 = z /\ z = 0
        BY <3>3
      <4> HIDE DEF z, one, t
      <4>2. Before(t, z) \in Seq(C) /\ Len(Before(t, z)) = z
        BY <3>2, <4>1, BeforeIs
      <4> QED BY <4>1, <4>2, EmptySeq
    <3> HIDE DEF t, u, one
    <3>7. /\ Follows(Reference!Parts(t, sep), Reference!Parts(u, sep))
          /\ Reference!Parts(t, sep)[1] = <<>>
          /\ Reference!Parts(t, sep) \in Seq(Seq(C)) /\ Reference!Parts(u, sep) \in Seq(Seq(C))
      BY <3>2, <3>4, <3>5, <3>6, PartsBehind
    <3>8. Reference!NotEmpty(Reference!Parts(t, sep)) = Reference!NotEmpty(Reference!Parts(u, sep))
      BY <3>7, NotEmptySkip
    <3> QED BY <1>3, <3>1, <3>8 DEF t, u
  <2>2. CASE ~(j <= n)
    BY <2>2
  <2> QED BY <2>1, <2>2
<1> HIDE DEF G
<1>4. \A k \in Nat : k \in G
  BY <1>2, <1>3, NatInd
<1> QED BY <1>1, <1>4 DEF G

-----------------------------------------------------------------------------
(* Signs. *)

(* A '-' behind something that is no blank makes a text no number.          *)
LEMMA MinusBehind ==
  ASSUME NEW C, NEW r \in Seq(C), Invalid \notin Seq(C), NEW j \in 1 .. Len(r), r[j] = Minus,
         NEW i \in 1 .. j - 1, r[i] \notin Spaces
  PROVE  Reference!Numbers(r) = {}
<1>1. Minus \notin Spaces /\ Minus \notin DOMAIN Digit
  BY CharactersAssumption
<1>2. ASSUME NEW x \in Reference!Numbers(r) PROVE FALSE
  <2>1. PICK b, g, n : /\ NumberAt(r, b, g, n)
                       /\ \A a \in n + 1 .. Len(r) : r[a] \in Spaces
    BY NumbersAre
  <2>2. /\ b \in Nat /\ g \in {0, 1} /\ n \in Nat /\ Len(r) \in Nat
        /\ \A a \in 1 .. b : r[a] \in Spaces
        /\ \A a \in b + g + 1 .. n : r[a] \in DOMAIN Digit
    BY <2>1, LenProperties DEF NumberAt
  <2>3. b < i
    BY <2>2
  <2>4. j \in b + g + 1 .. n \/ j \in n + 1 .. Len(r)
    BY <2>2, <2>3
  <2> QED BY <1>1, <2>1, <2>2, <2>4
<1> QED BY <1>2

(* A number with a '-' is not positive, and one without it not negative.    *)
LEMMA SignOfNumber ==
  ASSUME NEW C, NEW r \in Seq(C), Invalid \notin Seq(C), NEW x \in Reference!Numbers(r)
  PROVE  /\ (\E j \in 1 .. Len(r) : r[j] = Minus) => x <= 0
         /\ (\A j \in 1 .. Len(r) : r[j] # Minus) => x >= 0
<1>1. Minus \notin Spaces /\ Minus \notin DOMAIN Digit
  BY CharactersAssumption
<1>2. PICK b, g, n : /\ NumberAt(r, b, g, n) /\ x = AmountAt(r, b, g, n)
                     /\ \A a \in n + 1 .. Len(r) : r[a] \in Spaces
  BY NumbersAre
<1> DEFINE m == b + g + 1
           d == SubSeq(r, m, n)
<1>3. /\ b \in Nat /\ g \in {0, 1} /\ n \in Nat /\ b + g < n /\ n <= Len(r) /\ Len(r) \in Nat
      /\ \A a \in 1 .. b : r[a] \in Spaces
      /\ \A a \in m .. n : r[a] \in DOMAIN Digit
  BY <1>2, LenProperties DEF NumberAt
<1>4. d \in Seq(DOMAIN Digit)
  <2>1. m \in Int /\ n \in Int
    BY <1>3
  <2> HIDE DEF m
  <2> QED BY <1>3, <2>1, SubSeqProperties
<1> HIDE DEF d
<1>5. Horner(d) \in Nat
  BY <1>4, HornerIs
<1>6. x = IF r[b + 1] = Minus THEN -Horner(d) ELSE Horner(d)
  BY <1>2 DEF AmountAt, d
<1>7. ASSUME NEW j \in 1 .. Len(r), r[j] = Minus PROVE x <= 0
  <2>1. j \notin 1 .. b /\ j \notin m .. n /\ j \notin n + 1 .. Len(r)
    BY <1>1, <1>2, <1>3, <1>7
  <2>2. j = b + 1
    BY <1>3, <2>1
  <2> QED BY <1>5, <1>6, <1>7, <2>2
<1>8. ASSUME \A j \in 1 .. Len(r) : r[j] # Minus PROVE x >= 0
  <2>1. b + 1 \in 1 .. Len(r)
    BY <1>3
  <2>2. r[b + 1] # Minus
    BY <1>8, <2>1
  <2> QED BY <1>5, <1>6, <2>2
<1> QED BY <1>7, <1>8

(* What cannot stand in a number cannot stand on either side of a mark.     *)
LEMMA OnOneSide ==
  ASSUME NEW C, NEW r \in Seq(C), Invalid \notin Seq(C), NEW j \in 1 .. Len(r),
         r[j] \notin Spaces \cup DOMAIN Digit \cup {Minus, Plus},
         NEW k \in 1 .. Len(r), j # k
  PROVE  \/ Reference!Numbers(SubSeq(r, 1, k - 1)) = {}
         \/ Reference!Numbers(SubSeq(r, k + 1, Len(r))) = {}
<1>1. Len(r) \in Nat
  BY LenProperties
<1>2. CASE j < k
  <2> DEFINE u == SubSeq(r, 1, k - 1)
  <2>1. u \in Seq(C) /\ Len(u) = k - 1 /\ \A i \in 1 .. k - 1 : u[i] = r[i]
    BY UpToIs
  <2>2. j \in 1 .. k - 1
    BY <1>2
  <2> HIDE DEF u
  <2>3. Reference!Numbers(u) = {}
    BY <2>1, <2>2, NumberWritten
  <2> QED BY <2>3 DEF u
<1>3. CASE k < j
  <2> DEFINE u == SubSeq(r, k + 1, Len(r))
             i == j - k
  <2>1. u \in Seq(C) /\ Len(u) = Len(r) - k /\ \A a \in 1 .. Len(r) - k : u[a] = r[k + a]
    BY BehindIs
  <2>2. i \in 1 .. Len(r) - k /\ k + i = j
    BY <1>1, <1>3
  <2> HIDE DEF u, i
  <2>3. u[i] = r[j] /\ i \in 1 .. Len(u)
    BY <2>1, <2>2
  <2>4. Reference!Numbers(u) = {}
    BY <2>1, <2>3, NumberWritten
  <2> QED BY <2>4 DEF u
<1> QED BY <1>2, <1>3
=============================================================================
