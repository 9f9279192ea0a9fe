------------------------------ MODULE Arithmetic ------------------------------
(***************************************************************************)
(* Lemmas about numbers that the proofs of other modules need: division     *)
(* with remainder, induction, the sum of a function over a finite set       *)
(* (SumFunctionOnSet of the community modules), which does not depend on    *)
(* the order of its summands, least and greatest elements, and functions    *)
(* defined by recursion, the powers of ten among them.                      *)
(*                                                                         *)
(* The sum is defined by recursion over sets.  The induction and recursion  *)
(* theorems of the library take operators as parameters; here induction is  *)
(* over a set of numbers, and the recursive function is constructed.        *)
(***************************************************************************)
EXTENDS PowersOfTen, Integers, FiniteSetsExt, TLAPS, FiniteSetTheorems

(* A number below the modulus is its own remainder.                         *)
LEMMA SmallRemainder ==
  ASSUME NEW x \in Nat, NEW w \in Nat \ {0}, x < w
  PROVE  x % w = x
OBVIOUS

(* A smaller factor gives a product smaller by one multiplicand at least.   *)
LEMMA ProductOrder ==
  ASSUME NEW a \in Int, NEW b \in Int, NEW k \in Nat \ {0}, a < b
  PROVE  a * k + k <= b * k
OBVIOUS

(* What \div and % are. *)
LEMMA DivisionLaw ==
  ASSUME NEW x \in Int, NEW k \in Nat \ {0}
  PROVE  /\ x \div k \in Int /\ x % k \in 0 .. k - 1
         /\ x = (x \div k) * k + (x % k)
OBVIOUS

(* Division with remainder has one result. *)
LEMMA QuotientUnique ==
  ASSUME NEW q \in Int, NEW r \in Int, NEW p \in Int, NEW s \in Int, NEW k \in Nat \ {0},
         q * k + r = p * k + s, 0 <= r, r < k, 0 <= s, s < k
  PROVE  q = p
<1>1. CASE q < p
  BY <1>1, ProductOrder
<1>2. CASE p < q
  BY <1>2, ProductOrder
<1> QED BY <1>1, <1>2

(* Numbers that differ by a multiple of the divisor leave the same rest. *)
LEMMA SameRemainder ==
  ASSUME NEW x \in Int, NEW y \in Int, NEW j \in Int, NEW w \in Nat \ {0},
         x = y + j * w
  PROVE  x % w = y % w
<1> DEFINE d == x \div w  m == x % w  e == y \div w  n == y % w
<1>1. d \in Int /\ m \in 0 .. w - 1 /\ x = d * w + m
  BY DivisionLaw
<1>2. e \in Int /\ n \in 0 .. w - 1 /\ y = e * w + n
  BY DivisionLaw
<1> HIDE DEF d, m, e, n
<1>3. (e + j) * w + n = d * w + m
  BY <1>1, <1>2
<1>4. e + j = d
  BY <1>1, <1>2, <1>3, QuotientUnique
<1>5. m = n
  <2>1. d * w \in Int /\ m \in Int /\ n \in Int
    BY <1>1, <1>2
  <2>2. d * w + n = d * w + m
    BY <1>3, <1>4
  <2> QED BY <2>1, <2>2
<1> QED BY <1>5 DEF m, n

(* A multiple of the divisor leaves nothing. *)
LEMMA MultipleRemainder ==
  ASSUME NEW j \in Int, NEW w \in Nat \ {0}
  PROVE  (j * w) % w = 0
<1> DEFINE x == j * w  d == x \div w  m == x % w
<1>1. x \in Int
  OBVIOUS
<1>2. d \in Int /\ m \in 0 .. w - 1 /\ x = d * w + m
  BY <1>1, DivisionLaw
<1> HIDE DEF d, m
<1>3. j * w + 0 = d * w + m
  BY <1>1, <1>2
<1>4. j = d
  BY <1>2, <1>3, QuotientUnique
<1>5. m = 0
  BY <1>1, <1>2, <1>4
<1> QED BY <1>5 DEF m

(* A multiple of the divisor comes out of the quotient. *)
LEMMA DivShift ==
  ASSUME NEW a \in Int, NEW b \in Int, NEW k \in Nat \ {0}
  PROVE  (a * k + b) \div k = a + b \div k
<1> DEFINE x == a * k + b  d == x \div k  m == x % k  e == b \div k  n == b % k
<1>1. x \in Int
  OBVIOUS
<1>2. d \in Int /\ m \in 0 .. k - 1 /\ x = d * k + m
  BY <1>1, DivisionLaw
<1>3. e \in Int /\ n \in 0 .. k - 1 /\ b = e * k + n
  BY DivisionLaw
<1>4. x = a * k + b
  OBVIOUS
<1> HIDE DEF x, d, m, e, n
<1>5. (a + e) * k + n = d * k + m
  BY <1>2, <1>3, <1>4
<1>6. a + e = d
  BY <1>2, <1>3, <1>5, QuotientUnique
<1> QED BY <1>6 DEF d, e, x

-----------------------------------------------------------------------------
(* Induction, over a set of numbers. *)
LEMMA NatInd ==
  ASSUME NEW G, 0 \in G, \A n \in Nat : n \in G => n + 1 \in G
  PROVE  \A n \in Nat : n \in G
<1> DEFINE B == Nat \ G
<1> SUFFICES ASSUME B # {} PROVE FALSE
  OBVIOUS
<1>1. B \subseteq Nat
  OBVIOUS
<1> HIDE DEF B
<1>2. PICK m \in B : \A n \in B : ~(<<n, m>> \in OpToRel(<, Nat))
  BY <1>1, NatLessThanWellFounded, WFMin
<1>3. m \in Nat /\ m # 0 /\ m - 1 \in Nat /\ m - 1 < m
  <2>1. m \in Nat /\ m \notin G
    BY DEF B
  <2> QED BY <2>1
<1>4. m - 1 \notin B
  BY <1>2, <1>3 DEF OpToRel
<1>5. m - 1 \in G /\ m = (m - 1) + 1
  BY <1>3, <1>4 DEF B
<1>6. m \in G
  BY <1>3, <1>5
<1> QED BY <1>2, <1>6 DEF B

-----------------------------------------------------------------------------
(* The definition of SumFunctionOnSet, taken apart. *)

Pick(s) == CHOOSE x \in s : TRUE

Unrolled(f, S, g) ==
  [s \in SUBSET S |-> IF s = {} THEN 0 ELSE f[Pick(s)] + g[s \ {Pick(s)}]]

Partial(f, S) == CHOOSE g : g = Unrolled(f, S, g)

(* g gives the partial sums of f over the subsets of S. *)
SumsUp(f, S, g) ==
  \A s \in SUBSET S : g[s] = IF s = {} THEN 0 ELSE f[Pick(s)] + g[s \ {Pick(s)}]

LEMMA SumIs ==
  ASSUME NEW S, NEW f
  PROVE SumFunctionOnSet(f, S) = Partial(f, S)[S]
BY DEF SumFunctionOnSet, FoldFunctionOnSet, MapThenFoldSet, Partial, Unrolled, Pick

LEMMA PartialFix ==
  ASSUME NEW S, NEW f, NEW h, h = Unrolled(f, S, h)
  PROVE  Partial(f, S) = Unrolled(f, S, Partial(f, S))
BY DEF Partial

LEMMA Picked == ASSUME NEW s, s # {} PROVE Pick(s) \in s
BY DEF Pick

(* A set without the picked element is smaller. *)
LEMMA Smaller ==
  ASSUME NEW S, IsFiniteSet(S), NEW s \in SUBSET S
  PROVE  /\ IsFiniteSet(s) /\ Cardinality(s) \in Nat
         /\ Cardinality(s) <= Cardinality(S)
         /\ s = {} <=> Cardinality(s) = 0
         /\ \A x \in s : /\ s \ {x} \in SUBSET S
                         /\ Cardinality(s \ {x}) = Cardinality(s) - 1
<1>1. IsFiniteSet(s) /\ Cardinality(s) \in Nat /\ Cardinality(s) <= Cardinality(S)
  BY FS_Subset, FS_CardinalityType
<1>2. s = {} <=> Cardinality(s) = 0
  BY <1>1, FS_EmptySet
<1>3. ASSUME NEW x \in s
      PROVE s \ {x} \in SUBSET S /\ Cardinality(s \ {x}) = Cardinality(s) - 1
  BY <1>1, FS_RemoveElement
<1> QED BY <1>1, <1>2, <1>3

LEMMA SumsExist ==
  ASSUME NEW S, IsFiniteSet(S), NEW f, \A x \in S : f[x] \in Int
  PROVE  \E g \in [SUBSET S -> Int] : SumsUp(f, S, g)
<1> DEFINE Upto(n, g) ==
             \A s \in SUBSET S : Cardinality(s) <= n =>
               g[s] = IF s = {} THEN 0 ELSE f[Pick(s)] + g[s \ {Pick(s)}]
           G == {n \in Nat : \E g \in [SUBSET S -> Int] : Upto(n, g)}
<1>1. 0 \in G
  <2> DEFINE g == [s \in SUBSET S |-> 0]
  <2>1. Upto(0, g)
    BY Smaller
  <2>2. g \in [SUBSET S -> Int]
    OBVIOUS
  <2> HIDE DEF g, Upto
  <2>3. \E e \in [SUBSET S -> Int] : Upto(0, e)
    BY <2>1, <2>2
  <2> QED BY <2>3
<1>2. ASSUME NEW n \in Nat, n \in G PROVE n + 1 \in G
  <2>1. PICK g \in [SUBSET S -> Int] : Upto(n, g)
    BY <1>2
  <2> DEFINE next(s) == f[Pick(s)] + g[s \ {Pick(s)}]
             h == [s \in SUBSET S |-> IF Cardinality(s) <= n THEN g[s] ELSE next(s)]
  <2>2. ASSUME NEW s \in SUBSET S, s # {}
        PROVE  /\ Pick(s) \in S /\ s \ {Pick(s)} \in SUBSET S
               /\ Cardinality(s \ {Pick(s)}) = Cardinality(s) - 1
               /\ Cardinality(s) \in Nat
               /\ next(s) \in Int
    <3>1. Pick(s) \in s
      BY <2>2, Picked
    <3>2. /\ Pick(s) \in S /\ s \ {Pick(s)} \in SUBSET S
          /\ Cardinality(s \ {Pick(s)}) = Cardinality(s) - 1
          /\ Cardinality(s) \in Nat
      BY <3>1, Smaller
    <3> QED BY <2>1, <3>2
  <2>3. ASSUME NEW s \in SUBSET S, Cardinality(s) > n PROVE s # {}
    BY <2>3, Smaller
  <2>4. h \in [SUBSET S -> Int]
    <3>1. ASSUME NEW s \in SUBSET S
          PROVE  (IF Cardinality(s) <= n THEN g[s] ELSE next(s)) \in Int
      <4>1. Cardinality(s) \in Nat
        BY Smaller
      <4>2. CASE Cardinality(s) <= n
        BY <2>1, <4>2
      <4>3. CASE ~(Cardinality(s) <= n)
        <5>1. next(s) \in Int
          BY <2>2, <2>3, <4>1, <4>3
        <5> HIDE DEF next
        <5> QED BY <4>3, <5>1
      <4> QED BY <4>2, <4>3
    <3> QED BY <3>1
  <2>5. ASSUME NEW s \in SUBSET S, Cardinality(s) <= n + 1
        PROVE  h[s] = IF s = {} THEN 0 ELSE f[Pick(s)] + h[s \ {Pick(s)}]
    <3>1. CASE s = {}
      <4>1. Cardinality(s) <= n
        BY <3>1, Smaller
      <4> QED BY <2>1, <3>1, <4>1
    <3>2. CASE s # {}
      <4>1. /\ s \ {Pick(s)} \in SUBSET S /\ Cardinality(s) \in Nat
            /\ Cardinality(s \ {Pick(s)}) <= n
        BY <2>2, <2>5, <3>2
      <4>2. h[s \ {Pick(s)}] = g[s \ {Pick(s)}]
        BY <4>1
      <4>3. h[s] = f[Pick(s)] + g[s \ {Pick(s)}]
        BY <2>1, <3>2, <4>1
      <4> QED BY <3>2, <4>2, <4>3
    <3> QED BY <3>1, <3>2
  <2> HIDE DEF h, next
  <2>6. Upto(n + 1, h)
    BY <2>5
  <2> HIDE DEF Upto
  <2>7. \E e \in [SUBSET S -> Int] : Upto(n + 1, e)
    BY <2>4, <2>6
  <2> QED BY <2>7
<1>3. Cardinality(S) \in Nat
  BY FS_CardinalityType
<1>4. Cardinality(S) \in G
  <2> HIDE DEF G
  <2> QED BY <1>1, <1>2, <1>3, NatInd
<1>5. PICK g \in [SUBSET S -> Int] : Upto(Cardinality(S), g)
  BY <1>4
<1>6. SumsUp(f, S, g)
  BY <1>5, Smaller DEF SumsUp
<1> QED BY <1>6

LEMMA PartialSums ==
  ASSUME NEW S, IsFiniteSet(S), NEW f, \A x \in S : f[x] \in Int
  PROVE  SumsUp(f, S, Partial(f, S))
<1>1. PICK h \in [SUBSET S -> Int] : SumsUp(f, S, h)
  BY SumsExist
<1>2. h = Unrolled(f, S, h)
  BY <1>1 DEF SumsUp, Unrolled
<1>3. Partial(f, S) = Unrolled(f, S, Partial(f, S))
  BY <1>2, PartialFix
<1> DEFINE g == Partial(f, S)
<1>4. g = Unrolled(f, S, g)
  BY <1>3
<1> HIDE DEF g
<1>5. SumsUp(f, S, g)
  BY <1>4 DEF SumsUp, Unrolled
<1> QED BY <1>5 DEF g

(* Partial sums depend on the summands only. *)
LEMMA SameSums ==
  ASSUME NEW S, NEW g, NEW R, NEW h, NEW T, IsFiniteSet(T),
         T \subseteq S, T \subseteq R, NEW f, NEW e, \A x \in T : f[x] = e[x],
         SumsUp(f, S, g), SumsUp(e, R, h)
  PROVE  g[T] = h[T]
<1> DEFINE G == {n \in Nat : \A s \in SUBSET T : Cardinality(s) = n => g[s] = h[s]}
<1>1. 0 \in G
  BY Smaller DEF SumsUp
<1>2. ASSUME NEW n \in Nat, n \in G PROVE n + 1 \in G
  <2>1. ASSUME NEW s \in SUBSET T, Cardinality(s) = n + 1 PROVE g[s] = h[s]
    <3>1. s # {}
      BY <2>1, Smaller
    <3>2. Pick(s) \in s
      BY <3>1, Picked
    <3>3. s \ {Pick(s)} \in SUBSET T /\ Cardinality(s \ {Pick(s)}) = n
      BY <2>1, <3>2, Smaller
    <3>4. g[s \ {Pick(s)}] = h[s \ {Pick(s)}]
      BY <1>2, <3>3
    <3>5. f[Pick(s)] = e[Pick(s)]
      BY <3>2
    <3>6. s \in SUBSET S /\ s \in SUBSET R
      OBVIOUS
    <3> QED BY <3>1, <3>4, <3>5, <3>6 DEF SumsUp
  <2> QED BY <2>1
<1>3. Cardinality(T) \in Nat
  BY FS_CardinalityType
<1>4. Cardinality(T) \in G
  <2> HIDE DEF G
  <2> QED BY <1>1, <1>2, <1>3, NatInd
<1> QED BY <1>4

-----------------------------------------------------------------------------
(* What a sum is. *)

LEMMA SumPart ==
  ASSUME NEW S, IsFiniteSet(S), NEW f, \A x \in S : f[x] \in Int,
         NEW T \in SUBSET S
  PROVE  SumFunctionOnSet(f, T) = Partial(f, S)[T]
<1> DEFINE g == Partial(f, S)
           h == Partial(f, T)
<1>1. IsFiniteSet(T) /\ \A x \in T : f[x] \in Int
  BY FS_Subset
<1>2. SumsUp(f, S, g) /\ SumsUp(f, T, h)
  BY <1>1, PartialSums
<1>3. SumFunctionOnSet(f, T) = h[T]
  BY SumIs
<1> HIDE DEF g, h
<1>4. h[T] = g[T]
  <2>1. T \subseteq S /\ T \subseteq T /\ \A x \in T : f[x] = f[x]
    OBVIOUS
  <2> QED BY <1>1, <1>2, <2>1, SameSums
<1>5. SumFunctionOnSet(f, T) = g[T]
  BY <1>3, <1>4
<1> QED BY <1>5 DEF g

LEMMA SumEmpty == ASSUME NEW f PROVE SumFunctionOnSet(f, {}) = 0
<1>1. IsFiniteSet({}) /\ \A x \in {} : f[x] \in Int
  BY FS_EmptySet
<1>2. SumsUp(f, {}, Partial(f, {}))
  BY <1>1, PartialSums
<1>3. Partial(f, {})[{}] = 0
  BY <1>2 DEF SumsUp
<1> QED BY <1>3, SumIs

LEMMA SumZero ==
  ASSUME NEW S, IsFiniteSet(S), NEW f, \A x \in S : f[x] = 0
  PROVE  SumFunctionOnSet(f, S) = 0
<1> DEFINE g == [s \in SUBSET S |-> 0]
           h == Partial(f, S)
<1>1. \A x \in S : f[x] \in Int
  OBVIOUS
<1>2. SumsUp(f, S, g)
  BY Picked DEF SumsUp
<1>3. SumsUp(f, S, h)
  BY <1>1, PartialSums
<1>4. SumFunctionOnSet(f, S) = h[S] /\ g[S] = 0
  BY SumIs
<1> HIDE DEF g, h
<1>5. h[S] = g[S]
  <2>1. S \subseteq S /\ \A x \in S : f[x] = f[x]
    OBVIOUS
  <2> QED BY <1>2, <1>3, <2>1, SameSums
<1> QED BY <1>4, <1>5

LEMMA SumPicked ==
  ASSUME NEW S, IsFiniteSet(S), NEW f, \A x \in S : f[x] \in Int, S # {}
  PROVE  /\ Pick(S) \in S
         /\ SumFunctionOnSet(f, S) = f[Pick(S)] + SumFunctionOnSet(f, S \ {Pick(S)})
<1>1. SumsUp(f, S, Partial(f, S))
  BY PartialSums
<1>2. Partial(f, S)[S] = f[Pick(S)] + Partial(f, S)[S \ {Pick(S)}]
  BY <1>1 DEF SumsUp
<1>3. SumFunctionOnSet(f, S \ {Pick(S)}) = Partial(f, S)[S \ {Pick(S)}]
  BY SumPart
<1> QED BY <1>2, <1>3, SumIs, Picked

LEMMA SumType ==
  ASSUME NEW S, IsFiniteSet(S), NEW f, \A x \in S : f[x] \in Int
  PROVE  SumFunctionOnSet(f, S) \in Int
<1> DEFINE h == Partial(f, S)
<1>1. PICK g \in [SUBSET S -> Int] : SumsUp(f, S, g)
  BY SumsExist
<1>2. SumsUp(f, S, h)
  BY PartialSums
<1>3. SumFunctionOnSet(f, S) = h[S]
  BY SumIs
<1> HIDE DEF h
<1>4. h[S] = g[S]
  <2>1. S \subseteq S /\ \A x \in S : f[x] = f[x]
    OBVIOUS
  <2> QED BY <1>1, <1>2, <2>1, SameSums
<1>5. S \in SUBSET S
  OBVIOUS
<1>6. g[S] \in Int
  BY <1>1, <1>5
<1> QED BY <1>3, <1>4, <1>6

(* The sum does not depend on the order: any summand can be taken out.      *)
LEMMA SumTakeOut ==
  ASSUME NEW S, IsFiniteSet(S), NEW f, \A x \in S : f[x] \in Int,
         NEW a \in S
  PROVE  SumFunctionOnSet(f, S) = f[a] + SumFunctionOnSet(f, S \ {a})
<1> DEFINE sum(s) == SumFunctionOnSet(f, s)
           Free(s) == \A x \in s : sum(s) = f[x] + sum(s \ {x})
           G == {n \in Nat : \A s \in SUBSET S : Cardinality(s) = n => Free(s)}
<1>0. ASSUME NEW s \in SUBSET S
      PROVE  /\ \A x \in s : f[x] \in Int
             /\ sum(s) \in Int
             /\ s # {} => Pick(s) \in s /\ sum(s) = f[Pick(s)] + sum(s \ {Pick(s)})
  <2>1. IsFiniteSet(s) /\ \A x \in s : f[x] \in Int
    BY FS_Subset
  <2> QED BY <2>1, SumPicked, SumType
<1> HIDE DEF sum
<1>1. 0 \in G
  <2>1. ASSUME NEW s \in SUBSET S, Cardinality(s) = 0 PROVE Free(s)
    <3>1. s = {}
      BY <2>1, Smaller
    <3> QED BY <3>1
  <2> HIDE DEF Free
  <2> QED BY <2>1
<1>2. ASSUME NEW n \in Nat, n \in G PROVE n + 1 \in G
  <2>1. ASSUME NEW s \in SUBSET S, Cardinality(s) = n + 1 PROVE Free(s)
    <3> DEFINE b == Pick(s)
    <3>1. b \in s /\ sum(s) = f[b] + sum(s \ {b}) /\ f[b] \in Int
      <4>1. s # {}
        BY <2>1, Smaller
      <4> QED BY <1>0, <4>1
    <3> HIDE DEF b
    <3>2. ASSUME NEW x \in s
          PROVE  /\ s \ {x} \in SUBSET S /\ Cardinality(s \ {x}) = n
                 /\ f[x] \in Int
      BY <1>0, <2>1, Smaller
    <3>3. ASSUME NEW x \in s PROVE Free(s \ {x})
      <4> HIDE DEF Free
      <4> QED BY <1>2, <3>2
    <3>4. ASSUME NEW x \in s, x # b PROVE sum(s) = f[x] + sum(s \ {x})
      <4> DEFINE rest == sum((s \ {x}) \ {b})
      <4>1. (s \ {b}) \ {x} = (s \ {x}) \ {b} /\ (s \ {x}) \ {b} \in SUBSET S
        OBVIOUS
      <4>2. sum(s \ {b}) = f[x] + rest
        BY <3>1, <3>3, <3>4, <4>1
      <4>3. sum(s \ {x}) = f[b] + rest
        BY <3>1, <3>3, <3>4
      <4>4. rest \in Int
        BY <1>0, <4>1
      <4> HIDE DEF rest
      <4> QED BY <3>1, <3>2, <4>2, <4>3, <4>4
    <3>5. ASSUME NEW x \in s PROVE sum(s) = f[x] + sum(s \ {x})
      BY <3>1, <3>4
    <3> QED BY <3>5
  <2> HIDE DEF Free
  <2> QED BY <2>1
<1>3. Cardinality(S) \in Nat
  BY FS_CardinalityType
<1>4. Cardinality(S) \in G
  <2> HIDE DEF G
  <2> QED BY <1>1, <1>2, <1>3, NatInd
<1>5. Free(S)
  <2> HIDE DEF Free
  <2> QED BY <1>4
<1> QED BY <1>5 DEF sum

(* The sum depends on the summands only. *)
LEMMA SumSame ==
  ASSUME NEW S, IsFiniteSet(S), NEW f, NEW e, \A x \in S : f[x] \in Int,
         \A x \in S : f[x] = e[x]
  PROVE  SumFunctionOnSet(f, S) = SumFunctionOnSet(e, S)
<1> DEFINE g == Partial(f, S)
           h == Partial(e, S)
<1>1. \A x \in S : e[x] \in Int
  OBVIOUS
<1>2. SumsUp(f, S, g) /\ SumsUp(e, S, h)
  BY <1>1, PartialSums
<1>3. SumFunctionOnSet(f, S) = g[S] /\ SumFunctionOnSet(e, S) = h[S]
  BY SumIs
<1> HIDE DEF g, h
<1>4. g[S] = h[S]
  <2>1. S \subseteq S
    OBVIOUS
  <2> QED BY <1>2, <2>1, SameSums
<1> QED BY <1>3, <1>4

(* Changing one summand changes the sum by as much. *)
LEMMA SumChange ==
  ASSUME NEW S, IsFiniteSet(S), NEW f, NEW e, NEW a \in S,
         \A x \in S : f[x] \in Int /\ e[x] \in Int,
         \A x \in S : x # a => f[x] = e[x]
  PROVE  SumFunctionOnSet(e, S) = SumFunctionOnSet(f, S) - f[a] + e[a]
<1>1. /\ SumFunctionOnSet(f, S) = f[a] + SumFunctionOnSet(f, S \ {a})
      /\ SumFunctionOnSet(e, S) = e[a] + SumFunctionOnSet(e, S \ {a})
  BY SumTakeOut
<1>2. IsFiniteSet(S \ {a}) /\ \A x \in S \ {a} : f[x] \in Int /\ f[x] = e[x]
  BY FS_Subset
<1>3. /\ SumFunctionOnSet(f, S \ {a}) = SumFunctionOnSet(e, S \ {a})
      /\ SumFunctionOnSet(f, S \ {a}) \in Int
  BY <1>2, SumSame, SumType
<1> QED BY <1>1, <1>3

(* Appending a summand to a sum over 1 .. n. *)
LEMMA SumAppend ==
  ASSUME NEW n \in Nat, NEW f, NEW e,
         \A i \in 1 .. n : f[i] \in Int /\ e[i] = f[i], e[n + 1] \in Int
  PROVE  SumFunctionOnSet(e, 1 .. n + 1) = SumFunctionOnSet(f, 1 .. n) + e[n + 1]
<1> DEFINE T == 1 .. n + 1
           k == n + 1
<1>1. T \ {k} = 1 .. n /\ k \in T /\ \A i \in T : i \in 1 .. n \/ i = k
  OBVIOUS
<1>2. IsFiniteSet(T) /\ IsFiniteSet(1 .. n)
  BY FS_Interval
<1>3. \A i \in T : e[i] \in Int
  BY <1>1
<1>4. SumFunctionOnSet(f, 1 .. n) = SumFunctionOnSet(e, 1 .. n)
  BY <1>2, SumSame
<1>5. SumFunctionOnSet(e, 1 .. n) \in Int
  BY <1>2, SumType
<1> HIDE DEF T, k
<1>6. SumFunctionOnSet(e, T) = e[k] + SumFunctionOnSet(e, T \ {k})
  BY <1>1, <1>2, <1>3, SumTakeOut
<1>7. SumFunctionOnSet(e, T) = e[k] + SumFunctionOnSet(f, 1 .. n)
  BY <1>1, <1>4, <1>6
<1>8. e[k] \in Int
  BY <1>1, <1>3
<1>9. SumFunctionOnSet(e, T) = SumFunctionOnSet(f, 1 .. n) + e[k]
  BY <1>4, <1>5, <1>7, <1>8
<1> QED BY <1>9 DEF T, k

(* Leaving out the first summand. *)
LEMMA SumTail ==
  ASSUME NEW n \in Nat, NEW f, NEW e, \A i \in 1 .. n + 1 : f[i] \in Int,
         \A i \in 1 .. n : e[i] = f[i + 1]
  PROVE  SumFunctionOnSet(f, 1 .. n + 1) = SumFunctionOnSet(e, 1 .. n) + f[1]
<1> DEFINE lhs(k) == SumFunctionOnSet(f, 1 .. k)
           rhs(k) == SumFunctionOnSet(e, 1 .. k)
           G == {k \in Nat : k <= n => lhs(k + 1) = rhs(k) + f[1]}
<1>0. ASSUME NEW k \in Nat, k <= n
      PROVE  /\ lhs(k + 1) = lhs(k) + f[k + 1]
             /\ k # 0 => rhs(k) = rhs(k - 1) + e[k]
             /\ lhs(k) \in Int /\ rhs(k) \in Int
  <2>1. \A i \in 1 .. k : f[i] \in Int /\ f[i] = f[i]
    BY <1>0
  <2>2. f[k + 1] \in Int
    BY <1>0
  <2>3. lhs(k + 1) = lhs(k) + f[k + 1]
    BY <2>1, <2>2, SumAppend
  <2>4. \A i \in 1 .. k : e[i] \in Int
    BY <1>0
  <2>5. lhs(k) \in Int /\ rhs(k) \in Int
    <3>1. IsFiniteSet(1 .. k)
      BY FS_Interval
    <3> QED BY <2>1, <2>4, <3>1, SumType
  <2>6. ASSUME k # 0 PROVE rhs(k) = rhs(k - 1) + e[k]
    <3> DEFINE j == k - 1
    <3>1. /\ j \in Nat /\ j + 1 = k /\ e[j + 1] \in Int
          /\ \A i \in 1 .. j : e[i] \in Int /\ e[i] = e[i]
      BY <2>4, <2>6
    <3> HIDE DEF j
    <3>2. rhs(j + 1) = rhs(j) + e[j + 1]
      BY <3>1, SumAppend
    <3> QED BY <3>1, <3>2 DEF j
  <2> QED BY <2>3, <2>5, <2>6
<1>1. 0 \in G
  <2>1. 1 .. 0 = {}
    OBVIOUS
  <2>2. rhs(0) = 0 /\ lhs(0) = 0
    BY <2>1, SumEmpty
  <2>3. f[1] \in Int
    OBVIOUS
  <2> HIDE DEF lhs, rhs
  <2> DEFINE z == 0
  <2>4. z \in Nat /\ z <= n
    OBVIOUS
  <2> HIDE DEF z
  <2>5. lhs(z + 1) = lhs(z) + f[z + 1]
    BY <1>0, <2>4
  <2> USE DEF z
  <2>6. lhs(0 + 1) = 0 + f[1]
    BY <2>2, <2>5
  <2> QED BY <2>2, <2>3, <2>6
<1>2. ASSUME NEW k \in Nat, k \in G PROVE k + 1 \in G
  <2>1. ASSUME k + 1 <= n PROVE lhs((k + 1) + 1) = rhs(k + 1) + f[1]
    <3>1. lhs((k + 1) + 1) = lhs(k + 1) + f[(k + 1) + 1]
      BY <1>0, <2>1
    <3>2. lhs(k + 1) = rhs(k) + f[1]
      BY <1>2, <2>1
    <3>3. rhs(k + 1) = rhs(k) + e[k + 1]
      BY <1>0, <2>1
    <3>4. e[k + 1] = f[(k + 1) + 1] /\ e[k + 1] \in Int /\ f[1] \in Int
      BY <2>1
    <3>5. rhs(k) \in Int
      BY <1>0, <2>1
    <3> HIDE DEF lhs, rhs
    <3> QED BY <3>1, <3>2, <3>3, <3>4, <3>5
  <2> HIDE DEF lhs, rhs
  <2> QED BY <2>1
<1>3. n \in G
  <2> HIDE DEF G
  <2> QED BY <1>1, <1>2, NatInd
<1> QED BY <1>3

-----------------------------------------------------------------------------
(* The smallest element, when there is one. *)
LEMMA MinIs ==
  ASSUME NEW D \in SUBSET Int, NEW m \in D, \A x \in D : m <= x
  PROVE  Min(D) = m
<1> DEFINE k == Min(D)
<1>1. k \in D /\ \A y \in D : k <= y
  BY DEF Min
<1> HIDE DEF k
<1>2. k <= m /\ m <= k /\ k \in Int /\ m \in Int
  BY <1>1
<1>3. k = m
  BY <1>2
<1> QED BY <1>3 DEF k

LEMMA MaxIs ==
  ASSUME NEW D \in SUBSET Int, NEW m \in D, \A x \in D : x <= m
  PROVE  Max(D) = m
<1> DEFINE k == Max(D)
<1>1. k \in D /\ \A y \in D : k >= y
  BY DEF Max
<1> HIDE DEF k
<1>2. k <= m /\ m <= k /\ k \in Int /\ m \in Int
  BY <1>1
<1>3. k = m
  BY <1>2
<1> QED BY <1>3 DEF k

(* A set of numbers that is bounded on one side has an element there. *)
LEMMA MinOf ==
  ASSUME NEW D \in SUBSET Int, D # {}, NEW low \in Int, \A x \in D : low <= x
  PROVE  Min(D) \in D /\ \A x \in D : Min(D) <= x
<1> DEFINE G == {n \in Nat : low + n \in D => \E m \in D : \A x \in D : m <= x}
           H == {n \in Nat : \A k \in 0 .. n : k \in G}
<1>1. ASSUME NEW n \in Nat, \A k \in Nat : k < n => k \in G PROVE n \in G
  <2>1. CASE \A x \in D : low + n <= x
    BY <2>1
  <2>2. CASE \E x \in D : ~(low + n <= x)
    <3>1. PICK x \in D : ~(low + n <= x)
      BY <2>2
    <3> DEFINE k == x - low
    <3>2. k \in Nat /\ k < n /\ low + k = x
      BY <3>1
    <3> HIDE DEF k
    <3> QED BY <1>1, <3>2
  <2> QED BY <2>1, <2>2
<1>2. 0 \in H
  <2>1. 0 \in G
    <3> HIDE DEF G
    <3> QED BY <1>1
  <2> HIDE DEF G
  <2> QED BY <2>1
<1>3. ASSUME NEW n \in Nat, n \in H PROVE n + 1 \in H
  <2> HIDE DEF G
  <2>1. n + 1 \in G
    BY <1>1, <1>3
  <2> QED BY <1>3, <2>1
<1>4. \A n \in Nat : n \in H
  <2> HIDE DEF H
  <2> QED BY <1>2, <1>3, NatInd
<1>5. \A n \in Nat : n \in G
  <2> HIDE DEF G
  <2> QED BY <1>4
<1>6. PICK x \in D : TRUE
  OBVIOUS
<1> DEFINE d == x - low
<1>7. d \in Nat /\ low + d \in D
  BY <1>6
<1> HIDE DEF d
<1>8. PICK m \in D : \A y \in D : m <= y
  BY <1>5, <1>7
<1>9. Min(D) = m
  BY <1>8, MinIs
<1> QED BY <1>8, <1>9

LEMMA MaxOf ==
  ASSUME NEW D \in SUBSET Int, D # {}, NEW high \in Int, \A x \in D : x <= high
  PROVE  Max(D) \in D /\ \A x \in D : x <= Max(D)
<1> DEFINE E == {-x : x \in D}
           m == Min(E)
           low == -high
<1>1. E \in SUBSET Int /\ E # {} /\ low \in Int /\ \A x \in E : low <= x
  <2>1. ASSUME NEW y \in E PROVE y \in Int /\ low <= y
    <3>1. PICK x \in D : y = -x
      OBVIOUS
    <3>2. x \in Int /\ x <= high
      OBVIOUS
    <3> HIDE DEF E
    <3> QED BY <3>1, <3>2
  <2>2. E # {}
    OBVIOUS
  <2>3. low \in Int
    OBVIOUS
  <2> HIDE DEF E, low
  <2> QED BY <2>1, <2>2, <2>3
<1>2. \A x \in D : -x \in E
  OBVIOUS
<1>3. ASSUME NEW y \in E PROVE -y \in D
  <2>1. PICK x \in D : y = -x
    OBVIOUS
  <2>2. -y = x
    BY <2>1
  <2> QED BY <2>2
<1> HIDE DEF E, low
<1>4. m \in E /\ \A x \in E : m <= x
  BY <1>1, MinOf
<1> HIDE DEF m
<1> DEFINE k == -m
<1>5. k \in D /\ \A x \in D : x <= k
  <2>1. k \in D /\ m \in Int
    BY <1>1, <1>3, <1>4
  <2>2. ASSUME NEW x \in D PROVE x <= k
    <3>1. m <= -x /\ x \in Int
      BY <1>2, <1>4
    <3> QED BY <2>1, <3>1
  <2> QED BY <2>1, <2>2
<1> HIDE DEF k
<1>6. Max(D) = k
  BY <1>5, MaxIs
<1> QED BY <1>5, <1>6

-----------------------------------------------------------------------------
(* Functions that are defined by recursion: over the numbers, ...           *)

(* h is what step makes of base, up to n.                                   *)
Iterates(V, base, step, n, h) ==
  /\ h \in [0 .. n -> V] /\ h[0] = base
  /\ \A k \in 0 .. n - 1 : h[k + 1] = step[k][h[k]]

LEMMA IterateExists ==
  ASSUME NEW V, NEW base \in V, NEW step \in [Nat -> [V -> V]], NEW n \in Nat
  PROVE  \E h : Iterates(V, base, step, n, h)
<1> DEFINE G == {k \in Nat : \E h : Iterates(V, base, step, k, h)}
<1>1. 0 \in G
  <2> DEFINE h == [k \in 0 .. 0 |-> base]
  <2>1. Iterates(V, base, step, 0, h)
    BY DEF Iterates
  <2> QED BY <2>1
<1>2. ASSUME NEW k \in Nat, k \in G PROVE k + 1 \in G
  <2>1. PICK h : Iterates(V, base, step, k, h)
    BY <1>2
  <2> DEFINE e == [i \in 0 .. k + 1 |-> IF i <= k THEN h[i] ELSE step[k][h[k]]]
  <2>2. h \in [0 .. k -> V] /\ h[0] = base /\ h[k] \in V
        /\ \A i \in 0 .. k - 1 : h[i + 1] = step[i][h[i]]
    BY <2>1 DEF Iterates
  <2>3. step[k][h[k]] \in V
    BY <2>2
  <2>4. e \in [0 .. k + 1 -> V] /\ e[0] = base
    BY <2>2, <2>3
  <2>5. ASSUME NEW i \in 0 .. (k + 1) - 1 PROVE e[i + 1] = step[i][e[i]]
    <3>1. i \in 0 .. k /\ i + 1 \in 0 .. k + 1 /\ e[i] = h[i]
      OBVIOUS
    <3>2. CASE i = k
      BY <3>1, <3>2
    <3>3. CASE i # k
      BY <2>2, <3>1, <3>3
    <3> QED BY <3>2, <3>3
  <2> HIDE DEF e
  <2>6. Iterates(V, base, step, k + 1, e)
    BY <2>4, <2>5 DEF Iterates
  <2> QED BY <2>6
<1> HIDE DEF G
<1>3. n \in G
  BY <1>1, <1>2, NatInd
<1> QED BY <1>3 DEF G

LEMMA IterateUnique ==
  ASSUME NEW V, NEW base \in V, NEW step \in [Nat -> [V -> V]], NEW n \in Nat, NEW m \in Nat,
         NEW h, Iterates(V, base, step, n, h), NEW e, Iterates(V, base, step, m, e),
         NEW k \in Nat, k <= n, k <= m
  PROVE  h[k] = e[k]
<1> DEFINE G == {i \in Nat : i <= n /\ i <= m => h[i] = e[i]}
<1>1. 0 \in G
  BY DEF Iterates
<1>2. ASSUME NEW i \in Nat, i \in G PROVE i + 1 \in G
  <2>1. ASSUME i + 1 <= n, i + 1 <= m PROVE h[i + 1] = e[i + 1]
    <3>1. i \in 0 .. n - 1 /\ i \in 0 .. m - 1 /\ h[i] = e[i]
      BY <1>2, <2>1
    <3> QED BY <3>1 DEF Iterates
  <2> QED BY <2>1
<1> HIDE DEF G
<1>3. k \in G
  BY <1>1, <1>2, NatInd
<1> QED BY <1>3 DEF G

Steps(V, base, step) == base \in V /\ step \in [Nat -> [V -> V]]

Goes(V, base, step, f) ==
  f \in [Nat -> V] /\ f[0] = base /\ \A n \in Nat : f[n + 1] = step[n][f[n]]

LEMMA IteratesExist ==
  ASSUME NEW V, NEW base, NEW step, Steps(V, base, step)
  PROVE  \E f : Goes(V, base, step, f)
<1>0. base \in V /\ step \in [Nat -> [V -> V]]
  BY DEF Steps
<1> DEFINE upto(n) == CHOOSE h : Iterates(V, base, step, n, h)
           f == [n \in Nat |-> upto(n)[n]]
<1>1. ASSUME NEW n \in Nat PROVE Iterates(V, base, step, n, upto(n))
  BY <1>0, IterateExists
<1> HIDE DEF upto
<1>2. f \in [Nat -> V] /\ f[0] = base
  BY <1>0, <1>1 DEF Iterates
<1>3. ASSUME NEW n \in Nat PROVE f[n + 1] = step[n][f[n]]
  <2> DEFINE m == n + 1
             h == upto(m)
             e == upto(n)
  <2>1. Iterates(V, base, step, m, h) /\ Iterates(V, base, step, n, e) /\ m \in Nat /\ n <= m
    BY <1>1
  <2>2. f[m] = h[m] /\ f[n] = e[n] /\ m = n + 1
    OBVIOUS
  <2> HIDE DEF h, e, m, f
  <2>3. n <= n
    OBVIOUS
  <2>4. h[n] = e[n]
    BY <1>0, <2>1, <2>3, IterateUnique
  <2>5. h[m] = step[n][h[n]]
    <3>1. n \in 0 .. m - 1
      BY <2>2
    <3> QED BY <2>1, <2>2, <3>1 DEF Iterates
  <2> QED BY <2>2, <2>4, <2>5
<1> HIDE DEF f
<1> QED BY <1>2, <1>3 DEF Goes

(* ... and over the subsets of a finite set, of which one element after the *)
(* other is taken away.                                                     *)
Picks(S, pick) == \A s \in SUBSET S : s # {} => pick[s] \in s

FoldsUp(S, V, base, step, pick, g) ==
  /\ g \in [SUBSET S -> V]
  /\ \A s \in SUBSET S :
       g[s] = IF s = {} THEN base ELSE step[pick[s]][g[s \ {pick[s]}]]

LEMMA FoldsExist ==
  ASSUME NEW S, IsFiniteSet(S), NEW V, NEW base \in V,
         NEW step, step \in [S -> [V -> V]], NEW pick, Picks(S, pick)
  PROVE  \E g : FoldsUp(S, V, base, step, pick, g)
<1> USE DEF Picks
<1> DEFINE Upto(n, g) ==
             \A s \in SUBSET S : Cardinality(s) <= n =>
               g[s] = IF s = {} THEN base ELSE step[pick[s]][g[s \ {pick[s]}]]
           G == {n \in Nat : \E g \in [SUBSET S -> V] : Upto(n, g)}
<1>1. 0 \in G
  <2> DEFINE g == [s \in SUBSET S |-> base]
  <2>1. Upto(0, g)
    BY Smaller
  <2>2. g \in [SUBSET S -> V]
    OBVIOUS
  <2> HIDE DEF g, Upto
  <2>3. \E e \in [SUBSET S -> V] : Upto(0, e)
    BY <2>1, <2>2
  <2> QED BY <2>3
<1>2. ASSUME NEW n \in Nat, n \in G PROVE n + 1 \in G
  <2>1. PICK g \in [SUBSET S -> V] : Upto(n, g)
    BY <1>2
  <2> DEFINE next(s) == step[pick[s]][g[s \ {pick[s]}]]
             h == [s \in SUBSET S |-> IF Cardinality(s) <= n THEN g[s] ELSE next(s)]
  <2>2. ASSUME NEW s \in SUBSET S, s # {}
        PROVE  /\ pick[s] \in S /\ s \ {pick[s]} \in SUBSET S
               /\ Cardinality(s \ {pick[s]}) = Cardinality(s) - 1
               /\ Cardinality(s) \in Nat
               /\ next(s) \in V
    <3>1. pick[s] \in s
      BY <2>2
    <3>2. /\ pick[s] \in S /\ s \ {pick[s]} \in SUBSET S
          /\ Cardinality(s \ {pick[s]}) = Cardinality(s) - 1
          /\ Cardinality(s) \in Nat
      BY <3>1, Smaller
    <3>3. g[s \ {pick[s]}] \in V
      BY <2>1, <3>2
    <3> QED BY <3>2, <3>3
  <2>3. ASSUME NEW s \in SUBSET S, Cardinality(s) > n PROVE s # {}
    BY <2>3, Smaller
  <2>4. h \in [SUBSET S -> V]
    <3>1. ASSUME NEW s \in SUBSET S
          PROVE  (IF Cardinality(s) <= n THEN g[s] ELSE next(s)) \in V
      <4>1. Cardinality(s) \in Nat
        BY Smaller
      <4>2. CASE Cardinality(s) <= n
        BY <2>1, <4>2
      <4>3. CASE ~(Cardinality(s) <= n)
        <5>1. next(s) \in V
          BY <2>2, <2>3, <4>1, <4>3
        <5> HIDE DEF next
        <5> QED BY <4>3, <5>1
      <4> QED BY <4>2, <4>3
    <3> QED BY <3>1
  <2>5. ASSUME NEW s \in SUBSET S, Cardinality(s) <= n + 1
        PROVE  h[s] = IF s = {} THEN base ELSE step[pick[s]][h[s \ {pick[s]}]]
    <3>1. CASE s = {}
      <4>1. Cardinality(s) <= n
        BY <3>1, Smaller
      <4> QED BY <2>1, <3>1, <4>1
    <3>2. CASE s # {}
      <4>1. /\ s \ {pick[s]} \in SUBSET S /\ Cardinality(s) \in Nat
            /\ Cardinality(s \ {pick[s]}) <= n
        <5>1. Cardinality(s \ {pick[s]}) = Cardinality(s) - 1 /\ Cardinality(s) \in Nat
          BY <2>2, <3>2
        <5> QED BY <2>2, <2>5, <3>2, <5>1
      <4>2. h[s \ {pick[s]}] = g[s \ {pick[s]}]
        BY <4>1
      <4>3. h[s] = step[pick[s]][g[s \ {pick[s]}]]
        BY <2>1, <3>2, <4>1
      <4> QED BY <3>2, <4>2, <4>3
    <3> QED BY <3>1, <3>2
  <2> HIDE DEF h, next
  <2>6. Upto(n + 1, h)
    BY <2>5
  <2> HIDE DEF Upto
  <2>7. \E e \in [SUBSET S -> V] : Upto(n + 1, e)
    BY <2>4, <2>6
  <2> QED BY <2>7
<1>3. Cardinality(S) \in Nat
  BY FS_CardinalityType
<1>4. Cardinality(S) \in G
  <2> HIDE DEF G
  <2> QED BY <1>1, <1>2, <1>3, NatInd
<1>5. PICK g \in [SUBSET S -> V] : Upto(Cardinality(S), g)
  BY <1>4
<1>6. ASSUME NEW s \in SUBSET S
      PROVE  g[s] = IF s = {} THEN base ELSE step[pick[s]][g[s \ {pick[s]}]]
  <2>1. Cardinality(s) <= Cardinality(S)
    BY Smaller
  <2> QED BY <1>5, <2>1
<1> QED BY <1>5, <1>6 DEF FoldsUp

-----------------------------------------------------------------------------
(* Powers of ten. *)

LEMMA TenIs ==
  /\ Ten \in [Nat -> Nat \ {0}]
  /\ Ten[0] = 1 /\ \A n \in Nat : Ten[n + 1] = 10 * Ten[n]
<1> DEFINE W == Nat \ {0}
           tenfold == [n \in Nat |-> [v \in W |-> 10 * v]]
           one == 1
<1>1. tenfold \in [Nat -> [W -> W]] /\ one \in W
  OBVIOUS
<1>2. \A n \in Nat, v \in W : tenfold[n][v] = 10 * v
  OBVIOUS
<1> HIDE DEF tenfold, one, W
<1>3. PICK f : f \in [Nat -> W] /\ f[0] = one /\ \A n \in Nat : f[n + 1] = tenfold[n][f[n]]
  <2>1. PICK f : Goes(W, one, tenfold, f)
    BY <1>1, IteratesExist DEF Steps
  <2> QED BY <2>1 DEF Goes
<1>4. f = [k \in Nat |-> IF k = 0 THEN 1 ELSE 10 * f[k - 1]]
  <2>1. ASSUME NEW k \in Nat PROVE f[k] = IF k = 0 THEN 1 ELSE 10 * f[k - 1]
    <3>1. CASE k = 0
      BY <1>3, <3>1 DEF one
    <3>2. CASE k # 0
      <4>1. k - 1 \in Nat /\ (k - 1) + 1 = k
        BY <3>2
      <4> QED BY <1>2, <1>3, <3>2, <4>1
    <3> QED BY <3>1, <3>2
  <2> QED BY <1>3, <2>1
<1>5. Ten = [k \in Nat |-> IF k = 0 THEN 1 ELSE 10 * Ten[k - 1]]
  BY <1>4 DEF Ten
<1> USE DEF W
<1> DEFINE t == Ten
<1>6. t = [k \in Nat |-> IF k = 0 THEN 1 ELSE 10 * t[k - 1]]
  BY <1>5
<1> HIDE DEF t
<1>7. t[0] = 1
  BY <1>6
<1>8. ASSUME NEW n \in Nat PROVE t[n + 1] = 10 * t[n]
  <2>1. n + 1 \in Nat /\ n + 1 # 0 /\ (n + 1) - 1 = n
    OBVIOUS
  <2> QED BY <1>6, <2>1
<1>9. \A n \in Nat : t[n] \in W
  <2> DEFINE G == {n \in Nat : t[n] \in W}
  <2>1. 0 \in G
    BY <1>7
  <2>2. ASSUME NEW n \in Nat, n \in G PROVE n + 1 \in G
    BY <1>8, <2>2
  <2> HIDE DEF G
  <2>3. \A n \in Nat : n \in G
    BY <2>1, <2>2, NatInd
  <2> QED BY <2>3 DEF G
<1>10. t \in [Nat -> W]
  BY <1>6, <1>9
<1> QED BY <1>7, <1>8, <1>10 DEF t

(* A factor of all summands is a factor of the sum. *)
LEMMA SumScale ==
  ASSUME NEW n \in Nat, NEW f, NEW e,
         \A i \in 1 .. n : f[i] \in Int /\ e[i] = 10 * f[i]
  PROVE  SumFunctionOnSet(e, 1 .. n) = 10 * SumFunctionOnSet(f, 1 .. n)
<1> DEFINE G == {k \in Nat : k <= n => SumFunctionOnSet(e, 1 .. k) = 10 * SumFunctionOnSet(f, 1 .. k)}
<1>1. 0 \in G
  <2>1. 1 .. 0 = {}
    OBVIOUS
  <2> QED BY <2>1, SumEmpty
<1>2. ASSUME NEW k \in Nat, k \in G PROVE k + 1 \in G
  <2> SUFFICES ASSUME k + 1 <= n
               PROVE  SumFunctionOnSet(e, 1 .. k + 1) = 10 * SumFunctionOnSet(f, 1 .. k + 1)
    OBVIOUS
  <2>1. \A i \in 1 .. k + 1 : f[i] \in Int /\ e[i] \in Int /\ e[i] = 10 * f[i]
    OBVIOUS
  <2>2. k + 1 \in 1 .. k + 1 /\ \A i \in 1 .. k : i \in 1 .. k + 1
    OBVIOUS
  <2>3. /\ \A i \in 1 .. k : f[i] \in Int /\ f[i] = f[i]
        /\ \A i \in 1 .. k : e[i] \in Int /\ e[i] = e[i]
        /\ f[k + 1] \in Int /\ e[k + 1] \in Int /\ e[k + 1] = 10 * f[k + 1]
    BY <2>1, <2>2
  <2>4. SumFunctionOnSet(f, 1 .. k + 1) = SumFunctionOnSet(f, 1 .. k) + f[k + 1]
    BY <2>3, SumAppend
  <2>5. SumFunctionOnSet(e, 1 .. k + 1) = SumFunctionOnSet(e, 1 .. k) + e[k + 1]
    BY <2>3, SumAppend
  <2>6. SumFunctionOnSet(f, 1 .. k) \in Int
    <3>1. IsFiniteSet(1 .. k)
      BY FS_Interval
    <3> QED BY <2>3, <3>1, SumType
  <2>7. SumFunctionOnSet(e, 1 .. k) = 10 * SumFunctionOnSet(f, 1 .. k)
    BY <1>2
  <2> QED BY <2>3, <2>4, <2>5, <2>6, <2>7
<1> HIDE DEF G
<1>3. n \in G
  BY <1>1, <1>2, NatInd
<1> QED BY <1>3 DEF G
=============================================================================
