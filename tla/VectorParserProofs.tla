-------------------------- MODULE VectorParserProofs --------------------------
(***************************************************************************)
(* StringToVectorInt(), for every text, every choice of separator and       *)
(* marks, and every set of blanks: its loop ends, as each round takes at    *)
(* least one character off what the splitter has left; what it has pushed   *)
(* after so many rounds is what so many parts of the text mean; and it      *)
(* reports an error exactly where the reference finds a part without a      *)
(* meaning.                                                                 *)
(***************************************************************************)
EXTENDS VectorParser, ConversionProofs

-----------------------------------------------------------------------------
(* What is left of a slice is no longer than the slice. *)

(* find() answers a position inside the slice, or that there is none. *)
LEMMA FindInside ==
  ASSUME NEW S, NEW s \in Seq(S), NEW c, NEW pos \in Nat
  PROVE  Find(s, c, pos) \in -1 .. Len(s) - 1
<1> DEFINE I == {i \in pos + 1 .. Len(Chars(s)) : Chars(s)[i] = c}
<1>1. Find(s, c, pos) = (IF I # {} THEN Min(I) ELSE 0) - 1
  BY DEF Find, SelectInSubSeq
<1>2. Len(s) \in Nat /\ Len(Chars(s)) \in 0 .. Len(s)
  BY LenProperties, EmptySeq DEF Chars
<1>3. CASE I = {}
  BY <1>1, <1>2, <1>3
<1>4. CASE I # {}
  <2> DEFINE low == 1
  <2>1. /\ I \in SUBSET Int /\ low \in Int /\ \A i \in I : low <= i
        /\ \A i \in I : i - 1 \in -1 .. Len(s) - 1
    BY <1>2
  <2> HIDE DEF I, low
  <2>2. Min(I) \in I
    BY <1>4, <2>1, MinOf
  <2>3. Find(s, c, pos) = Min(I) - 1
    BY <1>1, <1>4
  <2> QED BY <2>1, <2>2, <2>3
<1> QED BY <1>3, <1>4

LEMMA LeadingInside ==
  ASSUME NEW S, NEW s \in Seq(S), NEW X
  PROVE  Leading(s, X) \in 0 .. Len(s)
<1> DEFINE D == {n \in 0 .. Len(s) : \A i \in 1 .. n : s[i] \in X}
<1>1. Len(s) \in Int /\ 0 \in D
  BY LenProperties
<1>2. D \in SUBSET Int /\ D # {} /\ \A n \in D : n <= Len(s)
  BY <1>1
<1> HIDE DEF D
<1>3. Max(D) \in D
  BY <1>1, <1>2, MaxOf
<1> QED BY <1>3 DEF Leading, D

LEMMA TrimEndShorter ==
  ASSUME NEW S, NEW s \in Seq(S)
  PROVE  TrimEnd(s) \in Seq(S) /\ Len(TrimEnd(s)) <= Len(s)
<1> DEFINE I == {i \in 1 .. Len(s) : s[i] \notin Spaces}
           n == IF I # {} THEN Max(I) ELSE 0
<1>1. Len(s) \in Int
  BY LenProperties
<1>2. TrimEnd(s) = IF Valid(s) THEN Before(s, n) ELSE s
  BY DEF TrimEnd, SelectLastInSeq
<1>3. n \in 0 .. Len(s)
  <2>1. CASE I = {}
    BY <2>1, LenProperties
  <2>2. CASE I # {}
    <3>1. I \in SUBSET Int /\ \A i \in I : i <= Len(s)
      OBVIOUS
    <3>2. \A i \in I : i \in 0 .. Len(s)
      OBVIOUS
    <3> HIDE DEF I
    <3>3. Max(I) \in I
      BY <1>1, <2>2, <3>1, MaxOf
    <3> QED BY <2>2, <3>2, <3>3
  <2> QED BY <2>1, <2>2
<1> HIDE DEF n
<1>4. Before(s, n) \in Seq(S) /\ Len(Before(s, n)) = n
  BY <1>3, BeforeIs
<1> QED BY <1>1, <1>2, <1>3, <1>4

LEMMA TrimShorter ==
  ASSUME NEW S, NEW s \in Seq(S)
  PROVE  Trim(s) \in Seq(S) /\ Len(Trim(s)) <= Len(s)
<1> DEFINE t == TrimStart(s)
<1>1. t \in Seq(S) /\ Len(t) <= Len(s)
  <2> DEFINE n == Leading(s, Spaces)
  <2>1. n \in 0 .. Len(s) /\ Len(s) \in Int
    BY LeadingInside, LenProperties
  <2> HIDE DEF n
  <2>2. From(s, n) \in Seq(S) /\ Len(From(s, n)) = Len(s) - n
    BY <2>1, FromIs
  <2> QED BY <2>1, <2>2 DEF TrimStart, n
<1> HIDE DEF t
<1>2. TrimEnd(t) \in Seq(S) /\ Len(TrimEnd(t)) <= Len(t)
  BY <1>1, TrimEndShorter
<1>3. Len(s) \in Int /\ Len(t) \in Int /\ Len(TrimEnd(t)) \in Int
  BY <1>1, <1>2, LenProperties
<1> QED BY <1>1, <1>2, <1>3 DEF Trim, t

LEMMA DropLastSepShorter ==
  ASSUME NEW S, NEW s \in Seq(S), s # <<>>
  PROVE  DropLastSep(s) \in Seq(S) /\ Len(DropLastSep(s)) <= Len(s)
<1> DEFINE n == Len(s) - 1
<1>1. n \in 0 .. Len(s) /\ Len(s) \in Int
  BY LenProperties, EmptySeq
<1>2. Front(s) = Before(s, n)
  BY DEF Front, Before
<1> HIDE DEF n
<1>3. Before(s, n) \in Seq(S) /\ Len(Before(s, n)) = n
  BY <1>1, BeforeIs
<1> QED BY <1>1, <1>2, <1>3 DEF DropLastSep

(* A round of the loop: what comes after the part is shorter than the rest, *)
(* by the separator or by the part.                                         *)
LEMMA AfterPartShorter ==
  ASSUME NEW S, rest \in Seq(S), rest # <<>>
  PROVE  AfterPart \in Seq(S) /\ Len(AfterPart) + 1 <= Len(rest)
<1>1. Len(rest) \in Nat \ {0} /\ Cut \in -1 .. Len(rest) - 1
  BY EmptySeq, FindInside DEF Cut
<1>2. CASE Cut = NPos
  BY <1>1, <1>2, EmptySeq DEF AfterPart
<1>3. CASE Cut # NPos
  <2> DEFINE n == Cut + 1
  <2>1. n \in 0 .. Len(rest) /\ n >= 1
    BY <1>1, <1>3 DEF NPos
  <2>2. AfterPart = From(rest, n)
    BY <1>3 DEF AfterPart
  <2> HIDE DEF n
  <2>3. From(rest, n) \in Seq(S) /\ Len(From(rest, n)) = Len(rest) - n
    BY <2>1, FromIs
  <2> QED BY <1>1, <2>1, <2>2, <2>3
<1> QED BY <1>2, <1>3

-----------------------------------------------------------------------------
(* Rounds and what is left together never exceed the text. *)
ParserInv ==
  /\ text \in Texts /\ rounds \in Nat
  /\ at = "start" => rounds = 0
  /\ at = "loop" => Valid(text)
  /\ Valid(text) => /\ rest \in Seq(Alphabet)
                    /\ rounds + Len(rest) <= Len(text)

LEMMA ParserInvInit == Init => ParserInv
<1> SUFFICES ASSUME Init PROVE ParserInv
  OBVIOUS
<1>1. Valid(text) => rest \in Seq(Alphabet) /\ Len(rest) = 0 /\ Len(text) \in Nat
  BY TextsAssumption, EmptySeq, LenProperties DEF Init, Valid
<1> QED BY <1>1 DEF Init, ParserInv

LEMMA ParserInvStep == ParserInv /\ [Next]_vars => ParserInv'
<1> SUFFICES ASSUME ParserInv, [Next]_vars PROVE ParserInv'
  OBVIOUS
<1> DEFINE S == Alphabet
<1>1. /\ text \in Texts /\ rounds \in Nat
      /\ Valid(text) => text \in Seq(S) /\ rest \in Seq(S)
                        /\ Len(text) \in Nat /\ Len(rest) \in Nat
                        /\ rounds + Len(rest) <= Len(text)
  BY TextsAssumption, LenProperties DEF ParserInv, Valid
<1> HIDE DEF S
<1>2. ASSUME Valid(text), text' = text, rounds' \in Nat, rest' \in Seq(S),
             rounds' + Len(rest') <= Len(text), at' # "start"
      PROVE  ParserInv'
  BY <1>1, <1>2 DEF ParserInv, S, Valid
<1>3. ASSUME UNCHANGED <<text, rest, rounds>>, at' = "done" \/ at' = at
      PROVE  ParserInv'
  BY <1>3 DEF ParserInv, Valid
<1>4. CASE StartNothing \/ EmptyPart \/ BadPart \/ Finish \/ UNCHANGED vars
  BY <1>3, <1>4 DEF StartNothing, EmptyPart, BadPart, Finish, Return, vars
<1>5. CASE StartLoop
  <2> DEFINE t == Trim(text)
             r == DropLastSep(t)
  <2>1. /\ Valid(text) /\ text' = text /\ rounds' = 0 /\ rounds = 0
        /\ t # <<>> /\ rest' = r /\ at' = "loop"
    BY <1>5 DEF StartLoop, ParserInv
  <2>2. t \in Seq(S) /\ Len(t) <= Len(text)
    BY <1>1, <2>1, TrimShorter
  <2> HIDE DEF t
  <2>3. r \in Seq(S) /\ Len(r) <= Len(t)
    BY <2>1, <2>2, DropLastSepShorter
  <2> HIDE DEF r
  <2>4. Len(r) \in Int /\ Len(t) \in Int
    BY <2>2, <2>3, LenProperties
  <2>5. rest' \in Seq(S) /\ rounds' + Len(rest') <= Len(text)
    BY <1>1, <2>1, <2>2, <2>3, <2>4
  <2> QED BY <1>2, <2>1, <2>5
<1>6. ASSUME at = "loop", rest # <<>>
      PROVE  /\ Valid(text) /\ Len(AfterPart) \in Int
             /\ AfterPart \in Seq(S) /\ Len(AfterPart) + 1 <= Len(rest)
  BY <1>1, <1>6, AfterPartShorter, LenProperties DEF ParserInv
<1>7. CASE GoodPart
  <2>1. /\ at = "loop" /\ text' = text /\ rest' = AfterPart
        /\ rounds' = rounds + 1 /\ at' = at /\ Part # <<>>
    BY <1>7 DEF GoodPart
  <2>2. rest # <<>>
    <3>1. ASSUME rest = <<>> PROVE Part = <<>>
      <4> DEFINE e == rest
                 n == Cut
      <4>1. e \in Seq(S) /\ Len(e) = 0
        BY <1>1, <2>1, <3>1, EmptySeq DEF ParserInv
      <4>2. n \in -1 .. Len(e) - 1
        <5> HIDE DEF e
        <5> DEFINE z == 0
        <5>1. z \in Nat
          OBVIOUS
        <5> HIDE DEF z
        <5>2. Find(e, opts.sep, z) \in -1 .. Len(e) - 1
          BY <4>1, <5>1, FindInside
        <5> QED BY <5>2 DEF Cut, e, n, z
      <4>3. n = NPos
        <5> HIDE DEF n, e
        <5> QED BY <4>1, <4>2 DEF NPos
      <4> QED BY <3>1, <4>3 DEF Part
    <3> QED BY <2>1, <3>1
  <2>3. rest' \in Seq(S) /\ rounds' \in Nat /\ rounds' + Len(rest') <= Len(text)
    BY <1>1, <1>6, <2>1, <2>2
  <2> QED BY <1>2, <1>6, <2>1, <2>2, <2>3
<1>8. CASE SkipBlanks
  <2> DEFINE a == AfterPart
             n == Leading(a, {opts.sep})
  <2>1. /\ at = "loop" /\ rest # <<>> /\ text' = text /\ rest' = From(a, n)
        /\ rounds' = rounds + 1 /\ at' = at
    BY <1>8 DEF SkipBlanks
  <2>2. Valid(text) /\ Len(a) \in Int /\ a \in Seq(S) /\ Len(a) + 1 <= Len(rest)
    BY <1>6, <2>1
  <2> HIDE DEF a
  <2>3. n \in 0 .. Len(a)
    BY <2>2, LeadingInside
  <2> HIDE DEF n
  <2>4. From(a, n) \in Seq(S) /\ Len(From(a, n)) = Len(a) - n
    BY <2>2, <2>3, FromIs
  <2>5. rest' \in Seq(S) /\ rounds' \in Nat /\ rounds' + Len(rest') <= Len(text)
    BY <1>1, <2>1, <2>2, <2>3, <2>4
  <2> QED BY <1>2, <2>1, <2>2, <2>5
<1> QED BY <1>4, <1>5, <1>7, <1>8 DEF Next

(* The loop over the parts of a list ends, whatever the text, the marks and *)
(* the blanks: every round takes at least one character off what is left    *)
(* (conversion.h:313-385).                                                  *)
THEOREM LoopEnds == Spec => []RoundsBounded
<1>1. ParserInv => RoundsBounded
  BY DEF ParserInv, RoundsBounded
<1> QED BY <1>1, ParserInvInit, ParserInvStep, PTL DEF Spec

-----------------------------------------------------------------------------
(* The three forms of what a part stands for.                               *)

Singles(r) ==
  {<<Narrow(n, IntLimit)>> : n \in {m \in Reference!Numbers(r) : Fits(m, LongLimit)}}

IsCount(n) == Narrow(n, IntLimit) > 0 /\ (opts.range = Minus => n > 0)

Repetition(x, y) == [i \in 1 .. Narrow(y, IntLimit) |-> Narrow(x, IntLimit)]

Repeats(r) == {Repetition(p[1], p[2]) : p \in {q \in HeldPairs(r, opts.repeat) : IsCount(q[2])}}

Between(x, y) == Reference!Interval(Narrow(x, IntLimit), Narrow(y, IntLimit))

Ranges(r) == {Between(p[1], p[2]) : p \in HeldPairs(r, opts.range)}

LEMMA HeldInt ==
  ASSUME NEW r \in Seq(Alphabet), NEW mark, NEW q \in HeldPairs(r, mark)
  PROVE  q[1] \in Int /\ q[2] \in Int
BY DEF HeldPairs, Fits

LEMMA MeaningsAre ==
  ASSUME NEW r \in Seq(Alphabet)
  PROVE  MeaningsOf(r) = Singles(r) \cup Repeats(r) \cup Ranges(r)
<1> DEFINE counts == {n \in Int : Narrow(n, IntLimit) > 0 /\ (opts.range = Minus => n > 0)}
<1>1. {q \in HeldPairs(r, opts.repeat) : q[2] \in counts}
        = {q \in HeldPairs(r, opts.repeat) : IsCount(q[2])}
  BY HeldInt DEF IsCount
<1>2. MeaningsOf(r) =
        Singles(r)
          \cup {[i \in 1 .. Narrow(p[2], IntLimit) |-> Narrow(p[1], IntLimit)] :
                  p \in {q \in HeldPairs(r, opts.repeat) : q[2] \in counts}}
          \cup Ranges(r)
  BY DEF MeaningsOf, Singles, Ranges, Between
<1> HIDE DEF counts
<1> QED BY <1>1, <1>2 DEF Repeats, Repetition

(* The outcome e is the only thing there is in M, or there is none.         *)
Says(e, M) == IF e.err = "ok" THEN M = {e.items} ELSE M = {}

LEMMA MeansOne ==
  ASSUME NEW C, NEW s \in Seq(C), Invalid \notin Seq(C), NEW p, Means(p, s, IntLimit)
  PROVE  /\ p.err = "ok" <=> \E x \in Reference!Numbers(s) : Fits(x, LongLimit)
         /\ \A x \in Reference!Numbers(s) :
              /\ x \in Int /\ Reference!Numbers(s) = {x}
              /\ Fits(x, LongLimit) => p.num = Narrow(x, IntLimit)
<1> DEFINE N == Reference!Numbers(s)
           good(x) == IF Fits(x, LongLimit) THEN Parsed(Narrow(x, IntLimit)) ELSE Failed("ERANGE")
<1>1. (\A x \in N : p = good(x)) /\ (N = {} => p.err # "ok")
  BY DEF Means
<1>2. \A x \in N : x \in Int /\ N = {x}
  BY NumbersOne
<1>3. \A x : /\ Fits(x, LongLimit) => good(x).err = "ok" /\ good(x).num = Narrow(x, IntLimit)
             /\ ~Fits(x, LongLimit) => good(x).err # "ok"
  BY DEF Parsed, Failed
<1> HIDE DEF good, N
<1>4. ASSUME p.err = "ok" PROVE \E x \in N : Fits(x, LongLimit)
  <2>1. PICK x \in N : TRUE
    BY <1>1, <1>4
  <2>2. p = good(x)
    BY <1>1
  <2> QED BY <1>3, <1>4, <2>2
<1>5. ASSUME NEW x \in N, Fits(x, LongLimit)
      PROVE  p.err = "ok" /\ p.num = Narrow(x, IntLimit)
  BY <1>1, <1>3, <1>5
<1> QED BY <1>2, <1>4, <1>5 DEF N

LEMMA SingleSays ==
  ASSUME NEW r \in Seq(Alphabet), Invalid \notin Seq(Alphabet), NEW p, Means(p, r, IntLimit)
  PROVE  Says(Single(p), Singles(r))
<1> DEFINE N == Reference!Numbers(r)
<1>1. /\ p.err = "ok" <=> \E x \in N : Fits(x, LongLimit)
      /\ \A x \in N : /\ x \in Int /\ N = {x}
                      /\ Fits(x, LongLimit) => p.num = Narrow(x, IntLimit)
  BY MeansOne
<1>2. Singles(r) = {<<Narrow(n, IntLimit)>> : n \in {m \in N : Fits(m, LongLimit)}}
  BY DEF Singles
<1> HIDE DEF N
<1>3. CASE p.err = "ok"
  <2>1. PICK x \in N : Fits(x, LongLimit)
    BY <1>1, <1>3
  <2>2. N = {x} /\ p.num = Narrow(x, IntLimit)
    BY <1>1, <2>1
  <2>3. {m \in N : Fits(m, LongLimit)} = {x}
    BY <2>1, <2>2
  <2>4. Singles(r) = {<<p.num>>}
    BY <1>2, <2>2, <2>3
  <2>5. Single(p).err = "ok" /\ Single(p).items = <<p.num>>
    BY <1>3 DEF Single, Good
  <2> QED BY <2>4, <2>5 DEF Says
<1>4. CASE p.err # "ok"
  <2>1. {m \in N : Fits(m, LongLimit)} = {}
    BY <1>1, <1>4
  <2>2. Singles(r) = {}
    BY <1>2, <2>1
  <2>3. Single(p).err # "ok"
    BY <1>4 DEF Single, Bad
  <2> QED BY <2>2, <2>3 DEF Says
<1> QED BY <1>3, <1>4

(* What the two numbers around a mark give: H are the pairs there are.      *)
Held(H, s1, s2, p1, p2) ==
  IF p1.err = "ok" /\ p2.err = "ok"
  THEN \E x \in Reference!Numbers(s1), y \in Reference!Numbers(s2) :
         /\ x \in Int /\ y \in Int
         /\ p1.num = Narrow(x, IntLimit) /\ p2.num = Narrow(y, IntLimit)
         /\ H = {<<x, y>>}
  ELSE H = {}

LEMMA HeldAre ==
  ASSUME NEW r \in Seq(Alphabet), NEW mark,
         NEW s1 \in Seq(Alphabet), NEW s2 \in Seq(Alphabet), Invalid \notin Seq(Alphabet),
         Reference!PairsAround(r, mark) = Reference!Numbers(s1) \X Reference!Numbers(s2),
         NEW p1, NEW p2, Means(p1, s1, IntLimit), Means(p2, s2, IntLimit)
  PROVE  Held(HeldPairs(r, mark), s1, s2, p1, p2)
<1> DEFINE N1 == Reference!Numbers(s1)
           N2 == Reference!Numbers(s2)
<1>1. /\ p1.err = "ok" <=> \E x \in N1 : Fits(x, LongLimit)
      /\ \A x \in N1 : /\ x \in Int /\ N1 = {x}
                       /\ Fits(x, LongLimit) => p1.num = Narrow(x, IntLimit)
  BY MeansOne
<1>2. /\ p2.err = "ok" <=> \E x \in N2 : Fits(x, LongLimit)
      /\ \A x \in N2 : /\ x \in Int /\ N2 = {x}
                       /\ Fits(x, LongLimit) => p2.num = Narrow(x, IntLimit)
  BY MeansOne
<1>3. HeldPairs(r, mark) = {p \in N1 \X N2 : Fits(p[1], LongLimit) /\ Fits(p[2], LongLimit)}
  BY DEF HeldPairs
<1> HIDE DEF N1, N2
<1>4. CASE p1.err = "ok" /\ p2.err = "ok"
  <2>1. PICK x \in N1 : Fits(x, LongLimit)
    BY <1>1, <1>4
  <2>2. PICK y \in N2 : Fits(y, LongLimit)
    BY <1>2, <1>4
  <2>3. /\ N1 = {x} /\ N2 = {y} /\ x \in Int /\ y \in Int
        /\ p1.num = Narrow(x, IntLimit) /\ p2.num = Narrow(y, IntLimit)
    BY <1>1, <1>2, <2>1, <2>2
  <2>4. N1 \X N2 = {<<x, y>>}
    BY <2>3
  <2>5. HeldPairs(r, mark) = {<<x, y>>}
    BY <1>3, <2>1, <2>2, <2>4
  <2> QED BY <1>4, <2>1, <2>2, <2>3, <2>5 DEF N1, N2, Held
<1>5. CASE ~(p1.err = "ok" /\ p2.err = "ok")
  <2>1. \A p \in N1 \X N2 : ~(Fits(p[1], LongLimit) /\ Fits(p[2], LongLimit))
    BY <1>1, <1>2, <1>5
  <2>2. HeldPairs(r, mark) = {}
    BY <1>3, <2>1
  <2> QED BY <1>5, <2>2 DEF Held
<1> QED BY <1>4, <1>5

LEMMA RepeatSays ==
  ASSUME NEW r \in Seq(Alphabet),
         NEW s1 \in Seq(Alphabet), NEW s2 \in Seq(Alphabet), Invalid \notin Seq(Alphabet),
         Reference!PairsAround(r, opts.repeat) = Reference!Numbers(s1) \X Reference!Numbers(s2),
         opts.range = Minus => \A j \in 1 .. Len(s2) : s2[j] # Minus,
         NEW p1, NEW p2, Means(p1, s1, IntLimit), Means(p2, s2, IntLimit)
  PROVE  Says(Repeated(p1, p2), Repeats(r))
<1> DEFINE H == HeldPairs(r, opts.repeat)
           J == {q \in H : IsCount(q[2])}
<1>1. Held(H, s1, s2, p1, p2)
  BY HeldAre
<1>2. Repeats(r) = {Repetition(p[1], p[2]) : p \in J}
  BY DEF Repeats
<1> HIDE DEF H, J
<1>3. CASE p1.err = "ok" /\ p2.err = "ok"
  <2>1. PICK x \in Reference!Numbers(s1), y \in Reference!Numbers(s2) :
             /\ x \in Int /\ y \in Int
             /\ p1.num = Narrow(x, IntLimit) /\ p2.num = Narrow(y, IntLimit)
             /\ H = {<<x, y>>}
    BY <1>1, <1>3 DEF Held
  <2>2. p2.num \in Int /\ (y = 0 => p2.num = 0)
    <3>1. IntLimit \in Nat \ {0}
      BY LimitsAssumption
    <3>2. y = 0 => Fits(y, IntLimit)
      BY <3>1 DEF Fits
    <3> QED BY <2>1, <3>1, <3>2, NarrowIs
  <2>3. opts.range = Minus => y >= 0
    BY SignOfNumber
  <2>4. IsCount(y) <=> p2.num > 0
    BY <2>1, <2>2, <2>3 DEF IsCount
  <2>5. CASE p2.num > 0
    <3>1. J = {<<x, y>>}
      BY <2>1, <2>4, <2>5 DEF J
    <3>2. Repeats(r) = {Repetition(x, y)}
      BY <1>2, <3>1
    <3>3. Repeated(p1, p2).err = "ok" /\ Repeated(p1, p2).items = [i \in 1 .. p2.num |-> p1.num]
      BY <1>3, <2>2, <2>5 DEF Repeated, Good
    <3>4. Repetition(x, y) = [i \in 1 .. p2.num |-> p1.num]
      BY <2>1 DEF Repetition
    <3> QED BY <3>2, <3>3, <3>4 DEF Says
  <2>6. CASE ~(p2.num > 0)
    <3>1. J = {}
      BY <2>1, <2>4, <2>6 DEF J
    <3>2. Repeats(r) = {}
      BY <1>2, <3>1
    <3>3. Repeated(p1, p2).err # "ok"
      BY <1>3, <2>2, <2>6 DEF Repeated, Bad
    <3> QED BY <3>2, <3>3 DEF Says
  <2> QED BY <2>5, <2>6
<1>4. CASE ~(p1.err = "ok" /\ p2.err = "ok")
  <2>1. H = {}
    BY <1>1, <1>4 DEF Held
  <2>2. Repeats(r) = {}
    BY <1>2, <2>1 DEF J
  <2>3. Repeated(p1, p2).err # "ok"
    BY <1>4 DEF Repeated, Bad
  <2> QED BY <2>2, <2>3 DEF Says
<1> QED BY <1>3, <1>4

(* The loop of a range goes through the numbers from a to b. *)
LEMMA RangedIs ==
  ASSUME NEW p1, NEW p2, p1.err = "ok", p2.err = "ok", p1.num \in Int, p2.num \in Int
  PROVE  /\ Ranged(p1, p2).err = "ok"
         /\ Ranged(p1, p2).items = Reference!Interval(p1.num, p2.num)
<1> DEFINE a == p1.num
           b == p2.num
           step == IF a < b THEN 1 ELSE -1
<1>0. a # b => Ranged(p1, p2) = Good([i \in 1 .. ((b + step) - a) * step |-> a + (i - 1) * step])
  <2>1. Ranged(p1, p2) =
          IF a = b THEN Good(<<a>>)
          ELSE LET past == b + step
               IN  Good([i \in 1 .. (past - a) * step |-> a + (i - 1) * step])
    BY Zenon DEF Ranged
  <2> HIDE DEF step
  <2> QED BY <2>1, Zenon
<1> HIDE DEF step
<1>1. CASE a = b
  <2>1. Ranged(p1, p2) = Good(<<a>>)
    BY <1>1 DEF Ranged
  <2>2. Reference!Interval(a, b) = [i \in 1 .. b - a + 1 |-> a + i - 1]
    BY <1>1 DEF Reference!Interval
  <2>3. \A i : i \in 1 .. b - a + 1 <=> i = 1
    BY <1>1
  <2>4. [i \in 1 .. b - a + 1 |-> a + i - 1] = [i \in 1 .. 1 |-> a]
    BY <1>1, <2>3
  <2>5. [i \in 1 .. 1 |-> a] = <<a>>
    OBVIOUS
  <2>6. Reference!Interval(a, b) = <<a>>
    BY ONLY <2>2, <2>4, <2>5
  <2>7. Ranged(p1, p2).err = "ok" /\ Ranged(p1, p2).items = <<a>>
    BY ONLY <2>1 DEF Good
  <2> QED BY <2>6, <2>7
<1>2. CASE a < b
  <2>1. Ranged(p1, p2) = Good([i \in 1 .. ((b + 1) - a) * 1 |-> a + (i - 1) * 1])
    <3>1. a # b /\ step = 1
      BY <1>2 DEF step
    <3> QED BY <1>0, <3>1
  <2>2. Reference!Interval(a, b) = [i \in 1 .. b - a + 1 |-> a + i - 1]
    BY <1>2 DEF Reference!Interval
  <2>3. ((b + 1) - a) * 1 = b - a + 1 /\ \A i \in 1 .. b - a + 1 : a + (i - 1) * 1 = a + i - 1
    OBVIOUS
  <2>4. [i \in 1 .. ((b + 1) - a) * 1 |-> a + (i - 1) * 1] = [i \in 1 .. b - a + 1 |-> a + i - 1]
    BY <2>3
  <2> QED BY <2>1, <2>2, <2>4 DEF Good
<1>3. CASE b < a
  <2>1. Ranged(p1, p2) = Good([i \in 1 .. ((b + (-1)) - a) * (-1) |-> a + (i - 1) * (-1)])
    <3>1. a # b /\ step = -1
      BY <1>3 DEF step
    <3> QED BY <1>0, <3>1
  <2>2. Reference!Interval(a, b) = [i \in 1 .. a - b + 1 |-> a - i + 1]
    BY <1>3 DEF Reference!Interval
  <2>3. ((b + (-1)) - a) * (-1) = a - b + 1
        /\ \A i \in 1 .. a - b + 1 : a + (i - 1) * (-1) = a - i + 1
    OBVIOUS
  <2>4. [i \in 1 .. ((b + (-1)) - a) * (-1) |-> a + (i - 1) * (-1)]
          = [i \in 1 .. a - b + 1 |-> a - i + 1]
    BY <2>3
  <2> QED BY <2>1, <2>2, <2>4 DEF Good
<1> QED BY <1>1, <1>2, <1>3

LEMMA RangeSays ==
  ASSUME NEW r \in Seq(Alphabet),
         NEW s1 \in Seq(Alphabet), NEW s2 \in Seq(Alphabet), Invalid \notin Seq(Alphabet),
         Reference!PairsAround(r, opts.range) = Reference!Numbers(s1) \X Reference!Numbers(s2),
         NEW p1, NEW p2, Means(p1, s1, IntLimit), Means(p2, s2, IntLimit)
  PROVE  Says(Ranged(p1, p2), Ranges(r))
<1> DEFINE H == HeldPairs(r, opts.range)
<1>1. Held(H, s1, s2, p1, p2)
  BY HeldAre
<1>2. Ranges(r) = {Between(p[1], p[2]) : p \in H}
  BY DEF Ranges
<1> HIDE DEF H
<1>3. CASE p1.err = "ok" /\ p2.err = "ok"
  <2>1. PICK x \in Reference!Numbers(s1), y \in Reference!Numbers(s2) :
             /\ x \in Int /\ y \in Int
             /\ p1.num = Narrow(x, IntLimit) /\ p2.num = Narrow(y, IntLimit)
             /\ H = {<<x, y>>}
    BY <1>1, <1>3 DEF Held
  <2>2. p1.num \in Int /\ p2.num \in Int
    <3>1. IntLimit \in Nat \ {0}
      BY LimitsAssumption
    <3> QED BY <2>1, <3>1, NarrowIs
  <2>3. Ranges(r) = {Between(x, y)}
    BY <1>2, <2>1
  <2>4. Ranged(p1, p2).err = "ok" /\ Ranged(p1, p2).items = Between(x, y)
    BY <1>3, <2>1, <2>2, RangedIs DEF Between
  <2> QED BY <2>3, <2>4 DEF Says
<1>4. CASE ~(p1.err = "ok" /\ p2.err = "ok")
  <2>1. H = {}
    BY <1>1, <1>4 DEF Held
  <2>2. Ranges(r) = {}
    BY <1>2, <2>1
  <2>3. Ranged(p1, p2).err # "ok"
    BY <1>4 DEF Ranged, Bad
  <2> QED BY <2>2, <2>3 DEF Says
<1> QED BY <1>3, <1>4

-----------------------------------------------------------------------------
(* Where the marks are in a part. *)

LEMMA AlphabetIs ==
  /\ Invalid \notin Seq(Alphabet)
  /\ \A r \in Seq(Alphabet) : \A i \in 1 .. Len(r) : r[i] # Nul
BY TextsAssumption, ElementOfSeq

LEMMA MarksAre ==
  ASSUME opts \in Options
  PROVE  /\ opts.repeat \notin Spaces \cup DOMAIN Digit \cup {Minus, Plus}
         /\ opts.range \notin Spaces
         /\ opts.range # Minus => opts.range \notin Spaces \cup DOMAIN Digit \cup {Minus, Plus}
BY OptionsAssumption

(* w is what is left of r without the blanks around it. *)
Trimmed(w, r, lo, hi) ==
  /\ Inside(w, r, lo, hi) /\ EndsSolid(r, lo, hi)
  /\ w \in Seq(Alphabet) /\ Len(w) = hi - lo
  /\ \A i \in 1 .. hi - lo : w[i] = r[lo + i]
  /\ lo < hi => r[lo + 1] \notin Spaces

LEMMA TrimmedIs ==
  ASSUME NEW r \in Seq(Alphabet)
  PROVE  \E lo, hi : Trimmed(Trim(r), r, lo, hi)
<1>1. PICK f, l : /\ Window(r, f, l) /\ EndsSolid(r, f, l) /\ Trim(r) = SubSeq(r, f + 1, l)
                  /\ f < l => r[f + 1] \notin Spaces
  BY AlphabetIs, TrimIs
<1>2. f \in Nat /\ l \in Nat /\ f <= l /\ l <= Len(r) /\ Len(r) \in Nat
  BY <1>1, LenProperties DEF Window
<1> DEFINE m == f + 1
           w == Trim(r)
<1>3. m \in Nat \ {0} /\ l \in 0 .. Len(r) /\ m <= l + 1 /\ m = f + 1 /\ w = SubSeq(r, m, l)
  BY <1>1, <1>2
<1> HIDE DEF m, w
<1>4. w \in Seq(Alphabet) /\ Len(w) = l - m + 1 /\ \A i \in 1 .. l - m + 1 : w[i] = r[m + i - 1]
  BY <1>3, SliceIs
<1>5. \A i \in 1 .. l - f : i \in 1 .. l - m + 1 /\ m + i - 1 = f + i
  BY <1>2, <1>3
<1>6. Len(w) = l - f
  BY <1>2, <1>3, <1>4
<1>7. \A i \in 1 .. l - f : w[i] = r[f + i]
  BY <1>4, <1>5
<1>8. Inside(w, r, f, l)
  BY <1>1, <1>3 DEF Inside
<1>9. Trimmed(w, r, f, l)
  BY <1>1, <1>4, <1>6, <1>7, <1>8 DEF Trimmed
<1> QED BY <1>9 DEF w

(* A part without characters stands for nothing. *)
LEMMA BlankSays ==
  ASSUME opts \in Options, NEW r \in Seq(Alphabet), NEW w, NEW lo, NEW hi, Trimmed(w, r, lo, hi),
         w = <<>>
  PROVE  MeaningsOf(r) = {}
<1>1. lo \in Nat /\ hi = lo /\ Len(r) \in Nat
  BY EmptySeq, LenProperties DEF Trimmed, Inside, Window
<1>2. \A i \in 1 .. Len(r) : r[i] \in Spaces
  <2>1. /\ \A i \in 1 .. lo : r[i] \in Spaces
        /\ \A i \in hi + 1 .. Len(r) : r[i] \in Spaces
    BY DEF Trimmed, Inside, Window
  <2>2. ASSUME NEW i \in 1 .. Len(r) PROVE i \in 1 .. lo \/ i \in hi + 1 .. Len(r)
    BY <1>1
  <2> QED BY <2>1, <2>2
<1>3. Reference!Numbers(r) = {}
  BY <1>2, AlphabetIs, BlankNoNumber
<1>4. \A i \in 1 .. Len(r) : r[i] # opts.repeat /\ r[i] # opts.range
  BY <1>2, MarksAre
<1>5. Reference!PairsAround(r, opts.repeat) = {} /\ Reference!PairsAround(r, opts.range) = {}
  BY <1>4, PairsNone
<1>6. Singles(r) = {}
  BY <1>3 DEF Singles
<1>7. HeldPairs(r, opts.repeat) = {} /\ HeldPairs(r, opts.range) = {}
  BY <1>5 DEF HeldPairs
<1>8. Repeats(r) = {} /\ Ranges(r) = {}
  BY <1>7 DEF Repeats, Ranges
<1> QED BY <1>6, <1>8, MeaningsAre

(* The mark at k is the one that may separate two numbers. *)
Separates(r, mark, k) ==
  Reference!PairsAround(r, mark) =
    Reference!Numbers(SubSeq(r, 1, k - 1)) \X Reference!Numbers(SubSeq(r, k + 1, Len(r)))

(* Where p, a position in w, is in r. *)
Points(p, r, lo, hi, k) == k \in lo + 1 .. hi /\ k \in 1 .. Len(r) /\ p = k - lo - 1

LEMMA StarIs ==
  ASSUME opts \in Options, NEW r \in Seq(Alphabet), NEW w, NEW lo, NEW hi, Trimmed(w, r, lo, hi)
  PROVE  \/ Find(w, opts.repeat, 0) = NPos /\ \A i \in 1 .. Len(r) : r[i] # opts.repeat
         \/ \E k : /\ Points(Find(w, opts.repeat, 0), r, lo, hi, k)
                   /\ r[k] = opts.repeat /\ Separates(r, opts.repeat, k)
<1> DEFINE mark == opts.repeat
           z == 0
           p == Find(w, mark, z)
<1>1. mark \notin Spaces \cup DOMAIN Digit \cup {Minus, Plus} /\ mark \notin Spaces
  BY MarksAre
<1>2. /\ Window(r, lo, hi) /\ w \in Seq(Alphabet) /\ Len(w) = hi - lo
      /\ \A i \in 1 .. hi - lo : w[i] = r[lo + i]
  BY DEF Trimmed, Inside
<1>3. lo \in Nat /\ hi \in Nat
  BY <1>2 DEF Window
<1>4. Valid(w) /\ z \in Nat
  BY <1>2, AlphabetIs DEF Valid
<1>5. \/ p = NPos /\ \A i \in z + 1 .. Len(w) : w[i] # mark
      \/ \E k : FirstAt(w, mark, z, k) /\ p = k - 1
  <2> HIDE DEF z, mark
  <2> QED BY <1>2, <1>4, FindFirstAt
<1> HIDE DEF p
<1>6. CASE p = NPos /\ \A i \in z + 1 .. Len(w) : w[i] # mark
  <2>1. \A i \in 1 .. Len(w) : w[i] # mark
    BY <1>6
  <2> HIDE DEF mark
  <2>2. mark \notin Spaces
    BY <1>1
  <2>3. \A i \in 1 .. Len(r) : r[i] # mark
    BY <1>2, <2>1, <2>2, MarkOutside
  <2> QED BY <1>6, <2>3 DEF p, mark
<1>7. ASSUME NEW j, FirstAt(w, mark, z, j), p = j - 1
      PROVE  \E k : Points(p, r, lo, hi, k) /\ r[k] = mark /\ Separates(r, mark, k)
  <2> DEFINE k == lo + j
  <2>1. j \in 1 .. Len(w) /\ w[j] = mark /\ \A i \in 1 .. j - 1 : w[i] # mark
    BY <1>7 DEF FirstAt
  <2> HIDE DEF mark
  <2>2. /\ k \in lo + 1 .. hi /\ k \in 1 .. Len(r) /\ r[k] = mark
        /\ \A i \in 1 .. k - 1 : r[i] # mark
    <3>1. mark \notin Spaces
      BY <1>1
    <3>2. \A m \in 1 .. Len(w) : w[m] = mark /\ (\A i \in 1 .. m - 1 : w[i] # mark) =>
            /\ lo + m \in lo + 1 .. hi /\ lo + m \in 1 .. Len(r) /\ r[lo + m] = mark
            /\ \A i \in 1 .. lo + m - 1 : r[i] # mark
      BY <1>2, <3>1, MarkOutside
    <3>3. j \in Int /\ lo + (j - 1) = (lo + j) - 1
      BY <1>3, <2>1
    <3>4. \A i \in 1 .. lo + (j - 1) : r[i] # mark
      BY <2>1, <3>2
    <3> QED BY <2>1, <3>2, <3>3, <3>4
  <2>3. p = k - lo - 1
    BY <1>3, <1>7, <2>1
  <2> HIDE DEF k
  <2>4. Separates(r, mark, k)
    BY <1>1, <2>2, AlphabetIs, PairsAtFirst DEF Separates
  <2> QED BY <2>2, <2>3, <2>4 DEF Points
<1> QED BY <1>5, <1>6, <1>7 DEF p

(* The only other '-' is a sign in front. *)
OnlySign(s, n, first) ==
  \A i \in 1 .. n : s[i] = opts.range => opts.range = Minus /\ i = first

LEMMA RangeAtIs ==
  ASSUME NEW s \in Seq(Alphabet)
  PROVE  \/ RangeAt(s) = NPos /\ OnlySign(s, Len(s), 1)
         \/ \E k \in 1 .. Len(s) : /\ RangeAt(s) = k - 1 /\ s[k] = opts.range
                                   /\ opts.range = Minus => k > 1
                                   /\ OnlySign(s, k - 1, 1)
<1> DEFINE mark == opts.range
           z == 0
           one == 1
           p == Find(s, mark, z)
           q == Find(s, mark, one)
<1>1. Valid(s) /\ z \in Nat /\ one \in Nat /\ z = 0 /\ one = 1 /\ Len(s) \in Nat
  BY AlphabetIs, LenProperties DEF Valid
<1>2. RangeAt(s) = IF mark = Minus /\ p = 0 THEN q ELSE p
  BY DEF RangeAt
<1> HIDE DEF z, one
<1>3. \/ p = NPos /\ \A i \in z + 1 .. Len(s) : s[i] # mark
      \/ \E k : FirstAt(s, mark, z, k) /\ p = k - 1
  <2> HIDE DEF mark
  <2> QED BY <1>1, FindFirstAt
<1>4. \/ q = NPos /\ \A i \in one + 1 .. Len(s) : s[i] # mark
      \/ \E k : FirstAt(s, mark, one, k) /\ q = k - 1
  <2> HIDE DEF mark
  <2> QED BY <1>1, FindFirstAt
<1> HIDE DEF p, q
<1>5. CASE p = NPos /\ \A i \in z + 1 .. Len(s) : s[i] # mark
  <2>1. RangeAt(s) = NPos
    BY <1>2, <1>5 DEF NPos
  <2>2. OnlySign(s, Len(s), 1)
    BY <1>1, <1>5 DEF OnlySign
  <2> QED BY <2>1, <2>2
<1>6. ASSUME NEW k, FirstAt(s, mark, z, k), p = k - 1, ~(mark = Minus /\ p = 0)
      PROVE  /\ k \in 1 .. Len(s) /\ RangeAt(s) = k - 1 /\ s[k] = mark
             /\ mark = Minus => k > 1
             /\ OnlySign(s, k - 1, 1)
  <2>1. k \in 1 .. Len(s) /\ s[k] = mark /\ \A i \in 1 .. k - 1 : s[i] # mark
    BY <1>1, <1>6 DEF FirstAt
  <2>2. mark = Minus => k > 1
    BY <1>6, <2>1
  <2> QED BY <1>2, <1>6, <2>1, <2>2 DEF OnlySign
<1>7. CASE mark = Minus /\ p = 0
  <2>1. RangeAt(s) = q
    BY <1>2, <1>7
  <2>2. CASE q = NPos /\ \A i \in one + 1 .. Len(s) : s[i] # mark
    <3>1. ASSUME NEW i \in 1 .. Len(s), s[i] = mark PROVE i = 1
      <4>1. i \notin one + 1 .. Len(s)
        BY <2>2, <3>1
      <4> QED BY <1>1, <4>1
    <3> QED BY <1>7, <2>1, <2>2, <3>1 DEF OnlySign
  <2>3. ASSUME NEW k, FirstAt(s, mark, one, k), q = k - 1
        PROVE  /\ k \in 1 .. Len(s) /\ RangeAt(s) = k - 1 /\ s[k] = mark
               /\ mark = Minus => k > 1
               /\ OnlySign(s, k - 1, 1)
    <3>1. k \in 2 .. Len(s) /\ s[k] = mark /\ \A i \in 2 .. k - 1 : s[i] # mark
      BY <1>1, <2>3 DEF FirstAt
    <3>2. ASSUME NEW i \in 1 .. k - 1, s[i] = mark PROVE i = 1
      <4>1. i \notin 2 .. k - 1
        BY <3>1, <3>2
      <4> QED BY <3>1, <4>1
    <3> QED BY <1>7, <2>1, <2>3, <3>1, <3>2 DEF OnlySign
  <2> QED BY <1>4, <2>2, <2>3
<1> QED BY <1>3, <1>5, <1>6, <1>7

(* What r has of the mark is in w. *)
LEMMA MarkInside ==
  ASSUME NEW r \in Seq(Alphabet), NEW w, NEW lo, NEW hi, Trimmed(w, r, lo, hi),
         NEW i \in 1 .. Len(r), r[i] \notin Spaces
  PROVE  /\ i \in lo + 1 .. hi /\ i - lo \in 1 .. Len(w) /\ w[i - lo] = r[i]
         /\ r[lo + 1] \notin Spaces /\ lo + 1 \in 1 .. Len(r)
<1>1. /\ lo \in Nat /\ hi \in Nat /\ lo <= hi /\ hi <= Len(r) /\ Len(r) \in Nat
      /\ \A a \in 1 .. lo : r[a] \in Spaces
      /\ \A a \in hi + 1 .. Len(r) : r[a] \in Spaces
  BY LenProperties DEF Trimmed, Inside, Window
<1>2. i \notin 1 .. lo /\ i \notin hi + 1 .. Len(r)
  BY <1>1
<1>3. i \in lo + 1 .. hi /\ i - lo \in 1 .. hi - lo /\ lo + (i - lo) = i /\ lo < hi
      /\ lo + 1 \in 1 .. Len(r)
  BY <1>1, <1>2
<1> QED BY <1>3 DEF Trimmed

LEMMA DashIs ==
  ASSUME opts \in Options, NEW r \in Seq(Alphabet), NEW w, NEW lo, NEW hi, Trimmed(w, r, lo, hi)
  PROVE  \/ RangeAt(w) = NPos /\ OnlySign(r, Len(r), lo + 1)
         \/ \E k : /\ Points(RangeAt(w), r, lo, hi, k)
                   /\ r[k] = opts.range /\ Separates(r, opts.range, k)
                   /\ opts.range = Minus => lo + 1 < k
<1> DEFINE mark == opts.range
           p == RangeAt(w)
<1>1. /\ lo \in Nat /\ hi \in Nat /\ lo <= hi /\ hi <= Len(r) /\ Len(r) \in Nat
      /\ \A a \in 1 .. lo : r[a] \in Spaces
      /\ w \in Seq(Alphabet) /\ Len(w) = hi - lo
      /\ \A i \in 1 .. hi - lo : w[i] = r[lo + i]
  BY LenProperties DEF Trimmed, Inside, Window
<1>2. mark \notin Spaces
      /\ (mark # Minus => mark \notin Spaces \cup DOMAIN Digit \cup {Minus, Plus})
  BY MarksAre
<1>3. ASSUME NEW n \in 0 .. hi - lo, OnlySign(w, n, 1)
      PROVE  OnlySign(r, lo + n, lo + 1)
  <2>1. ASSUME NEW i \in 1 .. lo + n, r[i] = mark PROVE mark = Minus /\ i = lo + 1
    <3>1. i \in 1 .. Len(r)
      BY <1>1
    <3>2. i - lo \in 1 .. Len(w) /\ w[i - lo] = mark
      BY <1>2, <2>1, <3>1, MarkInside
    <3>3. i - lo \in 1 .. n
      BY <1>1, <3>1, <3>2
    <3>4. mark = Minus /\ i - lo = 1
      BY <1>3, <3>2, <3>3 DEF OnlySign
    <3> QED BY <1>1, <3>4
  <2> QED BY <2>1 DEF OnlySign
<1>4. \/ p = NPos /\ OnlySign(w, Len(w), 1)
      \/ \E k \in 1 .. Len(w) : /\ p = k - 1 /\ w[k] = mark
                                /\ mark = Minus => k > 1
                                /\ OnlySign(w, k - 1, 1)
  BY <1>1, RangeAtIs
<1> HIDE DEF p
<1>5. CASE p = NPos /\ OnlySign(w, Len(w), 1)
  <2> DEFINE n == hi - lo
  <2>1. n \in 0 .. hi - lo /\ lo + n = hi /\ OnlySign(w, n, 1)
    BY <1>1, <1>5
  <2> HIDE DEF n
  <2>2. OnlySign(r, hi, lo + 1)
    BY <1>3, <2>1
  <2>3. ASSUME NEW i \in 1 .. Len(r), r[i] = mark PROVE mark = Minus /\ i = lo + 1
    <3>1. i \in lo + 1 .. hi
      BY <1>2, <2>3, MarkInside
    <3>2. i \in 1 .. hi
      BY <1>1, <3>1
    <3> QED BY <2>2, <2>3, <3>2 DEF OnlySign
  <2> QED BY <1>5, <2>3 DEF OnlySign, p
<1>6. ASSUME NEW j \in 1 .. Len(w), p = j - 1, w[j] = mark, mark = Minus => j > 1,
             OnlySign(w, j - 1, 1)
      PROVE  \E k : /\ Points(p, r, lo, hi, k) /\ r[k] = mark /\ Separates(r, mark, k)
                    /\ mark = Minus => lo + 1 < k
  <2> DEFINE k == lo + j
             n == j - 1
  <2>1. /\ k \in lo + 1 .. hi /\ k \in 1 .. Len(r) /\ p = k - lo - 1 /\ r[k] = mark
        /\ mark = Minus => lo + 1 < k
        /\ n \in 0 .. hi - lo /\ lo + n = k - 1 /\ OnlySign(w, n, 1)
    BY <1>1, <1>6
  <2> HIDE DEF k, n
  <2>2. OnlySign(r, k - 1, lo + 1)
    <3>1. OnlySign(r, lo + n, lo + 1)
      BY <1>3, <2>1
    <3> QED BY <2>1, <3>1
  <2>3. CASE mark # Minus
    <3>1. \A i \in 1 .. k - 1 : r[i] # mark
      BY <2>2, <2>3 DEF OnlySign
    <3> HIDE DEF mark
    <3>2. Separates(r, mark, k)
      BY <1>2, <2>1, <2>3, <3>1, AlphabetIs, PairsAtFirst DEF Separates
    <3> QED BY <2>1, <3>2 DEF Points
  <2>4. CASE mark = Minus
    <3>1. ASSUME NEW i \in 1 .. Len(r), r[i] = mark, i # k
          PROVE  Reference!Numbers(SubSeq(r, 1, i - 1)) = {}
      <4> DEFINE u == SubSeq(r, 1, i - 1)
      <4>1. u \in Seq(Alphabet) /\ Len(u) = i - 1 /\ \A a \in 1 .. i - 1 : u[a] = r[a]
        BY UpToIs
      <4> HIDE DEF u
      <4>2. CASE i < k
        <5>1. i \in 1 .. k - 1
          BY <2>1, <4>2
        <5>2. i = lo + 1
          BY <2>2, <3>1, <5>1 DEF OnlySign
        <5>3. \A a \in 1 .. Len(u) : u[a] \in Spaces
          <6>3. i - 1 = lo
            BY <1>1, <5>2
          <6>1. Len(u) = lo /\ \A a \in 1 .. lo : u[a] = r[a]
            BY <4>1, <6>3
          <6>2. \A a \in 1 .. lo : r[a] \in Spaces
            BY <1>1
          <6> QED BY <6>1, <6>2
        <5>4. Reference!Numbers(u) = {}
          BY <4>1, <5>3, AlphabetIs, BlankNoNumber
        <5> QED BY <5>4 DEF u
      <4>3. CASE k < i
        <5> DEFINE a == lo + 1
        <5>1. k \in 1 .. Len(u) /\ u[k] = Minus
          BY <2>1, <2>4, <4>1, <4>3
        <5>2. a \in 1 .. k - 1 /\ a \in 1 .. i - 1
          BY <1>1, <2>1, <2>4, <4>3
        <5>3. r[a] \notin Spaces
          BY <1>2, <2>1, MarkInside
        <5>4. u[a] \notin Spaces
          BY <4>1, <5>2, <5>3
        <5> HIDE DEF a
        <5>5. Reference!Numbers(u) = {}
          BY <4>1, <5>1, <5>2, <5>4, AlphabetIs, MinusBehind
        <5> QED BY <5>5 DEF u
      <4> QED BY <2>1, <3>1, <4>2, <4>3
    <3> HIDE DEF mark
    <3>2. Separates(r, mark, k)
      BY <2>1, <3>1, PairsOnly DEF Separates
    <3> QED BY <2>1, <3>2 DEF Points
  <2> QED BY <2>3, <2>4
<1> QED BY <1>4, <1>5, <1>6 DEF p

-----------------------------------------------------------------------------
(* A part gives what it stands for. *)

LEMMA SidesMean ==
  ASSUME NEW r \in Seq(Alphabet), NEW w, NEW lo, NEW hi, Trimmed(w, r, lo, hi),
         NEW p, NEW k, Points(p, r, lo, hi, k)
  PROVE  /\ SubSeq(r, 1, k - 1) \in Seq(Alphabet) /\ SubSeq(r, k + 1, Len(r)) \in Seq(Alphabet)
         /\ Means(Left(w, p), SubSeq(r, 1, k - 1), IntLimit)
         /\ Means(Right(w, p), SubSeq(r, k + 1, Len(r)), IntLimit)
<1>1. /\ k \in lo + 1 .. hi /\ k \in 1 .. Len(r) /\ p = k - lo - 1
      /\ Inside(w, r, lo, hi) /\ EndsSolid(r, lo, hi) /\ w \in Seq(Alphabet)
  BY DEF Points, Trimmed
<1>2. lo \in Nat /\ hi \in Nat
  BY <1>1 DEF Inside, Window
<1>3. p + 1 = k - lo
  BY <1>1, <1>2
<1>4. Means(Left(w, p), SubSeq(r, 1, k - 1), IntLimit)
  BY <1>1, AlphabetIs, LeftMeans DEF Left, Eat32
<1>5. Means(Right(w, p), SubSeq(r, k + 1, Len(r)), IntLimit)
  BY <1>1, <1>3, AlphabetIs, RightMeans DEF Right, Eat32
<1> QED BY <1>1, <1>4, <1>5, UpToIs, BehindIs

LEMMA StarNoNumber ==
  ASSUME opts \in Options, NEW r \in Seq(Alphabet), NEW k \in 1 .. Len(r), r[k] = opts.repeat
  PROVE  Singles(r) = {}
<1>1. Reference!Numbers(r) = {}
  BY MarksAre, AlphabetIs, NumberWritten
<1> QED BY <1>1 DEF Singles

LEMMA NoRange ==
  ASSUME NEW r \in Seq(Alphabet), NEW w, NEW lo, NEW hi, Trimmed(w, r, lo, hi),
         OnlySign(r, Len(r), lo + 1)
  PROVE  Ranges(r) = {}
<1>1. ASSUME NEW i \in 1 .. Len(r), r[i] = opts.range
      PROVE  Reference!Numbers(SubSeq(r, 1, i - 1)) = {}
  <2> DEFINE u == SubSeq(r, 1, i - 1)
  <2>1. lo \in Nat /\ \A a \in 1 .. lo : r[a] \in Spaces
    BY DEF Trimmed, Inside, Window
  <2>2. i = lo + 1
    BY <1>1 DEF OnlySign
  <2>3. u \in Seq(Alphabet) /\ Len(u) = i - 1 /\ \A a \in 1 .. i - 1 : u[a] = r[a]
    BY UpToIs
  <2>4. \A a \in 1 .. Len(u) : u[a] \in Spaces
    <3> HIDE DEF u
    <3> QED BY <2>1, <2>2, <2>3
  <2> HIDE DEF u
  <2>5. Reference!Numbers(u) = {}
    BY <2>3, <2>4, AlphabetIs, BlankNoNumber
  <2> QED BY <2>5 DEF u
<1>2. Reference!PairsAround(r, opts.range) = {}
  <2>1. ASSUME NEW v \in Reference!PairsAround(r, opts.range) PROVE FALSE
    <3>1. PICK i \in 1 .. Len(r) :
            /\ r[i] = opts.range
            /\ v \in Reference!Numbers(SubSeq(r, 1, i - 1))
                       \X Reference!Numbers(SubSeq(r, i + 1, Len(r)))
      BY PairsAre
    <3>2. Reference!Numbers(SubSeq(r, 1, i - 1)) = {}
      BY <1>1, <3>1
    <3> QED BY <3>1, <3>2
  <2> QED BY <2>1
<1>3. HeldPairs(r, opts.range) = {}
  BY <1>2 DEF HeldPairs
<1> QED BY <1>3 DEF Ranges

LEMMA NoRepeat ==
  ASSUME NEW r \in Seq(Alphabet), \A i \in 1 .. Len(r) : r[i] # opts.repeat
  PROVE  Repeats(r) = {}
<1>1. Reference!PairsAround(r, opts.repeat) = {}
  BY PairsNone
<1>2. HeldPairs(r, opts.repeat) = {}
  BY <1>1 DEF HeldPairs
<1> QED BY <1>2 DEF Repeats

(* Both marks in one part make no sense. *)
LEMMA BothMarksSay ==
  ASSUME opts \in Options, opts.range # opts.repeat,
         NEW r \in Seq(Alphabet), NEW w, NEW lo, NEW hi, Trimmed(w, r, lo, hi),
         NEW k \in 1 .. Len(r), r[k] = opts.repeat, Separates(r, opts.repeat, k),
         NEW j \in 1 .. Len(r), r[j] = opts.range, opts.range = Minus => lo + 1 < j
  PROVE  MeaningsOf(r) = {}
<1> DEFINE s1 == SubSeq(r, 1, k - 1)
           s2 == SubSeq(r, k + 1, Len(r))
<1>1. Singles(r) = {}
  BY StarNoNumber
<1>2. Ranges(r) = {}
  <2>1. ASSUME NEW v \in Reference!PairsAround(r, opts.range) PROVE FALSE
    <3>1. PICK i \in 1 .. Len(r) :
            /\ r[i] = opts.range
            /\ v \in Reference!Numbers(SubSeq(r, 1, i - 1))
                       \X Reference!Numbers(SubSeq(r, i + 1, Len(r)))
      BY PairsAre
    <3>2. k # i
      BY <3>1
    <3>3. \/ Reference!Numbers(SubSeq(r, 1, i - 1)) = {}
          \/ Reference!Numbers(SubSeq(r, i + 1, Len(r))) = {}
      BY <3>2, MarksAre, AlphabetIs, OnOneSide
    <3> QED BY <3>1, <3>3
  <2>2. HeldPairs(r, opts.range) = {}
    BY <2>1 DEF HeldPairs
  <2> QED BY <2>2 DEF Ranges
<1>3. s1 \in Seq(Alphabet) /\ Len(s1) = k - 1 /\ \A a \in 1 .. k - 1 : s1[a] = r[a]
  BY UpToIs
<1>4. s2 \in Seq(Alphabet) /\ Len(s2) = Len(r) - k /\ \A a \in 1 .. Len(r) - k : s2[a] = r[k + a]
  BY BehindIs
<1>5. Reference!PairsAround(r, opts.repeat) = Reference!Numbers(s1) \X Reference!Numbers(s2)
  BY DEF Separates
<1> HIDE DEF s1, s2
<1>6. ASSUME NEW q \in HeldPairs(r, opts.repeat), IsCount(q[2]) PROVE FALSE
  <2>1. q[1] \in Reference!Numbers(s1) /\ q[2] \in Reference!Numbers(s2) /\ q[2] \in Int
    BY <1>5, HeldInt DEF HeldPairs
  <2>2. CASE opts.range # Minus
    <3>1. j # k
      OBVIOUS
    <3>2. \/ Reference!Numbers(s1) = {} \/ Reference!Numbers(s2) = {}
      BY <2>2, <3>1, MarksAre, AlphabetIs, OnOneSide DEF s1, s2
    <3> QED BY <2>1, <3>2
  <2>3. CASE opts.range = Minus
    <3>1. Minus \notin Spaces
      BY CharactersAssumption
    <3> DEFINE a == lo + 1
    <3>2. a \in 1 .. j - 1 /\ r[a] \notin Spaces /\ a \in Nat
      <4>1. a \in 1 .. Len(r) /\ r[a] \notin Spaces
        BY <2>3, <3>1, MarkInside
      <4> QED BY <2>3, <4>1
    <3> HIDE DEF a
    <3>3. CASE j < k
      <4>1. j \in 1 .. Len(s1) /\ s1[j] = Minus
        BY <1>3, <2>3, <3>3
      <4>2. s1[a] \notin Spaces
        <5>1. a \in 1 .. k - 1
          BY <3>2, <3>3
        <5> QED BY <1>3, <3>2, <5>1
      <4>3. Reference!Numbers(s1) = {}
        BY <1>3, <3>2, <4>1, <4>2, AlphabetIs, MinusBehind
      <4> QED BY <2>1, <4>3
    <3>4. CASE k < j
      <4> DEFINE i == j - k
      <4>1. i \in 1 .. Len(r) - k /\ k + i = j
        BY <3>4, LenProperties
      <4> HIDE DEF i
      <4>2. i \in 1 .. Len(s2) /\ s2[i] = Minus
        BY <1>4, <2>3, <4>1
      <4>3. q[2] <= 0
        BY <1>4, <2>1, <4>2, AlphabetIs, SignOfNumber
      <4>4. q[2] > 0
        BY <1>6, <2>3 DEF IsCount
      <4> QED BY <2>1, <4>3, <4>4
    <3>5. j # k
      OBVIOUS
    <3> QED BY <3>3, <3>4, <3>5
  <2> QED BY <2>2, <2>3
<1>7. Repeats(r) = {}
  BY <1>6 DEF Repeats
<1> QED BY <1>1, <1>2, <1>7, MeaningsAre

(* What a part that is not empty gives is what it stands for, or an error   *)
(* where it stands for nothing.                                             *)
LEMMA ElementSays ==
  ASSUME opts \in Options, opts.range # opts.repeat, NEW r \in Seq(Alphabet)
  PROVE  Says(Element(r), MeaningsOf(r))
<1> DEFINE w == Trim(r)
           star == Find(w, opts.repeat, 0)
           dash == RangeAt(w)
           e == Element(r)
<1>1. PICK lo, hi : Trimmed(w, r, lo, hi)
  BY TrimmedIs
<1>2. \/ star = NPos /\ \A i \in 1 .. Len(r) : r[i] # opts.repeat
      \/ \E k : /\ Points(star, r, lo, hi, k)
                /\ r[k] = opts.repeat /\ Separates(r, opts.repeat, k)
  BY <1>1, StarIs
<1>3. \/ dash = NPos /\ OnlySign(r, Len(r), lo + 1)
      \/ \E k : /\ Points(dash, r, lo, hi, k)
                /\ r[k] = opts.range /\ Separates(r, opts.range, k)
                /\ opts.range = Minus => lo + 1 < k
  BY <1>1, DashIs
<1>4. w = <<>> => star = NPos /\ dash = NPos
  <2>1. ASSUME w = <<>> PROVE lo \in Nat /\ hi = lo
    BY <1>1, <2>1, EmptySeq DEF Trimmed, Inside, Window
  <2> HIDE DEF w, star, dash, e
  <2>2. ASSUME w = <<>>, NEW p, NEW k PROVE ~Points(p, r, lo, hi, k)
    BY <2>1, <2>2 DEF Points
  <2> QED BY <1>2, <1>3, <2>2
<1>5. /\ w = <<>> \/ (star # NPos /\ dash # NPos) => e = Bad("EILSEQ")
      /\ w # <<>> /\ star # NPos /\ dash = NPos => e = Repeated(Left(w, star), Right(w, star))
      /\ w # <<>> /\ star = NPos /\ dash # NPos => e = Ranged(Left(w, dash), Right(w, dash))
      /\ w # <<>> /\ star = NPos /\ dash = NPos => e = Single(Eat32(w))
  <2>1. CASE w = <<>> \/ (star # NPos /\ dash # NPos)
    <3>1. Element(r) = Bad("EILSEQ")
      BY <1>4, <2>1, Zenon DEF Element
    <3> HIDE DEF w, star, dash, e
    <3> QED BY <2>1, <3>1 DEF e
  <2>2. CASE w # <<>> /\ star # NPos /\ dash = NPos
    <3>1. Element(r) = Repeated(Left(w, star), Right(w, star))
      BY <2>2, Zenon DEF Element
    <3> HIDE DEF w, star, dash, e
    <3> QED BY <2>2, <3>1 DEF e
  <2>3. CASE w # <<>> /\ star = NPos /\ dash # NPos
    <3>1. Element(r) = Ranged(Left(w, dash), Right(w, dash))
      BY <2>3, Zenon DEF Element
    <3> HIDE DEF w, star, dash, e
    <3> QED BY <2>3, <3>1 DEF e
  <2>4. CASE w # <<>> /\ star = NPos /\ dash = NPos
    <3>1. Element(r) = Single(Eat32(w))
      BY <2>4, Zenon DEF Element
    <3> HIDE DEF w, star, dash, e
    <3> QED BY <2>4, <3>1 DEF e
  <2> QED BY <2>1, <2>2, <2>3, <2>4
<1> HIDE DEF w, star, dash, e
<1>6. ASSUME NEW p, NEW k, Points(p, r, lo, hi, k)
      PROVE  k \in 1 .. Len(r) /\ k \in lo + 1 .. hi /\ p # NPos /\ lo \in Nat /\ Len(r) \in Nat
  <2>1. k \in 1 .. Len(r) /\ k \in lo + 1 .. hi /\ p = k - lo - 1
    BY <1>6 DEF Points
  <2>2. lo \in Nat /\ hi \in Nat
    BY <1>1 DEF Trimmed, Inside, Window
  <2> QED BY <2>1, <2>2, LenProperties DEF NPos
<1>7. ASSUME e = Bad("EILSEQ"), MeaningsOf(r) = {} PROVE Says(e, MeaningsOf(r))
  <2>1. e.err # "ok"
    BY <1>7 DEF Bad
  <2> QED BY <1>7, <2>1 DEF Says
<1>8. CASE w = <<>>
  <2>1. MeaningsOf(r) = {}
    BY <1>1, <1>8, BlankSays
  <2> QED BY <1>5, <1>7, <1>8, <2>1 DEF e
<1>9. CASE w # <<>> /\ star = NPos /\ dash = NPos
  <2>1. (\A i \in 1 .. Len(r) : r[i] # opts.repeat) /\ OnlySign(r, Len(r), lo + 1)
    BY <1>2, <1>3, <1>6, <1>9
  <2>2. Repeats(r) = {} /\ Ranges(r) = {}
    BY <1>1, <2>1, NoRepeat, NoRange
  <2>3. Means(Eat(w, TRUE, IntLimit), r, IntLimit)
    BY <1>1, AlphabetIs, EatMeans DEF Trimmed
  <2>4. Says(Single(Eat32(w)), Singles(r))
    BY <2>3, AlphabetIs, SingleSays DEF Eat32
  <2>5. MeaningsOf(r) = Singles(r)
    BY <2>2, MeaningsAre
  <2> QED BY <1>5, <1>9, <2>4, <2>5 DEF e
<1>10. ASSUME w # <<>>, dash = NPos, OnlySign(r, Len(r), lo + 1),
             NEW k, Points(star, r, lo, hi, k), r[k] = opts.repeat,
             Separates(r, opts.repeat, k)
      PROVE  Says(e, MeaningsOf(r))
  <2> DEFINE s1 == SubSeq(r, 1, k - 1)
             s2 == SubSeq(r, k + 1, Len(r))
             p1 == Left(w, star)
             p2 == Right(w, star)
  <2>1. k \in 1 .. Len(r) /\ k \in lo + 1 .. hi /\ star # NPos /\ lo \in Nat /\ Len(r) \in Nat
    BY <1>6, <1>10
  <2>2. Singles(r) = {} /\ Ranges(r) = {}
    BY <1>1, <1>10, <2>1, StarNoNumber, NoRange
  <2>3. /\ s1 \in Seq(Alphabet) /\ s2 \in Seq(Alphabet)
        /\ Means(p1, s1, IntLimit) /\ Means(p2, s2, IntLimit)
    BY <1>1, <1>10, SidesMean
  <2>4. opts.range = Minus => \A j \in 1 .. Len(s2) : s2[j] # Minus
    <3>1. Len(s2) = Len(r) - k /\ \A a \in 1 .. Len(r) - k : s2[a] = r[k + a]
      BY <2>1, BehindIs
    <3> HIDE DEF s2
    <3>2. ASSUME opts.range = Minus, NEW j \in 1 .. Len(s2), s2[j] = Minus PROVE FALSE
      <4>1. k + j \in 1 .. Len(r) /\ k + j # lo + 1 /\ j \in 1 .. Len(r) - k
        BY <2>1, <3>1
      <4>2. r[k + j] = opts.range
        BY <3>1, <3>2, <4>1
      <4> QED BY <1>10, <4>1, <4>2 DEF OnlySign
    <3> QED BY <3>2
  <2>5. Reference!PairsAround(r, opts.repeat) = Reference!Numbers(s1) \X Reference!Numbers(s2)
    BY <1>10 DEF Separates
  <2> HIDE DEF s1, s2, p1, p2
  <2>6. Says(Repeated(p1, p2), Repeats(r))
    BY <2>3, <2>4, <2>5, AlphabetIs, RepeatSays
  <2>7. MeaningsOf(r) = Repeats(r)
    BY <2>2, MeaningsAre
  <2>8. e = Repeated(p1, p2)
    BY <1>5, <1>10, <2>1 DEF p1, p2
  <2> QED BY <2>6, <2>7, <2>8
<1>11. ASSUME w # <<>>, star = NPos, \A i \in 1 .. Len(r) : r[i] # opts.repeat,
             NEW k, Points(dash, r, lo, hi, k), r[k] = opts.range,
             Separates(r, opts.range, k), opts.range = Minus => lo + 1 < k
      PROVE  Says(e, MeaningsOf(r))
  <2> DEFINE s1 == SubSeq(r, 1, k - 1)
             s2 == SubSeq(r, k + 1, Len(r))
             p1 == Left(w, dash)
             p2 == Right(w, dash)
  <2>1. k \in 1 .. Len(r) /\ k \in lo + 1 .. hi /\ dash # NPos /\ lo \in Nat /\ Len(r) \in Nat
    BY <1>6, <1>11
  <2>2. Reference!Numbers(r) = {}
    <3>1. CASE opts.range # Minus
      BY <1>11, <2>1, <3>1, MarksAre, AlphabetIs, NumberWritten
    <3>2. CASE opts.range = Minus
      <4> DEFINE a == lo + 1
      <4>1. a \in 1 .. k - 1 /\ r[k] \notin Spaces /\ r[k] = Minus
        BY <1>11, <2>1, <3>2, CharactersAssumption
      <4>2. r[a] \notin Spaces
        BY <1>1, <2>1, <4>1, MarkInside
      <4> HIDE DEF a
      <4> QED BY <2>1, <4>1, <4>2, AlphabetIs, MinusBehind
    <3> QED BY <3>1, <3>2
  <2>3. Singles(r) = {} /\ Repeats(r) = {}
    BY <1>11, <2>2, NoRepeat DEF Singles
  <2>4. /\ s1 \in Seq(Alphabet) /\ s2 \in Seq(Alphabet)
        /\ Means(p1, s1, IntLimit) /\ Means(p2, s2, IntLimit)
    BY <1>1, <1>11, SidesMean
  <2>5. Reference!PairsAround(r, opts.range) = Reference!Numbers(s1) \X Reference!Numbers(s2)
    BY <1>11 DEF Separates
  <2> HIDE DEF s1, s2, p1, p2
  <2>6. Says(Ranged(p1, p2), Ranges(r))
    BY <2>4, <2>5, AlphabetIs, RangeSays
  <2>7. MeaningsOf(r) = Ranges(r)
    BY <2>3, MeaningsAre
  <2>8. e = Ranged(p1, p2)
    BY <1>5, <1>11, <2>1 DEF p1, p2
  <2> QED BY <2>6, <2>7, <2>8
<1>12. ASSUME NEW k, Points(star, r, lo, hi, k), r[k] = opts.repeat, Separates(r, opts.repeat, k),
              NEW j, Points(dash, r, lo, hi, j), r[j] = opts.range,
              opts.range = Minus => lo + 1 < j
       PROVE  Says(e, MeaningsOf(r))
  <2>1. k \in 1 .. Len(r) /\ j \in 1 .. Len(r) /\ star # NPos /\ dash # NPos
    BY <1>6, <1>12
  <2>2. MeaningsOf(r) = {}
    BY <1>1, <1>12, <2>1, BothMarksSay
  <2> QED BY <1>5, <1>7, <2>1, <2>2
<1>13. CASE w # <<>>
  BY <1>2, <1>3, <1>9, <1>10, <1>11, <1>12, <1>13 DEF e
<1> QED BY <1>8, <1>13 DEF e

-----------------------------------------------------------------------------
(* Sequences one after the other. *)

Flattening(h, g) == [i \in 1 .. Len(h) |-> IF i = 1 THEN h[i] ELSE g[i - 1] \o h[i]]

LEMMA FlattenFix ==
  ASSUME NEW h, Len(h) # 0
  PROVE  FlattenSeq(h) = (CHOOSE g : g = Flattening(h, g))[Len(h)]
BY DEF FlattenSeq, Flattening

(* f goes through the beginnings of what the first n of h are together. *)
Flattens(X, h, n, f) ==
  /\ f \in [Nat -> Seq(X)] /\ f[0] = <<>>
  /\ \A i \in 0 .. n - 1 : f[i + 1] = f[i] \o h[i + 1]

(* s is a beginning of the first n of h. *)
Begins(X, s, h, n) ==
  n \in Nat /\ s \in Seq(Seq(X)) /\ Len(s) <= n /\ \A i \in 1 .. Len(s) : s[i] = h[i]

LEMMA FlattenIs ==
  ASSUME NEW X, NEW h, NEW n, NEW f, Flattens(X, h, n, f), NEW s, Begins(X, s, h, n)
  PROVE  FlattenSeq(s) = f[Len(s)]
<1> DEFINE m == Len(s)
<1>0. n \in Nat /\ s \in Seq(Seq(X)) /\ m <= n /\ \A i \in 1 .. m : s[i] = h[i]
  BY DEF Begins
<1>1. n \in Nat /\ m \in Nat /\ m <= n /\ f \in [Nat -> Seq(X)] /\ f[0] = <<>>
      /\ \A i \in 0 .. n - 1 : f[i + 1] = f[i] \o h[i + 1]
  BY <1>0, LenProperties DEF Flattens
<1>2. ASSUME NEW i \in 1 .. m
      PROVE  f[i] = IF i = 1 THEN s[i] ELSE f[i - 1] \o s[i]
  <2>1. i - 1 \in 0 .. n - 1 /\ (i - 1) + 1 = i /\ s[i] \in Seq(X) /\ s[i] = h[i]
    BY <1>0, <1>1, ElementOfSeq
  <2>2. f[i] = f[i - 1] \o s[i]
    BY <1>1, <2>1
  <2>3. CASE i = 1
    <3>1. f[i - 1] = <<>>
      BY <1>1, <2>3
    <3>2. <<>> \o s[i] = s[i]
      BY <2>1, ConcatEmptySeq
    <3> QED BY <2>2, <2>3, <3>1, <3>2
  <2> QED BY <2>2, <2>3
<1>3. CASE m = 0
  <2>1. s = <<>>
    BY <1>0, <1>3, EmptySeq
  <2>2. FlattenSeq(s) = s
    BY <1>3 DEF FlattenSeq
  <2> QED BY <1>1, <1>3, <2>1, <2>2
<1>4. CASE m # 0
  <2> DEFINE e == [i \in 1 .. m |-> f[i]]
             g == CHOOSE x : x = Flattening(s, x)
  <2>1. e = Flattening(s, e)
    <3>1. ASSUME NEW i \in 1 .. m, i # 1 PROVE e[i - 1] = f[i - 1]
      <4>1. i - 1 \in 1 .. m
        BY <1>1, <3>1
      <4> QED BY <4>1
    <3>2. \A i \in 1 .. m : e[i] = IF i = 1 THEN s[i] ELSE e[i - 1] \o s[i]
      BY <1>2, <3>1
    <3>3. e = [i \in 1 .. m |-> e[i]]
      OBVIOUS
    <3> HIDE DEF e
    <3> QED BY <3>2, <3>3 DEF Flattening
  <2> HIDE DEF e
  <2>2. g = Flattening(s, g)
    BY <2>1
  <2> HIDE DEF g
  <2>3. \A i \in 1 .. m : g[i] = IF i = 1 THEN s[i] ELSE g[i - 1] \o s[i]
    BY <2>2 DEF Flattening
  <2> DEFINE G == {i \in Nat : i \in 1 .. m => g[i] = f[i]}
  <2>4. 0 \in G
    OBVIOUS
  <2>5. ASSUME NEW i \in Nat, i \in G PROVE i + 1 \in G
    <3>1. ASSUME i + 1 \in 1 .. m PROVE g[i + 1] = f[i + 1]
      <4>1. CASE i = 0
        BY <1>2, <2>3, <3>1, <4>1
      <4>2. CASE i # 0
        <5> DEFINE j == i + 1
        <5>1. i \in 1 .. m /\ j \in 1 .. m /\ j # 1 /\ j - 1 = i
          BY <1>1, <3>1, <4>2
        <5>2. g[i] = f[i]
          BY <2>5, <5>1
        <5> HIDE DEF j
        <5>3. g[j] = g[i] \o s[j] /\ f[j] = f[i] \o s[j]
          BY <1>2, <2>3, <5>1
        <5> QED BY <5>2, <5>3 DEF j
      <4> QED BY <4>1, <4>2
    <3> QED BY <3>1
  <2> HIDE DEF G
  <2>6. \A i \in Nat : i \in G
    BY <2>4, <2>5, NatInd
  <2>7. g[m] = f[m]
    <3>1. m \in 1 .. m
      BY <1>1, <1>4
    <3> QED BY <1>1, <2>6, <3>1 DEF G
  <2> QED BY <1>4, <2>7, FlattenFix DEF g
<1> QED BY <1>3, <1>4

LEMMA FlattensExist ==
  ASSUME NEW X, NEW n \in Nat, NEW h, \A i \in 1 .. n : h[i] \in Seq(X)
  PROVE  \E f : Flattens(X, h, n, f)
<1> DEFINE W == Seq(X)
           first == <<>>
           add(i, v) == IF i + 1 \in 1 .. n THEN v \o h[i + 1] ELSE v
           go == [i \in Nat |-> [v \in W |-> add(i, v)]]
<1>1. first \in W /\ first = <<>>
  BY EmptySeq
<1>2. ASSUME NEW i \in Nat, NEW v \in W PROVE add(i, v) \in W
  <2>1. CASE i + 1 \in 1 .. n
    <3>1. v \o h[i + 1] \in W
      BY <2>1, ConcatProperties
    <3> QED BY <2>1, <3>1
  <2> QED BY <2>1
<1> HIDE DEF add
<1>3. go \in [Nat -> [W -> W]] /\ \A i \in Nat : \A v \in W : go[i][v] = add(i, v)
  BY <1>2
<1> HIDE DEF W, first, go
<1>4. PICK f : f \in [Nat -> W] /\ f[0] = first /\ \A i \in Nat : f[i + 1] = go[i][f[i]]
  <2>1. PICK f : Goes(W, first, go, f)
    BY <1>1, <1>3, IteratesExist DEF Steps
  <2> QED BY <2>1 DEF Goes
<1>5. ASSUME NEW i \in 0 .. n - 1 PROVE f[i + 1] = f[i] \o h[i + 1]
  <2>1. i \in Nat /\ i + 1 \in 1 .. n
    OBVIOUS
  <2>3. f[i] \in W
    BY <1>4, <2>1
  <2>2. f[i + 1] = add(i, f[i])
    BY <1>3, <1>4, <2>1, <2>3
  <2> QED BY <2>1, <2>2 DEF add
<1>6. Flattens(X, h, n, f)
  BY <1>1, <1>4, <1>5 DEF Flattens, W
<1> QED BY <1>6

(* One sequence more. *)
LEMMA FlattenStep ==
  ASSUME NEW X, NEW n \in Nat, NEW c, \A i \in 1 .. n + 1 : c[i] \in Seq(X)
  PROVE  /\ FlattenSeq([i \in 1 .. n |-> c[i]]) \in Seq(X)
         /\ FlattenSeq([i \in 1 .. n + 1 |-> c[i]]) = FlattenSeq([i \in 1 .. n |-> c[i]]) \o c[n + 1]
<1> DEFINE all == n + 1
           whole == [i \in 1 .. all |-> c[i]]
           front == [i \in 1 .. n |-> c[i]]
<1>1. all \in Nat /\ n <= all /\ n \in 0 .. all - 1 /\ all <= all /\ all \in 1 .. all /\ all = n + 1
  OBVIOUS
<1> HIDE DEF all
<1>2. /\ whole \in Seq(Seq(X)) /\ Len(whole) = all /\ \A i \in 1 .. all : whole[i] = c[i]
  BY <1>1
<1>3. /\ front \in Seq(Seq(X)) /\ Len(front) = n /\ \A i \in 1 .. n : front[i] = c[i]
  BY <1>1
<1>4. \A i \in 1 .. n : i \in 1 .. all
  BY <1>1
<1> HIDE DEF whole, front
<1>5. \A i \in 1 .. all : whole[i] \in Seq(X)
  BY <1>1, <1>2
<1>6. PICK so : Flattens(X, whole, all, so)
  BY <1>1, <1>5, FlattensExist
<1>7. FlattenSeq(whole) = so[all]
  <2>1. Begins(X, whole, whole, all)
    BY <1>1, <1>2 DEF Begins
  <2>2. FlattenSeq(whole) = so[Len(whole)]
    BY <1>6, <2>1, FlattenIs
  <2> QED BY <1>2, <2>2
<1>8. \A i \in 1 .. Len(front) : front[i] = whole[i]
  BY <1>2, <1>3, <1>4
<1>9. FlattenSeq(front) = so[n]
  <2>1. Begins(X, front, whole, all)
    BY <1>1, <1>3, <1>8 DEF Begins
  <2>2. FlattenSeq(front) = so[Len(front)]
    BY <1>6, <2>1, FlattenIs
  <2> QED BY <1>3, <2>2
<1>10. so[all] = so[n] \o whole[all] /\ so[n] \in Seq(X)
  BY <1>1, <1>6 DEF Flattens
<1>11. FlattenSeq(whole) = FlattenSeq(front) \o c[all] /\ FlattenSeq(front) \in Seq(X)
  BY <1>1, <1>2, <1>7, <1>9, <1>10
<1> QED BY <1>1, <1>11 DEF whole, front, all

-----------------------------------------------------------------------------
(* The parts that are left. *)

(* u is what is left, with the separator that was removed behind it.        *)
Ending(u, r) ==
  /\ u \in Seq(Alphabet) /\ r \in Seq(Alphabet)
  /\ \/ Len(u) = Len(r) /\ (Len(r) # 0 => r[Len(r)] # opts.sep)
     \/ Len(u) = Len(r) + 1 /\ u[Len(u)] = opts.sep
  /\ \A i \in 1 .. Len(r) : u[i] = r[i]
(* The parts there are in what is left, r. *)
PartsLeft(P, r) ==
  IF opts.sep \in Blanks
  THEN r \in Seq(Alphabet) /\ P = Reference!NotEmpty(Reference!Parts(r, opts.sep))
  ELSE \/ r = <<>> /\ P = <<>>
       \/ \E u : Ending(u, r) /\ P = Reference!Parts(u, opts.sep)

LEMMA PartsLeftType ==
  ASSUME NEW r, NEW P, PartsLeft(P, r)
  PROVE  P \in Seq(Seq(Alphabet)) /\ r \in Seq(Alphabet)
<1>1. CASE opts.sep \in Blanks
  BY <1>1, PartsType, NotEmptyType DEF PartsLeft
<1>2. CASE opts.sep \notin Blanks
  <2>1. CASE r = <<>> /\ P = <<>>
    BY <2>1, EmptySeq
  <2>2. CASE \E u : Ending(u, r) /\ P = Reference!Parts(u, opts.sep)
    BY <2>2, PartsType DEF Ending
  <2> QED BY <1>2, <2>1, <2>2 DEF PartsLeft
<1> QED BY <1>1, <1>2

(* Where the next part ends. *)
LEMMA CutIs ==
  ASSUME rest \in Seq(Alphabet)
  PROVE  \/ /\ Part = rest /\ AfterPart = <<>>
            /\ \A i \in 1 .. Len(rest) : rest[i] # opts.sep
         \/ \E c : /\ FirstAt(rest, opts.sep, 0, c)
                   /\ Part = Before(rest, c - 1) /\ AfterPart = From(rest, c)
<1> DEFINE z == 0
           p == Find(rest, opts.sep, z)
<1>1. Valid(rest) /\ z \in Nat
  BY AlphabetIs DEF Valid
<1>2. \/ p = NPos /\ \A i \in z + 1 .. Len(rest) : rest[i] # opts.sep
      \/ \E k : FirstAt(rest, opts.sep, z, k) /\ p = k - 1
  <2> HIDE DEF z
  <2> QED BY <1>1, FindFirstAt
<1>3. Cut = p
  BY DEF Cut
<1> HIDE DEF p
<1>4. CASE p = NPos /\ \A i \in z + 1 .. Len(rest) : rest[i] # opts.sep
  BY <1>3, <1>4 DEF Part, AfterPart
<1>5. ASSUME NEW c, FirstAt(rest, opts.sep, z, c), p = c - 1
      PROVE  Part = Before(rest, c - 1) /\ AfterPart = From(rest, c)
  <2>1. c \in 1 .. Len(rest)
    BY <1>5 DEF FirstAt
  <2>2. Cut # NPos /\ Cut + 1 = c
    BY <1>3, <1>5, <2>1 DEF NPos
  <2> QED BY <1>3, <1>5, <2>2 DEF Part, AfterPart
<1> QED BY <1>2, <1>4, <1>5

LEMMA NoParts == Reference!Parts(<<>>, opts.sep) = <<<<>>>>
<1> DEFINE s == <<>>
<1>1. s \in Seq(Alphabet) /\ Len(s) = 0
  BY EmptySeq
<1>2. \A i \in 1 .. Len(s) : s[i] # opts.sep
  BY <1>1
<1> HIDE DEF s
<1>3. Reference!Parts(s, opts.sep) = <<s>>
  BY <1>1, <1>2, PartsWhole
<1> QED BY <1>3 DEF s

(* One part without a separator and nothing behind it. *)
LEMMA OnePart ==
  ASSUME NEW x \in Seq(Alphabet)
  PROVE  Follows(<<x>>, <<>>) /\ <<x>> \in Seq(Seq(Alphabet)) /\ <<>> \in Seq(Seq(Alphabet))
BY DEF Follows

LEMMA BlankNextPart ==
  ASSUME rest \in Seq(Alphabet), opts.sep \in Blanks, NEW P, PartsLeft(P, rest), Part # <<>>
  PROVE  P[1] = Part /\ \E Q : Follows(P, Q) /\ PartsLeft(Q, AfterPart)
<1> DEFINE sep == opts.sep
           A == Reference!Parts(rest, sep)
           B == Reference!Parts(AfterPart, sep)
<1>1. P = Reference!NotEmpty(A)
  BY DEF PartsLeft
<1>2. CASE /\ Part = rest /\ AfterPart = <<>>
           /\ \A i \in 1 .. Len(rest) : rest[i] # sep
  <2> DEFINE E == <<>>
  <2>1. A = <<rest>> /\ B = <<<<>>>>
    BY <1>2, PartsWhole, NoParts
  <2>2. Follows(A, E) /\ A \in Seq(Seq(Alphabet)) /\ E \in Seq(Seq(Alphabet)) /\ A[1] = rest
    BY <2>1, OnePart
  <2>3. B \in Seq(Seq(Alphabet)) /\ \A k \in 1 .. Len(B) : B[k] = <<>>
    BY <2>1
  <2>4. E \in Seq(Seq(Alphabet)) /\ \A k \in 1 .. Len(E) : E[k] = <<>>
    BY <2>2
  <2> HIDE DEF A, B, E
  <2>5. Reference!NotEmpty(B) = <<>> /\ Reference!NotEmpty(E) = <<>>
    BY <2>3, <2>4, NotEmptyNone
  <2>6. /\ Follows(Reference!NotEmpty(A), Reference!NotEmpty(E))
        /\ Reference!NotEmpty(A)[1] = A[1]
    BY <1>2, <2>2, NotEmptyKeep
  <2>7. PartsLeft(Reference!NotEmpty(B), AfterPart)
    BY <1>2, EmptySeq DEF PartsLeft, B
  <2> QED BY <1>1, <1>2, <2>2, <2>5, <2>6, <2>7
<1>3. ASSUME NEW c, FirstAt(rest, sep, 0, c), Part = Before(rest, c - 1),
             AfterPart = From(rest, c)
      PROVE  P[1] = Part /\ \E Q : Follows(P, Q) /\ PartsLeft(Q, AfterPart)
  <2>1. Follows(A, B) /\ A[1] = Part /\ A \in Seq(Seq(Alphabet)) /\ B \in Seq(Seq(Alphabet))
    <3> HIDE DEF sep
    <3> QED BY <1>3, PartsBehind
  <2>2. AfterPart \in Seq(Alphabet)
    <3>1. c \in 0 .. Len(rest)
      BY <1>3, LenProperties DEF FirstAt
    <3> QED BY <1>3, <3>1, FromIs
  <2> HIDE DEF A, B
  <2>3. /\ Follows(Reference!NotEmpty(A), Reference!NotEmpty(B))
        /\ Reference!NotEmpty(A)[1] = A[1]
    BY <2>1, NotEmptyKeep
  <2>4. PartsLeft(Reference!NotEmpty(B), AfterPart)
    BY <2>2 DEF PartsLeft, B
  <2> QED BY <1>1, <2>1, <2>3, <2>4
<1> QED BY <1>2, <1>3, CutIs

LEMMA BlankSkip ==
  ASSUME rest \in Seq(Alphabet), rest # <<>>, opts.sep \in Blanks, NEW P, PartsLeft(P, rest),
         Part = <<>>
  PROVE  PartsLeft(P, From(AfterPart, Leading(AfterPart, {opts.sep})))
<1> DEFINE sep == opts.sep
           a == AfterPart
           n == Leading(a, {sep})
           A == Reference!Parts(rest, sep)
           B == Reference!Parts(a, sep)
<1>1. P = Reference!NotEmpty(A)
  BY DEF PartsLeft
<1>2. PICK c : /\ FirstAt(rest, sep, 0, c) /\ Part = Before(rest, c - 1)
               /\ AfterPart = From(rest, c)
  BY CutIs
<1>3. Follows(A, B) /\ A[1] = <<>> /\ A \in Seq(Seq(Alphabet)) /\ B \in Seq(Seq(Alphabet))
  <2> HIDE DEF sep
  <2> QED BY <1>2, PartsBehind
<1>4. a \in Seq(Alphabet)
  <2>1. c \in 0 .. Len(rest)
    BY <1>2, LenProperties DEF FirstAt
  <2> QED BY <1>2, <2>1, FromIs
<1> HIDE DEF A, a
<1>5. Reference!NotEmpty(A) = Reference!NotEmpty(B)
  <2> HIDE DEF B
  <2> QED BY <1>3, NotEmptySkip
<1>6. n \in 0 .. Len(a) /\ \A i \in 1 .. n : a[i] = sep
  <2> DEFINE X == {sep}
  <2>1. \A x : x \in X <=> x = sep
    OBVIOUS
  <2> HIDE DEF X
  <2>2. Leading(a, X) \in 0 .. Len(a) /\ \A i \in 1 .. Leading(a, X) : a[i] \in X
    BY <1>4, LeadingIs
  <2> QED BY <2>1, <2>2 DEF X
<1> HIDE DEF n
<1>7. Reference!NotEmpty(Reference!Parts(From(a, n), sep)) = Reference!NotEmpty(B)
  BY <1>4, <1>6, PartsSkip
<1>8. From(a, n) \in Seq(Alphabet)
  BY <1>4, <1>6, FromIs
<1>9. PartsLeft(P, From(a, n))
  BY <1>1, <1>5, <1>7, <1>8 DEF PartsLeft
<1> QED BY <1>9 DEF n, a

(* The next separator of the rest is the next one of u. *)
LEMMA EndingStep ==
  ASSUME NEW u, rest \in Seq(Alphabet), Ending(u, rest), NEW c, FirstAt(rest, opts.sep, 0, c),
         Part = Before(rest, c - 1), AfterPart = From(rest, c)
  PROVE  /\ FirstAt(u, opts.sep, 0, c) /\ Before(u, c - 1) = Part
         /\ Ending(From(u, c), AfterPart)
<1> DEFINE sep == opts.sep
           n == c - 1
           t == From(u, c)
           a == AfterPart
<1>1. /\ u \in Seq(Alphabet) /\ Len(u) \in Nat /\ Len(rest) \in Nat /\ Len(rest) <= Len(u)
      /\ \A i \in 1 .. Len(rest) : u[i] = rest[i]
      /\ \/ Len(u) = Len(rest) /\ (Len(rest) # 0 => rest[Len(rest)] # sep)
         \/ Len(u) = Len(rest) + 1 /\ u[Len(u)] = sep
  BY LenProperties DEF Ending
<1>2. c \in 1 .. Len(rest) /\ rest[c] = sep /\ \A i \in 1 .. c - 1 : rest[i] # sep
  BY DEF FirstAt
<1>3. FirstAt(u, sep, 0, c)
  <2>1. c \in 1 .. Len(u) /\ u[c] = sep
    BY <1>1, <1>2
  <2>2. ASSUME NEW i \in 1 .. c - 1 PROVE u[i] # sep
    <3>1. i \in 1 .. Len(rest)
      BY <1>1, <1>2
    <3> QED BY <1>1, <1>2, <3>1
  <2> QED BY <2>1, <2>2 DEF FirstAt
<1>4. n \in 0 .. Len(rest) /\ n \in 0 .. Len(u) /\ c \in 0 .. Len(rest) /\ c \in 0 .. Len(u)
  BY <1>1, <1>2
<1> HIDE DEF n
<1>5. Before(u, n) = Before(rest, n)
  <2>1. /\ Before(u, n) \in Seq(Alphabet) /\ Len(Before(u, n)) = n
        /\ \A i \in 1 .. n : Before(u, n)[i] = u[i]
    BY <1>1, <1>4, BeforeIs
  <2>2. /\ Before(rest, n) \in Seq(Alphabet) /\ Len(Before(rest, n)) = n
        /\ \A i \in 1 .. n : Before(rest, n)[i] = rest[i]
    BY <1>4, BeforeIs
  <2>3. \A i \in 1 .. n : Before(u, n)[i] = Before(rest, n)[i]
    BY <1>1, <1>4, <2>1, <2>2
  <2> HIDE DEF Before
  <2> QED BY <2>1, <2>2, <2>3, SeqEqual
<1>6. /\ t \in Seq(Alphabet) /\ Len(t) = Len(u) - c
      /\ \A i \in 1 .. Len(u) - c : t[i] = u[c + i]
  BY <1>1, <1>4, FromIs
<1>7. /\ a \in Seq(Alphabet) /\ Len(a) = Len(rest) - c
      /\ \A i \in 1 .. Len(rest) - c : a[i] = rest[c + i]
  BY <1>4, FromIs
<1> HIDE DEF t, a
<1>8. ASSUME NEW i \in 1 .. Len(a) PROVE t[i] = a[i]
  <2>1. i \in 1 .. Len(u) - c /\ i \in 1 .. Len(rest) - c /\ c + i \in 1 .. Len(rest)
    BY <1>1, <1>4, <1>7
  <2> QED BY <1>1, <1>6, <1>7, <2>1
<1>9. \/ Len(t) = Len(a) /\ (Len(a) # 0 => a[Len(a)] # sep)
      \/ Len(t) = Len(a) + 1 /\ t[Len(t)] = sep
  <2>1. CASE Len(u) = Len(rest) /\ (Len(rest) # 0 => rest[Len(rest)] # sep)
    <3>1. Len(t) = Len(a)
      BY <1>6, <1>7, <2>1
    <3>2. ASSUME Len(a) # 0 PROVE a[Len(a)] # sep
      <4>1. Len(a) \in 1 .. Len(rest) - c /\ c + Len(a) = Len(rest) /\ Len(rest) # 0
        BY <1>1, <1>4, <1>7, <3>2
      <4> QED BY <1>7, <2>1, <4>1
    <3> QED BY <3>1, <3>2
  <2>2. CASE Len(u) = Len(rest) + 1 /\ u[Len(u)] = sep
    <3>1. Len(t) = Len(a) + 1 /\ Len(t) \in 1 .. Len(u) - c /\ c + Len(t) = Len(u)
      BY <1>1, <1>4, <1>6, <1>7, <2>2
    <3> QED BY <1>6, <2>2, <3>1
  <2> QED BY <1>1, <2>1, <2>2
<1>10. Ending(t, a)
  BY <1>6, <1>7, <1>8, <1>9 DEF Ending
<1> QED BY <1>3, <1>5, <1>10 DEF n, t, a

(* A text is separated into its parts, or is one part.                      *)
LEMMA FirstSep ==
  ASSUME NEW u \in Seq(Alphabet), NEW j \in 1 .. Len(u), u[j] = opts.sep
  PROVE  \E c : FirstAt(u, opts.sep, 0, c)
<1> DEFINE z == 0
           p == Find(u, opts.sep, z)
<1>1. Valid(u) /\ z \in Nat /\ j \in z + 1 .. Len(u)
  BY AlphabetIs DEF Valid
<1>2. \/ p = NPos /\ \A i \in z + 1 .. Len(u) : u[i] # opts.sep
      \/ \E k : FirstAt(u, opts.sep, z, k) /\ p = k - 1
  <2> HIDE DEF z
  <2> QED BY <1>1, FindFirstAt
<1> QED BY <1>1, <1>2

(* Behind the last separator there is an empty part. *)
LEMMA SepEnds ==
  ASSUME NEW u \in Seq(Alphabet), NEW j \in 1 .. Len(u), u[j] = opts.sep
  PROVE  Len(Reference!Parts(u, opts.sep)) >= 2
<1>1. PICK c : FirstAt(u, opts.sep, 0, c)
  BY FirstSep
<1> DEFINE t == From(u, c)
<1>2. c \in 0 .. Len(u)
  BY <1>1, LenProperties DEF FirstAt
<1>3. t \in Seq(Alphabet)
  BY <1>2, FromIs
<1>4. Follows(Reference!Parts(u, opts.sep), Reference!Parts(t, opts.sep))
  BY <1>1, PartsBehind
<1>5. Len(Reference!Parts(t, opts.sep)) >= 1
      /\ Reference!Parts(t, opts.sep) \in Seq(Seq(Alphabet))
  BY <1>3, PartsType
<1> HIDE DEF t
<1>6. Len(Reference!Parts(t, opts.sep)) \in Nat
  BY <1>5, LenProperties
<1> QED BY <1>4, <1>5, <1>6 DEF Follows

LEMMA NextPart ==
  ASSUME rest \in Seq(Alphabet), rest # <<>>, opts.sep \notin Blanks, NEW P, PartsLeft(P, rest)
  PROVE  P[1] = Part /\ \E Q : Follows(P, Q) /\ PartsLeft(Q, AfterPart)
<1> DEFINE sep == opts.sep
<1>1. PICK u : Ending(u, rest) /\ P = Reference!Parts(u, sep)
  BY DEF PartsLeft
<1>2. /\ u \in Seq(Alphabet) /\ Len(u) \in Nat /\ Len(rest) \in Nat
      /\ \A i \in 1 .. Len(rest) : u[i] = rest[i]
      /\ \/ Len(u) = Len(rest)
         \/ Len(u) = Len(rest) + 1 /\ u[Len(u)] = sep
  BY <1>1, LenProperties DEF Ending
<1>3. CASE /\ Part = rest /\ AfterPart = <<>>
           /\ \A i \in 1 .. Len(rest) : rest[i] # sep
  <2>1. CASE Len(u) = Len(rest)
    <3> DEFINE E == <<>>
    <3>1. u = rest
      BY <1>2, <2>1, SeqEqual
    <3>2. P = <<rest>>
      BY <1>1, <1>3, <3>1, PartsWhole
    <3>3. Follows(P, E) /\ P[1] = Part
      BY <1>3, <3>2, OnePart
    <3>4. PartsLeft(E, AfterPart)
      BY <1>3 DEF PartsLeft
    <3> QED BY <3>3, <3>4
  <2>2. CASE Len(u) = Len(rest) + 1 /\ u[Len(u)] = sep
    <3> DEFINE c == Len(u)
               n == c - 1
               t == From(u, c)
               e == <<>>
    <3>1. c \in 1 .. Len(u) /\ c \in 0 .. Len(u) /\ n \in 0 .. Len(u) /\ n = Len(rest)
          /\ u[c] = sep /\ Len(u) - c = 0
      BY <1>2, <2>2
    <3>2. FirstAt(u, sep, 0, c)
      <4>1. \A i \in 1 .. c - 1 : u[i] # sep
        BY <1>2, <1>3, <3>1
      <4> QED BY <3>1, <4>1 DEF FirstAt
    <3> HIDE DEF c, n
    <3>3. t \in Seq(Alphabet) /\ Len(t) = 0
      BY <1>2, <3>1, FromIs
    <3>4. t = <<>>
      BY <3>3, EmptySeq
    <3>5. Before(u, n) = rest
      <4>1. /\ Before(u, n) \in Seq(Alphabet) /\ Len(Before(u, n)) = n
            /\ \A i \in 1 .. n : Before(u, n)[i] = u[i]
        BY <1>2, <3>1, BeforeIs
      <4>2. \A i \in 1 .. n : Before(u, n)[i] = rest[i]
        BY <1>2, <3>1, <4>1
      <4> QED BY <3>1, <4>1, <4>2, SeqEqual
    <3>6. /\ Follows(P, Reference!Parts(t, sep)) /\ P[1] = Before(u, c - 1)
      <4> HIDE DEF t, sep
      <4>1. t = From(u, c)
        BY DEF t
      <4> QED BY <1>1, <1>2, <3>2, <4>1, PartsBehind
    <3>7. Ending(e, e)
      <4>1. e \in Seq(Alphabet) /\ Len(e) = 0
        BY EmptySeq
      <4> HIDE DEF e
      <4> QED BY <4>1 DEF Ending
    <3>8. PartsLeft(Reference!Parts(t, sep), AfterPart)
      BY <1>3, <3>4, <3>7 DEF PartsLeft
    <3> QED BY <1>3, <3>5, <3>6, <3>8 DEF n
  <2> QED BY <1>2, <2>1, <2>2
<1>4. ASSUME NEW c, FirstAt(rest, sep, 0, c), Part = Before(rest, c - 1),
             AfterPart = From(rest, c)
      PROVE  P[1] = Part /\ \E Q : Follows(P, Q) /\ PartsLeft(Q, AfterPart)
  <2> DEFINE t == From(u, c)
  <2>1. FirstAt(u, sep, 0, c) /\ Before(u, c - 1) = Part /\ Ending(t, AfterPart)
    BY <1>1, <1>4, EndingStep
  <2>2. t = From(u, c)
    OBVIOUS
  <2> HIDE DEF t, sep
  <2>3. Follows(P, Reference!Parts(t, sep)) /\ P[1] = Before(u, c - 1)
    BY <1>1, <1>2, <2>1, <2>2, PartsBehind
  <2>4. PartsLeft(Reference!Parts(t, sep), AfterPart)
    BY <2>1 DEF PartsLeft, sep
  <2> QED BY <2>1, <2>3, <2>4
<1> QED BY <1>3, <1>4, CutIs

(* No more than two parts, all of them empty. *)
Rests(P) == Len(P) <= 2 /\ \A k \in 1 .. Len(P) : P[k] = <<>>

(* Where the text ends, no more than that is left. *)
LEMMA LastParts ==
  ASSUME NEW P, PartsLeft(P, <<>>)
  PROVE  Rests(P)
<1> DEFINE sep == opts.sep
           e == <<>>
           E == <<<<>>>>
<1>1. CASE sep \in Blanks
  <2>1. P = Reference!NotEmpty(E)
    BY <1>1, NoParts DEF PartsLeft
  <2>2. E \in Seq(Seq(Alphabet)) /\ \A k \in 1 .. Len(E) : E[k] = <<>>
    OBVIOUS
  <2> HIDE DEF E
  <2>3. P = <<>>
    BY <2>1, <2>2, NotEmptyNone
  <2> QED BY <2>3 DEF Rests
<1>2. CASE sep \notin Blanks
  <2>1. CASE P = <<>>
    BY <2>1 DEF Rests
  <2>2. ASSUME NEW u, Ending(u, e), P = Reference!Parts(u, sep)
        PROVE  Rests(P)
    <3>1. /\ u \in Seq(Alphabet) /\ Len(e) = 0
          /\ Len(u) = Len(e) \/ (Len(u) = Len(e) + 1 /\ u[Len(u)] = sep)
      BY <2>2 DEF Ending
    <3>2. CASE Len(u) = 0
      <4>1. u = <<>>
        BY <3>1, <3>2, EmptySeq
      <4>2. P = E
        BY <2>2, <4>1, NoParts
      <4> QED BY <4>2 DEF Rests
    <3>3. CASE Len(u) = 1 /\ u[1] = sep
      <4> DEFINE one == 1
                 t == From(u, one)
                 z == 0
                 Q == Reference!Parts(t, sep)
      <4>1. one \in 0 .. Len(u) /\ one = 1 /\ z \in 0 .. Len(u) /\ one - 1 = z /\ z = 0
        BY <3>3
      <4>2. FirstAt(u, sep, 0, one)
        BY <3>3 DEF FirstAt
      <4> HIDE DEF one, z
      <4>3. t \in Seq(Alphabet) /\ Len(t) = Len(u) - one
        BY <3>1, <4>1, FromIs
      <4>4. t = <<>>
        BY <3>3, <4>1, <4>3, EmptySeq
      <4>5. Q = E
        BY <4>4, NoParts
      <4>6. Before(u, z) \in Seq(Alphabet) /\ Len(Before(u, z)) = z
        BY <3>1, <4>1, BeforeIs
      <4>7. Before(u, z) = <<>>
        BY <4>1, <4>6, EmptySeq
      <4>8. t = From(u, one)
        OBVIOUS
      <4> HIDE DEF t, sep
      <4>9. Follows(P, Q) /\ P[1] = Before(u, one - 1)
        BY <2>2, <3>1, <4>2, <4>8, PartsBehind
      <4> HIDE DEF Q
      <4>10. Len(P) = 2 /\ P[1] = <<>> /\ P[2] = <<>>
        <5>1. Len(Q) = 1 /\ Q[1] = <<>>
          BY <4>5
        <5>2. Len(P) = Len(Q) + 1 /\ P[1 + 1] = Q[1]
          BY <4>9, <5>1 DEF Follows
        <5> QED BY <4>1, <4>7, <4>9, <5>1, <5>2
      <4> QED BY <4>10 DEF Rests
    <3> QED BY <3>1, <3>2, <3>3
  <2> QED BY <1>2, <2>1, <2>2 DEF PartsLeft
<1> QED BY <1>1, <1>2

(* An empty part before the end of the text is one of more. *)
LEMMA EmptyParts ==
  ASSUME rest \in Seq(Alphabet), rest # <<>>, opts.sep \notin Blanks, NEW P, PartsLeft(P, rest),
         Part = <<>>
  PROVE  ~Rests(P)
<1> DEFINE sep == opts.sep
<1>1. PICK u : Ending(u, rest) /\ P = Reference!Parts(u, sep)
  BY DEF PartsLeft
<1>2. PICK c : FirstAt(rest, sep, 0, c) /\ Part = Before(rest, c - 1) /\ AfterPart = From(rest, c)
  BY CutIs
<1>3. c = 1 /\ c \in 1 .. Len(rest) /\ rest[1] = sep /\ Len(rest) \in Nat
  <2> DEFINE n == c - 1
  <2>1. c \in 1 .. Len(rest) /\ rest[c] = sep /\ Len(rest) \in Nat
    BY <1>2, LenProperties DEF FirstAt
  <2>2. n \in 0 .. Len(rest)
    BY <2>1
  <2> HIDE DEF n
  <2>3. Len(Before(rest, n)) = n
    BY <2>2, BeforeIs
  <2>4. n = 0
    BY <1>2, <2>3, EmptySeq DEF n
  <2> QED BY <2>1, <2>4 DEF n
<1> DEFINE t == From(u, c)
<1>4. FirstAt(u, sep, 0, c) /\ Ending(t, AfterPart)
  BY <1>1, <1>2, EndingStep
<1>5. u \in Seq(Alphabet) /\ t = From(u, c)
  BY <1>1 DEF Ending
<1>6. t \in Seq(Alphabet) /\ Len(t) \in Nat
  BY <1>4, LenProperties DEF Ending
<1>7. Len(AfterPart) \in Nat /\ Len(t) = Len(u) - c /\ Len(AfterPart) = Len(rest) - c
  <2>1. c \in 0 .. Len(rest) /\ c \in 0 .. Len(u)
    BY <1>3, <1>4, <1>5, LenProperties DEF FirstAt
  <2>2. Len(From(u, c)) = Len(u) - c
    BY <1>5, <2>1, FromIs
  <2>3. AfterPart \in Seq(Alphabet) /\ Len(AfterPart) = Len(rest) - c
    BY <1>2, <2>1, FromIs
  <2> QED BY <2>2, <2>3, LenProperties
<1> HIDE DEF t
<1>13. PICK Q : Q = Reference!Parts(t, sep)
  OBVIOUS
<1>8. Follows(P, Q)
  <2> HIDE DEF sep
  <2> QED BY <1>1, <1>4, <1>5, <1>13, PartsBehind
<1>9. Q \in Seq(Seq(Alphabet)) /\ Len(Q) \in Nat /\ Len(Q) >= 1
  BY <1>6, <1>13, PartsType, LenProperties
<1>10. ASSUME Rests(P) PROVE Len(Q) <= 1 /\ Q[1] = <<>>
  <2>1. Len(P) = Len(Q) + 1 /\ \A k \in 1 .. Len(Q) : P[k + 1] = Q[k]
    BY <1>8 DEF Follows
  <2>2. Len(P) <= 2 /\ \A k \in 1 .. Len(P) : P[k] = <<>>
    BY <1>10 DEF Rests
  <2>3. Len(Q) <= 1 /\ 1 \in 1 .. Len(Q) /\ 1 + 1 \in 1 .. Len(P)
    <3>1. Len(Q) \in Nat /\ Len(Q) >= 1
      BY <1>9
    <3>2. Len(P) = Len(Q) + 1 /\ Len(P) <= 2
      BY <2>1, <2>2
    <3> QED BY ONLY <3>1, <3>2
  <2> QED BY <2>1, <2>2, <2>3
<1>11. CASE \E j \in 1 .. Len(t) : t[j] = sep
  <2>1. Len(Q) >= 2
    BY <1>6, <1>11, <1>13, SepEnds
  <2> QED BY <1>9, <1>10, <2>1
<1>12. CASE \A j \in 1 .. Len(t) : t[j] # sep
  <2>1. Q = <<t>>
    <3> HIDE DEF sep
    <3> QED BY <1>6, <1>12, <1>13, PartsWhole
  <2>2. Len(t) # 0
    <3>1. ASSUME Len(t) = 0 PROVE FALSE
      <4>1. Len(u) = 1 /\ Len(rest) = 1
        BY <1>1, <1>3, <1>4, <1>5, <1>6, <1>7, <3>1, LenProperties DEF Ending
      <4> QED BY <1>1, <1>3, <4>1 DEF Ending
    <3> QED BY <3>1
  <2>3. t # <<>>
    BY <2>2, EmptySeq
  <2> QED BY <1>10, <2>1, <2>3
<1> QED BY <1>11, <1>12

(* What the loop begins with. *)
LEMMA StartParts ==
  ASSUME NEW t \in Seq(Alphabet), t # <<>>
  PROVE  PartsLeft(IF opts.sep \in Blanks
                   THEN Reference!NotEmpty(Reference!Parts(t, opts.sep))
                   ELSE Reference!Parts(t, opts.sep),
                   DropLastSep(t))
<1> DEFINE sep == opts.sep
           n == Len(t) - 1
           r == DropLastSep(t)
<1>1. n \in 0 .. Len(t) /\ Len(t) \in Nat /\ Len(t) = n + 1
  BY LenProperties, EmptySeq
<1>2. r = IF sep \notin Blanks /\ t[Len(t)] = sep THEN Before(t, n) ELSE t
  BY DEF DropLastSep, Last, Front, Before
<1> HIDE DEF n, r
<1>3. CASE sep \in Blanks
  BY <1>2, <1>3 DEF PartsLeft, r
<1>4. CASE sep \notin Blanks
  <2>1. CASE t[Len(t)] = sep
    <3>1. r \in Seq(Alphabet) /\ Len(r) = n /\ \A i \in 1 .. n : r[i] = t[i]
      BY <1>1, <1>2, <1>4, <2>1, BeforeIs
    <3>2. Ending(t, r)
      BY <1>1, <2>1, <3>1 DEF Ending
    <3> QED BY <1>4, <3>2 DEF PartsLeft, r
  <2>2. CASE t[Len(t)] # sep
    <3>1. r = t
      BY <1>2, <2>2
    <3>2. Ending(t, r)
      BY <2>2, <3>1 DEF Ending
    <3> QED BY <1>4, <3>2 DEF PartsLeft, r
  <2> QED BY <2>1, <2>2
<1> QED BY <1>3, <1>4

-----------------------------------------------------------------------------
(* How far the loop has come. *)

LEMMA SameMeanings ==
  ASSUME opts' = opts, NEW part PROVE MeaningsOf(part)' = MeaningsOf(part)
BY DEF MeaningsOf, HeldPairs

LEMMA SameListed == ASSUME opts' = opts, text' = text PROVE Listed' = Listed
BY DEF Listed

LEMMA SameSound == ASSUME opts' = opts, text' = text PROVE Sound' = Sound
BY SameMeanings, SameListed DEF Sound

LEMMA SameReadable == ASSUME opts' = opts, text' = text PROVE Readable' = Readable
BY DEF Readable, Valid

LEMMA SamePartsLeft ==
  ASSUME opts' = opts, NEW P, NEW r PROVE PartsLeft(P, r)' <=> PartsLeft(P, r)
BY DEF PartsLeft, Ending

(* What the first n parts stand for. *)
Flat(n) == FlattenSeq([k \in 1 .. n |-> CHOOSE xs \in MeaningsOf(Listed[k]) : TRUE])

LEMMA SameFlat ==
  ASSUME opts' = opts, text' = text, NEW n PROVE Flat(n)' = Flat(n)
<1>1. \A k : MeaningsOf(Listed[k])' = MeaningsOf(Listed[k])
  BY SameMeanings, SameListed
<1>2. [k \in 1 .. n |-> CHOOSE xs \in MeaningsOf(Listed[k])' : TRUE]
        = [k \in 1 .. n |-> CHOOSE xs \in MeaningsOf(Listed[k]) : TRUE]
  BY <1>1
<1> QED BY <1>2 DEF Flat

LEMMA MeaningsType ==
  ASSUME NEW r \in Seq(Alphabet)
  PROVE  MeaningsOf(r) \subseteq Seq(Int)
<1>1. IntLimit \in Nat \ {0}
  BY LimitsAssumption
<1>2. \A x \in Int : Narrow(x, IntLimit) \in Int
  BY <1>1, NarrowIs
<1>3. ASSUME NEW v \in Singles(r) PROVE v \in Seq(Int)
  <2>1. PICK n \in Reference!Numbers(r) : v = <<Narrow(n, IntLimit)>>
    BY <1>3 DEF Singles
  <2>2. n \in Int
    BY AlphabetIs, NumbersOne
  <2>3. Narrow(n, IntLimit) \in Int
    BY <1>2, <2>2
  <2> QED BY <2>1, <2>3
<1>4. ASSUME NEW v \in Repeats(r) PROVE v \in Seq(Int)
  <2>1. PICK q \in HeldPairs(r, opts.repeat) : IsCount(q[2]) /\ v = Repetition(q[1], q[2])
    BY <1>4 DEF Repeats
  <2> DEFINE x == Narrow(q[1], IntLimit)
             n == Narrow(q[2], IntLimit)
  <2>2. x \in Int /\ n \in Nat
    <3>1. q[1] \in Int /\ q[2] \in Int /\ n > 0
      BY <2>1, HeldInt DEF IsCount
    <3>2. x \in Int /\ n \in Int
      BY <1>2, <3>1
    <3> QED BY <3>1, <3>2
  <2>3. v = [i \in 1 .. n |-> x]
    BY <2>1 DEF Repetition
  <2> HIDE DEF x, n
  <2> QED BY <2>2, <2>3
<1>5. ASSUME NEW v \in Ranges(r) PROVE v \in Seq(Int)
  <2>1. PICK q \in HeldPairs(r, opts.range) : v = Between(q[1], q[2])
    BY <1>5 DEF Ranges
  <2> DEFINE a == Narrow(q[1], IntLimit)
             b == Narrow(q[2], IntLimit)
  <2>2. a \in Int /\ b \in Int
    BY <1>2, <2>1, HeldInt
  <2>3. v = Reference!Interval(a, b)
    BY <2>1 DEF Between
  <2> HIDE DEF a, b
  <2>4. CASE a <= b
    <3>1. v = [i \in 1 .. b - a + 1 |-> a + i - 1] /\ b - a + 1 \in Nat
      BY <2>2, <2>3, <2>4 DEF Reference!Interval
    <3> QED BY <2>2, <3>1
  <2>5. CASE ~(a <= b)
    <3>1. v = [i \in 1 .. a - b + 1 |-> a - i + 1] /\ a - b + 1 \in Nat
      BY <2>2, <2>3, <2>5 DEF Reference!Interval
    <3> QED BY <2>2, <3>1
  <2> QED BY <2>4, <2>5
<1> QED BY <1>3, <1>4, <1>5, MeaningsAre

LEMMA FlatNone == Flat(0) = <<>>
<1>1. [k \in 1 .. 0 |-> CHOOSE xs \in MeaningsOf(Listed[k]) : TRUE] = <<>>
  OBVIOUS
<1> HIDE DEF MeaningsOf, Listed
<1>2. Flat(0) = FlattenSeq(<<>>)
  BY <1>1 DEF Flat
<1>3. Len(<<>>) = 0
  OBVIOUS
<1> QED BY <1>2, <1>3 DEF FlattenSeq

LEMMA FlatStep ==
  ASSUME Listed \in Seq(Seq(Alphabet)), NEW n \in Nat, n + 1 <= Len(Listed),
         \A k \in 1 .. n + 1 : MeaningsOf(Listed[k]) # {},
         NEW x, MeaningsOf(Listed[n + 1]) = {x}
  PROVE  Flat(n + 1) = Flat(n) \o x
<1> DEFINE c == [k \in Nat |-> CHOOSE xs \in MeaningsOf(Listed[k]) : TRUE]
           X == Int
<1>1. ASSUME NEW k \in 1 .. n + 1 PROVE c[k] \in MeaningsOf(Listed[k]) /\ c[k] \in Seq(X)
  <2>1. k \in Nat /\ k \in 1 .. Len(Listed)
    BY LenProperties
  <2>2. Listed[k] \in Seq(Alphabet)
    BY <2>1, ElementOfSeq
  <2>3. c[k] \in MeaningsOf(Listed[k])
    BY <2>1
  <2> HIDE DEF c
  <2> QED BY <2>2, <2>3, MeaningsType
<1>2. c[n + 1] = x
  <2>1. n + 1 \in 1 .. n + 1
    OBVIOUS
  <2> HIDE DEF c
  <2> QED BY <1>1, <2>1
<1>3. /\ Flat(n) = FlattenSeq([k \in 1 .. n |-> c[k]])
      /\ Flat(n + 1) = FlattenSeq([k \in 1 .. n + 1 |-> c[k]])
  <2>1. ASSUME NEW m \in Nat PROVE Flat(m) = FlattenSeq([k \in 1 .. m |-> c[k]])
    <3>1. [k \in 1 .. m |-> CHOOSE xs \in MeaningsOf(Listed[k]) : TRUE]
            = [k \in 1 .. m |-> c[k]]
      OBVIOUS
    <3> HIDE DEF c
    <3> QED BY <3>1 DEF Flat
  <2> HIDE DEF c, Flat
  <2>2. n + 1 \in Nat
    OBVIOUS
  <2> QED BY <2>1, <2>2
<1> HIDE DEF c, X
<1>4. FlattenSeq([k \in 1 .. n + 1 |-> c[k]]) = FlattenSeq([k \in 1 .. n |-> c[k]]) \o c[n + 1]
  BY <1>1, FlattenStep
<1> QED BY <1>2, <1>3, <1>4

(* The first n parts made sense, and P are the others. *)
Consumed(n, P) ==
  /\ n \in Nat /\ P \in Seq(Seq(Alphabet))
  /\ Listed \in Seq(Seq(Alphabet)) /\ Len(Listed) = n + Len(P)
  /\ \A k \in 1 .. Len(P) : Listed[n + k] = P[k]
  /\ \A k \in 1 .. n : MeaningsOf(Listed[k]) # {}
  /\ result = Flat(n)

LEMMA SameConsumed ==
  ASSUME opts' = opts, text' = text, result' = result, NEW n, NEW P, Consumed(n, P)
  PROVE  Consumed(n, P)'
<1>1. Listed' = Listed /\ Flat(n)' = Flat(n)
  BY SameListed, SameFlat
<1>2. \A k : MeaningsOf(Listed[k])' = MeaningsOf(Listed[k])
  BY SameMeanings, SameListed
<1> HIDE DEF Listed, Flat, MeaningsOf
<1> QED BY <1>1, <1>2 DEF Consumed

(* Where the next part makes no sense no more are counted.                  *)
LEMMA SoundIs ==
  ASSUME NEW n, NEW P, Consumed(n, P), Len(P) # 0 => MeaningsOf(P[1]) = {}
  PROVE  Sound = n
<1> DEFINE D == {m \in 0 .. Len(Listed) : \A k \in 1 .. m : MeaningsOf(Listed[k]) # {}}
<1>1. /\ n \in Nat /\ Len(P) \in Nat /\ Len(Listed) = n + Len(P)
      /\ \A k \in 1 .. Len(P) : Listed[n + k] = P[k]
      /\ \A k \in 1 .. n : MeaningsOf(Listed[k]) # {}
  BY LenProperties DEF Consumed
<1>2. n \in D /\ D \in SUBSET Int
  BY <1>1
<1>3. ASSUME NEW m \in D PROVE m <= n
  <2>1. m \in 0 .. Len(Listed) /\ \A k \in 1 .. m : MeaningsOf(Listed[k]) # {}
    OBVIOUS
  <2>2. ASSUME n < m PROVE FALSE
    <3>1. Len(P) # 0 /\ 1 \in 1 .. Len(P) /\ n + 1 \in 1 .. m
      BY <1>1, <2>1, <2>2
    <3>2. MeaningsOf(Listed[n + 1]) = {}
      BY <1>1, <3>1
    <3> QED BY <2>1, <3>1, <3>2
  <2> QED BY <1>1, <2>1, <2>2
<1>4. Sound = Max(D)
  BY DEF Sound
<1> HIDE DEF D
<1>5. Max(D) = n
  BY <1>2, <1>3, MaxIs
<1> QED BY <1>4, <1>5

(* Where an action leaves the arguments alone, what the text says stays.    *)
LEMMA SameMeant == ASSUME opts' = opts, text' = text PROVE Meant' = Flat(Sound)
<1>1. Sound' = Sound /\ \A k : MeaningsOf(Listed[k])' = MeaningsOf(Listed[k])
  BY SameSound, SameMeanings, SameListed
<1> HIDE DEF Sound
<1>2. Meant' = FlattenSeq([k \in 1 .. Sound' |-> CHOOSE xs \in MeaningsOf(Listed[k])' : TRUE])
  BY DEF Meant
<1>3. [k \in 1 .. Sound' |-> CHOOSE xs \in MeaningsOf(Listed[k])' : TRUE]
        = [k \in 1 .. Sound |-> CHOOSE xs \in MeaningsOf(Listed[k]) : TRUE]
  BY <1>1
<1> QED BY <1>2, <1>3 DEF Flat

LEMMA MarksDiffer ==
  Cardinality({opts.sep, opts.repeat, opts.range}) = 3 <=> ~ConfusingMarks
<1> DEFINE a == opts.sep
           b == opts.repeat
           c == opts.range
<1>1. IsFiniteSet({a}) /\ Cardinality({a}) = 1
  BY FS_Singleton
<1>2. /\ IsFiniteSet({a} \cup {b})
      /\ Cardinality({a} \cup {b}) = IF b \in {a} THEN Cardinality({a}) ELSE Cardinality({a}) + 1
  BY <1>1, FS_AddElement
<1>3. Cardinality({a} \cup {b} \cup {c}) = IF c \in {a} \cup {b} THEN Cardinality({a} \cup {b})
                                           ELSE Cardinality({a} \cup {b}) + 1
  BY <1>2, FS_AddElement
<1>4. {a, b, c} = {a} \cup {b} \cup {c}
  OBVIOUS
<1>5. ConfusingMarks <=> b \in {a} \/ c \in {a} \cup {b}
  BY DEF ConfusingMarks
<1> HIDE DEF a, b, c
<1>6. Cardinality({a, b, c}) = 3 <=> ~(b \in {a} \/ c \in {a} \cup {b})
  BY <1>1, <1>2, <1>3, <1>4
<1> QED BY <1>5, <1>6 DEF a, b, c

LEMMA EmptySays == ASSUME opts \in Options PROVE MeaningsOf(<<>>) = {}
<1> DEFINE r == <<>>
           w == Trim(r)
<1>1. r \in Seq(Alphabet) /\ Len(r) = 0
  BY EmptySeq
<1>2. PICK lo, hi : Trimmed(w, r, lo, hi)
  <2> HIDE DEF r
  <2> QED BY <1>1, TrimmedIs
<1>3. Len(w) = 0 /\ w \in Seq(Alphabet)
  <2> HIDE DEF w, r
  <2> QED BY <1>1, <1>2 DEF Trimmed, Inside, Window
<1>4. w = <<>>
  <2> HIDE DEF w
  <2> QED BY <1>3, EmptySeq
<1> HIDE DEF r, w
<1>5. MeaningsOf(r) = {}
  BY <1>1, <1>2, <1>4, BlankSays
<1> QED BY <1>5 DEF r

(* What is behind the sound parts, P, decides whether the text is accepted. *)
LEMMA OverIs ==
  ASSUME NEW n, NEW P, Consumed(n, P), NEW over, over = SubSeq(Listed, n + 1, Len(Listed))
  PROVE  Rests(P) <=> Len(over) <= 2 /\ \A k \in DOMAIN over : over[k] = <<>>
<1> DEFINE first == n + 1
           last == Len(Listed)
<1>1. /\ n \in Nat /\ Len(P) \in Nat /\ last \in Nat /\ last = n + Len(P)
      /\ Listed \in Seq(Seq(Alphabet))
      /\ \A k \in 1 .. Len(P) : Listed[n + k] = P[k]
  BY LenProperties DEF Consumed
<1>2. first \in Nat \ {0} /\ last \in 0 .. Len(Listed) /\ first <= last + 1 /\ first = n + 1
      /\ over = SubSeq(Listed, first, last)
  BY <1>1
<1> HIDE DEF first, last, Listed
<1>3. /\ over \in Seq(Seq(Alphabet)) /\ Len(over) = last - first + 1
      /\ \A i \in 1 .. last - first + 1 : over[i] = Listed[first + i - 1]
  <2>1. PICK L : L = Listed
    OBVIOUS
  <2>2. PICK a, b : a = first /\ b = last
    OBVIOUS
  <2>3. a \in Nat \ {0} /\ b \in 0 .. Len(L) /\ a <= b + 1
    BY <1>2, <2>1, <2>2
  <2>4. L \in Seq(Seq(Alphabet)) /\ over = SubSeq(L, a, b)
    BY <1>1, <1>2, <2>1, <2>2
  <2>5. /\ over \in Seq(Seq(Alphabet)) /\ Len(over) = b - a + 1
        /\ \A i \in 1 .. b - a + 1 : over[i] = L[a + i - 1]
    BY ONLY <2>3, <2>4, SliceIs
  <2> QED BY <2>1, <2>2, <2>5
<1>4. Len(over) = Len(P) /\ DOMAIN over = 1 .. Len(P)
  BY <1>1, <1>2, <1>3, LenProperties
<1>5. ASSUME NEW i \in 1 .. Len(P) PROVE over[i] = P[i]
  <2>1. i \in 1 .. last - first + 1 /\ first + i - 1 = n + i
    BY <1>1, <1>2
  <2> QED BY <1>1, <1>3, <2>1
<1> QED BY <1>4, <1>5 DEF Rests

LEMMA ReturnIs ==
  ASSUME Readable, NEW n, NEW P, Consumed(n, P), Len(P) # 0 => MeaningsOf(P[1]) = {},
         NEW code, Return(code), code = "ok" <=> Rests(P)
  PROVE  ReturnsWhatIsMeant' /\ AcceptsLists'
<1>1. /\ at' = "done" /\ err' = code /\ opts' = opts /\ text' = text /\ result' = result
  BY DEF Return
<1>2. Sound = n
  BY SoundIs
<1>3. Readable' /\ Listed' = Listed /\ Sound' = n /\ Meant' = Flat(n)
  BY <1>1, <1>2, SameReadable, SameListed, SameSound, SameMeant
<1>4. result = Flat(n)
  BY DEF Consumed
<1> DEFINE over == SubSeq(Listed, n + 1, Len(Listed))
<1>5. Rests(P) <=> Len(over) <= 2 /\ \A k \in DOMAIN over : over[k] = <<>>
  BY OverIs
<1> HIDE DEF Listed, Sound, Meant, Flat, Readable
<1>6. ReturnsWhatIsMeant'
  BY <1>1, <1>3, <1>4 DEF ReturnsWhatIsMeant
<1>7. AcceptsLists'
  BY <1>1, <1>3, <1>5 DEF AcceptsLists
<1> QED BY <1>6, <1>7

-----------------------------------------------------------------------------
(* In the loop the elements are those of the parts before the rest.         *)
ListInv ==
  /\ text \in Texts /\ opts \in Options
  /\ at = "start" => result = <<>> /\ err = "ok"
  /\ at = "loop" => /\ text \in Seq(Alphabet) /\ Readable /\ err = "ok"
                    /\ \E n, P : Consumed(n, P) /\ PartsLeft(P, rest)
  /\ ReturnsWhatIsMeant /\ AcceptsLists

LEMMA ListInvInit == Init => ListInv
BY DEF Init, ListInv, ReturnsWhatIsMeant, AcceptsLists

(* A return ends the loop, and the arguments are as they were.              *)
LEMMA ReturnKeeps ==
  ASSUME ListInv, NEW code, Return(code), ReturnsWhatIsMeant' /\ AcceptsLists'
  PROVE  ListInv'
BY DEF ListInv, Return

(* The parts before the loop: none is read yet. *)
LEMMA Unread ==
  ASSUME Readable, text \in Seq(Alphabet), result = <<>>
  PROVE  /\ Consumed(0, Listed)
         /\ Listed = IF opts.sep \in Blanks
                     THEN Reference!NotEmpty(Reference!Parts(Trim(text), opts.sep))
                     ELSE Reference!Parts(Trim(text), opts.sep)
         /\ Trim(text) \in Seq(Alphabet)
<1> DEFINE t == Trim(text)
<1>1. t = Reference!Core(text)
  BY AlphabetIs, TrimIsCore
<1>2. t \in Seq(Alphabet)
  <2>1. PICK lo, hi : Trimmed(t, text, lo, hi)
    BY TrimmedIs
  <2> QED BY <2>1 DEF Trimmed
<1> HIDE DEF t
<1>3. Listed = IF opts.sep \in Blanks THEN Reference!NotEmpty(Reference!Parts(t, opts.sep))
               ELSE Reference!Parts(t, opts.sep)
  BY <1>1 DEF Listed
<1>4. Reference!Parts(t, opts.sep) \in Seq(Seq(Alphabet))
  BY <1>2, PartsType
<1>5. Listed \in Seq(Seq(Alphabet))
  BY <1>3, <1>4, NotEmptyType
<1> HIDE DEF Listed
<1>6. Consumed(0, Listed)
  <2>1. Len(Listed) \in Nat
    BY <1>5, LenProperties
  <2>2. result = Flat(0)
    BY FlatNone
  <2> QED BY <1>5, <2>1, <2>2 DEF Consumed
<1> QED BY <1>2, <1>3, <1>6 DEF t

(* In the loop it is enough to know which parts are left of what is left.   *)
LEMMA LoopGoesOn ==
  ASSUME text \in Texts, opts \in Options, text \in Seq(Alphabet), Readable, err = "ok",
         opts' = opts, text' = text, err' = err, at' = "loop",
         NEW n, NEW P, NEW r, Consumed(n, P)', PartsLeft(P, r), rest' = r
  PROVE  ListInv'
<1>1. Readable' /\ PartsLeft(P, r)'
  BY SameReadable, SamePartsLeft
<1>2. PartsLeft(P, rest)'
  BY <1>1 DEF PartsLeft
<1> HIDE DEF Consumed, PartsLeft, Readable
<1>3. (\E m, Q : Consumed(m, Q) /\ PartsLeft(Q, rest))'
  BY <1>2
<1> QED BY <1>1, <1>3 DEF ListInv, ReturnsWhatIsMeant, AcceptsLists

LEMMA ListStartNothing ==
  ASSUME ListInv, StartNothing
  PROVE  ListInv'
<1>1. /\ text \in Texts /\ opts \in Options /\ at = "start" /\ result = <<>>
  BY DEF ListInv, StartNothing
<1>2. ASSUME NEW code, Return(code), ~Readable, code # "ok"
      PROVE  ListInv'
  <2>1. at' = "done" /\ err' = code /\ opts' = opts /\ text' = text /\ result' = <<>>
    BY <1>1, <1>2 DEF Return
  <2>2. ~Readable'
    BY <1>2, <2>1, SameReadable
  <2>3. ReturnsWhatIsMeant' /\ AcceptsLists'
    BY <1>2, <2>1, <2>2 DEF ReturnsWhatIsMeant, AcceptsLists
  <2> QED BY <1>2, <2>3, ReturnKeeps
<1>3. CASE ~Valid(text) /\ Return("EADDRNOTAVAIL")
  BY <1>2, <1>3 DEF Readable
<1>4. CASE Valid(text) /\ ConfusingMarks /\ Return("EINVAL")
  BY <1>2, <1>4, MarksDiffer DEF Readable
<1>5. CASE Valid(text) /\ ~ConfusingMarks /\ Trim(text) = <<>> /\ Return("ok")
  <2> DEFINE P == Listed
             e == <<>>
             z == 0
  <2>1. Readable /\ text \in Seq(Alphabet)
    BY <1>1, <1>5, MarksDiffer, TextsAssumption DEF Readable, Valid
  <2>2. Consumed(z, P) /\ P = IF opts.sep \in Blanks
                              THEN Reference!NotEmpty(Reference!Parts(e, opts.sep))
                              ELSE Reference!Parts(e, opts.sep)
    BY <1>1, <1>5, <2>1, Unread
  <2>3. e \in Seq(Alphabet) /\ Ending(e, e)
    <3>1. e \in Seq(Alphabet) /\ Len(e) = 0
      BY EmptySeq
    <3> HIDE DEF e
    <3> QED BY <3>1 DEF Ending
  <2> HIDE DEF P
  <2>4. PartsLeft(P, e)
    BY <2>2, <2>3 DEF PartsLeft
  <2>5. Rests(P)
    BY <2>4, LastParts
  <2>6. Len(P) # 0 => MeaningsOf(P[1]) = {}
    <3>1. ASSUME Len(P) # 0 PROVE P[1] = <<>>
      <4>1. Len(P) \in Nat
        BY <2>2, LenProperties DEF Consumed
      <4> QED BY <2>5, <3>1, <4>1 DEF Rests
    <3> QED BY <1>1, <3>1, EmptySays
  <2> HIDE DEF z, e
  <2>7. ReturnsWhatIsMeant' /\ AcceptsLists'
    <3> DEFINE code == "ok"
    <3>1. Return(code) /\ (code = "ok" <=> Rests(P))
      BY <1>5, <2>5
    <3> HIDE DEF code
    <3> QED BY <2>1, <2>2, <2>6, <3>1, ReturnIs
  <2> QED BY <1>5, <2>7, ReturnKeeps
<1> QED BY <1>3, <1>4, <1>5 DEF StartNothing

LEMMA ListStartLoop ==
  ASSUME ListInv, StartLoop
  PROVE  ListInv'
<1> DEFINE P == Listed
           z == 0
           t == Trim(text)
           r == DropLastSep(t)
<1>1. /\ text \in Texts /\ opts \in Options /\ at = "start" /\ result = <<>> /\ err = "ok"
      /\ Valid(text) /\ ~ConfusingMarks /\ t # <<>> /\ at' = "loop"
      /\ rest' = r /\ text' = text /\ opts' = opts /\ result' = result /\ err' = err
  BY DEF ListInv, StartLoop
<1>2. Readable /\ text \in Seq(Alphabet)
  BY <1>1, MarksDiffer, TextsAssumption DEF Readable, Valid
<1>3. /\ Consumed(z, P) /\ t \in Seq(Alphabet)
      /\ P = IF opts.sep \in Blanks THEN Reference!NotEmpty(Reference!Parts(t, opts.sep))
             ELSE Reference!Parts(t, opts.sep)
  BY <1>1, <1>2, Unread
<1> HIDE DEF P, z, t
<1>4. PartsLeft(P, r)
  BY <1>1, <1>3, StartParts
<1> HIDE DEF r
<1>5. PICK n, Q, q : Consumed(n, Q) /\ PartsLeft(Q, q) /\ rest' = q
  BY <1>1, <1>3, <1>4
<1>6. Consumed(n, Q)'
  BY <1>1, <1>5, SameConsumed
<1> QED BY <1>1, <1>2, <1>5, <1>6, LoopGoesOn

(* In the loop, and with characters left or not. *)
LEMMA InLoop ==
  ASSUME ListInv, at = "loop"
  PROVE  /\ text \in Texts /\ opts \in Options /\ text \in Seq(Alphabet) /\ Readable /\ err = "ok"
         /\ opts.range # opts.repeat
         /\ \E n, P : Consumed(n, P) /\ PartsLeft(P, rest)
         /\ rest \in Seq(Alphabet)
<1>1. /\ text \in Texts /\ opts \in Options /\ text \in Seq(Alphabet) /\ Readable /\ err = "ok"
      /\ \E n, P : Consumed(n, P) /\ PartsLeft(P, rest)
  BY DEF ListInv
<1>2. rest \in Seq(Alphabet)
  BY <1>1, PartsLeftType
<1>3. opts.range # opts.repeat
  BY <1>1, MarksDiffer DEF Readable, ConfusingMarks
<1> QED BY <1>1, <1>2, <1>3

(* The splitter hands out characters of what is left. *)
LEMMA PartInside ==
  ASSUME rest \in Seq(Alphabet)
  PROVE  Part \in Seq(Alphabet) /\ (rest = <<>> => Part = <<>>)
<1>1. CASE Part = rest
  BY <1>1
<1>2. ASSUME NEW c, FirstAt(rest, opts.sep, 0, c), Part = Before(rest, c - 1)
      PROVE  Part \in Seq(Alphabet) /\ rest # <<>>
  <2> DEFINE n == c - 1
  <2>1. c \in 1 .. Len(rest) /\ Len(rest) \in Nat
    BY <1>2, LenProperties DEF FirstAt
  <2>2. n \in 0 .. Len(rest) /\ rest # <<>>
    BY <2>1, EmptySeq
  <2> HIDE DEF n
  <2>3. Before(rest, n) \in Seq(Alphabet)
    BY <2>2, BeforeIs
  <2> QED BY <1>2, <2>2, <2>3 DEF n
<1> QED BY <1>1, <1>2, CutIs

(* The next part of the rest is the first of those that are left.           *)
LEMMA NextLeft ==
  ASSUME rest \in Seq(Alphabet), NEW P, PartsLeft(P, rest), Part # <<>>
  PROVE  P[1] = Part /\ \E Q : Follows(P, Q) /\ PartsLeft(Q, AfterPart)
BY PartInside, NextPart, BlankNextPart

LEMMA ListSkipBlanks ==
  ASSUME ListInv, SkipBlanks
  PROVE  ListInv'
<1> DEFINE q == From(AfterPart, Leading(AfterPart, {opts.sep}))
<1>1. /\ at = "loop" /\ rest # <<>> /\ Part = <<>> /\ opts.sep \in Blanks /\ rest' = q
      /\ text' = text /\ opts' = opts /\ result' = result /\ err' = err /\ at' = "loop"
  BY DEF SkipBlanks
<1>2. PICK n, P : Consumed(n, P) /\ PartsLeft(P, rest)
  BY <1>1, InLoop
<1>3. PartsLeft(P, q)
  BY <1>1, <1>2, InLoop, BlankSkip
<1> HIDE DEF q
<1>4. PICK r : PartsLeft(P, r) /\ rest' = r
  BY <1>1, <1>3
<1>5. Consumed(n, P)'
  BY <1>1, <1>2, SameConsumed
<1> QED BY <1>1, <1>4, <1>5, InLoop, LoopGoesOn

(* Where the loop is left, the next part makes no sense or there is none.   *)
LEMMA LoopReturns ==
  ASSUME ListInv, at = "loop", NEW code, Return(code), NEW n, NEW P, Consumed(n, P),
         Len(P) # 0 => MeaningsOf(P[1]) = {}, code = "ok" <=> Rests(P)
  PROVE  ListInv'
<1>1. ReturnsWhatIsMeant' /\ AcceptsLists'
  BY InLoop, ReturnIs
<1> QED BY <1>1, ReturnKeeps

LEMMA ListEmptyPart ==
  ASSUME ListInv, EmptyPart
  PROVE  ListInv'
<1>1. /\ at = "loop" /\ rest # <<>> /\ Part = <<>> /\ opts.sep \notin Blanks
      /\ Return("EILSEQ")
  BY DEF EmptyPart
<1>2. PICK n, P : Consumed(n, P) /\ PartsLeft(P, rest)
  BY <1>1, InLoop
<1>3. P[1] = <<>> /\ ~Rests(P)
  BY <1>1, <1>2, InLoop, NextPart, EmptyParts
<1>4. MeaningsOf(P[1]) = {}
  BY <1>1, <1>3, InLoop, EmptySays
<1> DEFINE code == "EILSEQ"
<1>5. Return(code) /\ (code = "ok" <=> Rests(P))
  BY <1>1, <1>3
<1> HIDE DEF code
<1> QED BY <1>1, <1>2, <1>4, <1>5, LoopReturns

LEMMA ListBadPart ==
  ASSUME ListInv, BadPart
  PROVE  ListInv'
<1> DEFINE code == Element(Part).err
<1>1. at = "loop" /\ Part # <<>> /\ code # "ok" /\ Return(code)
  BY DEF BadPart
<1>2. PICK n, P : Consumed(n, P) /\ PartsLeft(P, rest)
  BY <1>1, InLoop
<1>3. P[1] = Part /\ Len(P) # 0
  <2>1. PICK Q : P[1] = Part /\ Follows(P, Q) /\ PartsLeft(Q, AfterPart)
    BY <1>1, <1>2, InLoop, NextLeft
  <2>2. Q \in Seq(Seq(Alphabet))
    BY <2>1, PartsLeftType
  <2>3. Len(Q) \in Nat
    BY <2>2, LenProperties
  <2> QED BY <2>1, <2>3 DEF Follows
<1>4. Says(Element(Part), MeaningsOf(Part))
  BY <1>1, InLoop, PartInside, ElementSays
<1>5. MeaningsOf(P[1]) = {}
  BY <1>1, <1>3, <1>4 DEF Says
<1>6. ~Rests(P)
  <2>1. Len(P) \in Nat
    BY <1>2, LenProperties DEF Consumed
  <2>2. 1 \in 1 .. Len(P)
    BY <1>3, <2>1
  <2> QED BY <1>1, <1>3, <2>2 DEF Rests
<1>7. PICK c : Return(c) /\ c # "ok"
  <2> HIDE DEF code
  <2> QED BY <1>1
<1> QED BY <1>1, <1>2, <1>5, <1>6, <1>7, LoopReturns

LEMMA ListFinish ==
  ASSUME ListInv, Finish
  PROVE  ListInv'
<1>1. at = "loop" /\ rest = <<>> /\ Return("ok")
  BY DEF Finish
<1>2. PICK n, P : Consumed(n, P) /\ PartsLeft(P, rest)
  BY <1>1, InLoop
<1>3. Rests(P)
  BY <1>1, <1>2, LastParts
<1>4. Len(P) # 0 => MeaningsOf(P[1]) = {}
  <2>1. ASSUME Len(P) # 0 PROVE P[1] = <<>>
    <3>1. Len(P) \in Nat
      BY <1>2, LenProperties DEF Consumed
    <3> QED BY <1>3, <2>1, <3>1 DEF Rests
  <2> QED BY <1>1, <2>1, InLoop, EmptySays
<1> DEFINE code == "ok"
<1>5. Return(code) /\ (code = "ok" <=> Rests(P))
  BY <1>1, <1>3
<1> HIDE DEF code
<1> QED BY <1>1, <1>2, <1>4, <1>5, LoopReturns

(* A part that makes sense is one more. *)
LEMMA OneMore ==
  ASSUME opts' = opts, text' = text, NEW n, NEW P, NEW Q, Consumed(n, P), Follows(P, Q),
         Q \in Seq(Seq(Alphabet)), NEW x, MeaningsOf(P[1]) = {x}, result' = result \o x
  PROVE  Consumed(n + 1, Q)'
<1>1. /\ n \in Nat /\ P \in Seq(Seq(Alphabet)) /\ Len(P) \in Nat /\ Len(Q) \in Nat
      /\ Listed \in Seq(Seq(Alphabet)) /\ Len(Listed) = n + Len(P)
      /\ \A k \in 1 .. Len(P) : Listed[n + k] = P[k]
      /\ \A k \in 1 .. n : MeaningsOf(Listed[k]) # {}
      /\ result = Flat(n)
  BY LenProperties DEF Consumed
<1>2. Len(P) = Len(Q) + 1 /\ \A k \in 1 .. Len(Q) : P[k + 1] = Q[k]
  BY DEF Follows
<1> DEFINE m == n + 1
<1>3. m \in Nat /\ m <= Len(Listed) /\ Len(Listed) = m + Len(Q) /\ m = n + 1
  BY <1>1, <1>2
<1>4. Listed[n + 1] = P[1]
  BY <1>1, <1>2
<1>5. \A k \in 1 .. Len(Q) : Listed[m + k] = Q[k]
  <2>1. ASSUME NEW k \in 1 .. Len(Q) PROVE Listed[m + k] = Q[k]
    <3>1. k + 1 \in 1 .. Len(P) /\ n + (k + 1) = m + k
      BY <1>1, <1>2, <1>3
    <3> QED BY <1>1, <1>2, <3>1
  <2> QED BY <2>1
<1>6. \A k \in 1 .. n + 1 : MeaningsOf(Listed[k]) # {}
  <2>1. ASSUME NEW k \in 1 .. n + 1 PROVE k \in 1 .. n \/ k = n + 1
    BY <1>1
  <2> QED BY <1>1, <1>4, <2>1
<1>7. Flat(n + 1) = Flat(n) \o x
  <2> HIDE DEF m, Listed, MeaningsOf, Flat
  <2> QED BY <1>1, <1>3, <1>4, <1>6, FlatStep
<1>8. Listed' = Listed /\ Flat(m)' = Flat(m)
  BY SameListed, SameFlat
<1>9. \A k : MeaningsOf(Listed[k])' = MeaningsOf(Listed[k])
  BY SameMeanings, SameListed
<1> HIDE DEF m, Listed, MeaningsOf, Flat
<1>10. Consumed(m, Q)'
  BY <1>1, <1>3, <1>5, <1>6, <1>7, <1>8, <1>9 DEF Consumed
<1> QED BY <1>10 DEF m

LEMMA ListGoodPart ==
  ASSUME ListInv, GoodPart
  PROVE  ListInv'
<1> DEFINE e == Element(Part)
<1>1. /\ at = "loop" /\ Part # <<>> /\ e.err = "ok" /\ result' = result \o e.items
      /\ rest' = AfterPart
      /\ text' = text /\ opts' = opts /\ err' = err /\ at' = "loop"
  BY DEF GoodPart
<1>2. PICK n, P : Consumed(n, P) /\ PartsLeft(P, rest)
  BY <1>1, InLoop
<1>3. PICK Q : P[1] = Part /\ Follows(P, Q) /\ PartsLeft(Q, AfterPart)
  BY <1>1, <1>2, InLoop, NextLeft
<1>4. Q \in Seq(Seq(Alphabet))
  BY <1>3, PartsLeftType
<1>5. Says(e, MeaningsOf(Part))
  BY <1>1, InLoop, PartInside, ElementSays
<1> HIDE DEF e
<1>6. PICK x : MeaningsOf(P[1]) = {x} /\ result' = result \o x
  BY <1>1, <1>3, <1>5 DEF Says
<1>7. Consumed(n + 1, Q)'
  BY <1>1, <1>2, <1>3, <1>4, <1>6, OneMore
<1>8. PICK r : PartsLeft(Q, r) /\ rest' = r
  BY <1>1, <1>3
<1>9. PICK m : Consumed(m, Q)'
  BY <1>7
<1> QED BY <1>1, <1>8, <1>9, InLoop, LoopGoesOn

LEMMA ListInvStep == ListInv /\ [Next]_vars => ListInv'
<1> SUFFICES ASSUME ListInv, [Next]_vars PROVE ListInv'
  OBVIOUS
<1>1. CASE UNCHANGED vars
  <2>1. /\ text' = text /\ opts' = opts /\ rest' = rest /\ result' = result /\ err' = err
        /\ at' = at
    BY <1>1 DEF vars
  <2>2. ASSUME at = "loop" PROVE ListInv'
    <3>1. PICK n, P : Consumed(n, P) /\ PartsLeft(P, rest)
      BY <2>2, InLoop
    <3>2. Consumed(n, P)'
      BY <2>1, <3>1, SameConsumed
    <3>3. PICK r : PartsLeft(P, r) /\ rest' = r
      BY <2>1, <3>1
    <3> QED BY <2>1, <2>2, <3>2, <3>3, InLoop, LoopGoesOn
  <2>3. ASSUME at # "loop" PROVE ListInv'
    <3>1. Readable' = Readable /\ Listed' = Listed /\ Sound' = Sound /\ Meant' = Meant
      BY <2>1, SameReadable, SameListed, SameSound, SameMeant DEF Meant, Flat
    <3> HIDE DEF Readable, Listed, Sound, Meant
    <3>2. ReturnsWhatIsMeant' /\ AcceptsLists'
      BY <2>1, <3>1 DEF ListInv, ReturnsWhatIsMeant, AcceptsLists
    <3> QED BY <2>1, <2>3, <3>2 DEF ListInv
  <2> QED BY <2>2, <2>3
<1> QED BY <1>1, ListStartNothing, ListStartLoop, ListSkipBlanks, ListEmptyPart, ListBadPart,
           ListGoodPart, ListFinish DEF Next

(* What is returned are the elements of all parts up to the first that      *)
(* makes no sense, no more and no fewer, whether or not there is an error:  *)
(* "Returns partial result if error" (conversion.h:71, 296-385), for every  *)
(* text, separator and marks.                                               *)
THEOREM ReturnsMeaning == Spec => []ReturnsWhatIsMeant
<1>1. ListInv => ReturnsWhatIsMeant
  BY DEF ListInv
<1> QED BY <1>1, ListInvInit, ListInvStep, PTL DEF Spec

(* A text is accepted exactly when all its parts make sense, with up to two *)
(* separators behind them (conversion.h:191, 308, 313-385).                 *)
THEOREM AcceptsExactly == Spec => []AcceptsLists
<1>1. ListInv => AcceptsLists
  BY DEF ListInv
<1> QED BY <1>1, ListInvInit, ListInvStep, PTL DEF Spec
=============================================================================
