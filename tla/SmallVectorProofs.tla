-------------------------- MODULE SmallVectorProofs --------------------------
(***************************************************************************)
(* The storage of SmallVector is in order after every call, whatever throws *)
(* on the way, and SmallVector implements VectorContract: proved for any    *)
(* number of vectors, any inline capacities, element types and sizes.       *)
(*                                                                         *)
(* First come lemmas that say what the operators do to a memory, then for   *)
(* every member function one that says how its calls may end.               *)
(***************************************************************************)
EXTENDS SmallVectorImplements, TLAPS, SequenceTheorems, FiniteSetTheorems

-----------------------------------------------------------------------------
(* What a memory in good order is, and what the operators of SmallVector,   *)
(* which take a memory and give a memory, do to a good one: from single     *)
(* cells to member functions.                                               *)

MemoryType ==
  [vec   : [AllVectors -> [begin : Blocks, size : Nat, capacity : Nat]],
   cells : [Blocks -> Seq(Cells)],
   alive : Int]

(* The elements that were constructed and not destroyed are counted.        *)
Balanced(m) ==
  /\ IsFiniteSet(LiveCells(m.cells))
  /\ m.alive = Cardinality(LiveCells(m.cells))

(* The storage of one vector: its own, or a block of the heap that is not   *)
(* empty; elements in front, raw cells behind; inline storage not in use    *)
(* is raw.                                                                  *)
VectorOK(m, v) ==
  LET x == m.vec[v]
  IN  /\ x.begin \in Heap \cup {v}
      /\ x.capacity = Len(m.cells[x.begin]) /\ x.capacity > 0
      /\ x.size <= x.capacity
      /\ \A i \in 1 .. x.capacity : m.cells[x.begin][i] # Raw <=> i <= x.size
      /\ Len(m.cells[v]) = N[v]
      /\ x.begin # v => \A i \in 1 .. N[v] : m.cells[v][i] = Raw

Layout(m) ==
  /\ \A v \in AllVectors : VectorOK(m, v)
  /\ \A v, u \in AllVectors : m.vec[v].begin = m.vec[u].begin => v = u
  /\ \A b \in Heap : m.cells[b] # <<>> => \E v \in AllVectors : m.vec[v].begin = b

Good(m) == m \in MemoryType /\ Layout(m) /\ Balanced(m)

(* Nothing has happened to the vectors but those of V. *)
Keeps(m, r, V) ==
  \A w \in AllVectors \ V :
    r.vec[w] = m.vec[w] /\ Elements(r, w) = Elements(m, w)

(* The cells that hold elements, as values *)
Objects == Cells \ {Raw}

(* The first k elements of s have been moved from. *)
MovedFrom(s, k) == [i \in DOMAIN s |-> IF i <= k THEN Moved ELSE s[i]]

-----------------------------------------------------------------------------
(* Cells. *)

LEMMA IsSequence ==
  ASSUME NEW S, NEW n \in Nat, NEW f \in [1 .. n -> S]
  PROVE  f \in Seq(S) /\ Len(f) = n /\ DOMAIN f = 1 .. n
<1>1. f \in Seq(S)
  BY SeqDef
<1>2. DOMAIN f = 1 .. n
  OBVIOUS
<1> QED BY <1>1, <1>2, LenProperties

(* The cells of block b are rewritten: c is m but for them and the count.   *)
Rewrites(m, c, b, f) ==
  /\ c \in MemoryType /\ c.vec = m.vec
  /\ \A a \in Blocks : a # b => c.cells[a] = m.cells[a]
  /\ c.cells[b] = f

LEMMA RewriteEffect ==
  ASSUME NEW m \in MemoryType, NEW b \in Blocks, NEW f \in Seq(Cells), NEW n \in Int
  PROVE  /\ Rewrites(m, [m EXCEPT !.cells[b] = f, !.alive = n], b, f)
         /\ [m EXCEPT !.cells[b] = f, !.alive = n].alive = n
         /\ Rewrites(m, [m EXCEPT !.cells[b] = f], b, f)
         /\ [m EXCEPT !.cells[b] = f].alive = m.alive
BY DEF MemoryType, Rewrites

LEMMA CellsType ==
  ASSUME NEW m \in MemoryType, NEW b \in Blocks
  PROVE  /\ m.cells[b] \in Seq(Cells) /\ Len(m.cells[b]) \in Nat
         /\ DOMAIN m.cells[b] = 1 .. Len(m.cells[b]) /\ m.alive \in Int
         /\ \A i \in 1 .. Len(m.cells[b]) : m.cells[b][i] \in Cells
BY LenProperties, ElementOfSeq DEF MemoryType

(* c is m after a change of block b that leaves the cells f there.          *)
Constructed(m, c, b, k, xs) ==
  \E f \in Seq(Cells) :
    /\ Rewrites(m, c, b, f) /\ c.alive = m.alive + Len(xs)
    /\ Len(f) = Len(m.cells[b])
    /\ \A i \in 1 .. Len(f) :
         f[i] = IF i \in k + 1 .. k + Len(xs) THEN xs[i - k] ELSE m.cells[b][i]

Destroyed(m, c, b, k, n) ==
  \E f \in Seq(Cells) :
    /\ Rewrites(m, c, b, f) /\ c.alive = m.alive - n
    /\ Len(f) = Len(m.cells[b])
    /\ \A i \in 1 .. Len(f) : f[i] = IF i \in k + 1 .. k + n THEN Raw ELSE m.cells[b][i]

MovedOut(m, c, b, n) ==
  \E f \in Seq(Cells) :
    /\ Rewrites(m, c, b, f) /\ c.alive = m.alive
    /\ Len(f) = Len(m.cells[b])
    /\ \A i \in 1 .. Len(f) : f[i] = IF i <= n THEN Moved ELSE m.cells[b][i]

LEMMA ConstructEffect ==
  ASSUME NEW m \in MemoryType, NEW b \in Blocks, NEW k \in Nat, NEW xs \in Seq(Cells)
  PROVE  Constructed(m, Construct(m, b, k, xs), b, k, xs)
<1> DEFINE old == m.cells[b]
           f == [i \in DOMAIN old |-> IF i \in k + 1 .. k + Len(xs)
                                      THEN xs[i - k] ELSE old[i]]
<1>1. old \in Seq(Cells) /\ DOMAIN old = 1 .. Len(old) /\ Len(old) \in Nat
      /\ Len(xs) \in Nat /\ m.alive \in Int
  BY CellsType, LenProperties
<1>2. ASSUME NEW i \in 1 .. Len(old) PROVE f[i] \in Cells
  BY <1>1, <1>2, ElementOfSeq
<1>3. f \in [1 .. Len(old) -> Cells]
  BY <1>1, <1>2
<1>4. f \in Seq(Cells) /\ Len(f) = Len(old)
  BY <1>1, <1>3, IsSequence
<1>5. Construct(m, b, k, xs) = [m EXCEPT !.cells[b] = f, !.alive = m.alive + Len(xs)]
  BY DEF Construct, MemoryType
<1>6. \A i \in 1 .. Len(f) :
        f[i] = IF i \in k + 1 .. k + Len(xs) THEN xs[i - k] ELSE old[i]
  BY <1>1, <1>4
<1> HIDE DEF f
<1>7. m.alive + Len(xs) \in Int
  BY <1>1
<1>8. /\ Rewrites(m, Construct(m, b, k, xs), b, f)
      /\ Construct(m, b, k, xs).alive = m.alive + Len(xs)
  BY <1>4, <1>5, <1>7 DEF MemoryType, Rewrites
<1> QED BY <1>4, <1>6, <1>8 DEF Constructed

LEMMA DestroyEffect ==
  ASSUME NEW m \in MemoryType, NEW b \in Blocks, NEW k \in Nat, NEW n \in Nat
  PROVE  Destroyed(m, DestroyRange(m, b, k, n), b, k, n)
<1> DEFINE old == m.cells[b]
           f == [i \in DOMAIN old |-> IF i \in k + 1 .. k + n THEN Raw ELSE old[i]]
<1>1. old \in Seq(Cells) /\ DOMAIN old = 1 .. Len(old) /\ Len(old) \in Nat
      /\ m.alive \in Int /\ \A i \in 1 .. Len(old) : old[i] \in Cells
  BY CellsType
<1>3. f \in [1 .. Len(old) -> Cells]
  BY <1>1 DEF Cells
<1>4. f \in Seq(Cells) /\ Len(f) = Len(old)
  BY <1>1, <1>3, IsSequence
<1>5. DestroyRange(m, b, k, n) = [m EXCEPT !.cells[b] = f, !.alive = m.alive - n]
  BY DEF DestroyRange, MemoryType
<1>6. \A i \in 1 .. Len(f) :
        f[i] = IF i \in k + 1 .. k + n THEN Raw ELSE old[i]
  BY <1>1, <1>4
<1> HIDE DEF f
<1>7. m.alive - n \in Int
  BY <1>1
<1>8. /\ Rewrites(m, DestroyRange(m, b, k, n), b, f)
      /\ DestroyRange(m, b, k, n).alive = m.alive - n
  BY <1>4, <1>5, <1>7 DEF MemoryType, Rewrites
<1> QED BY <1>4, <1>6, <1>8 DEF Destroyed

LEMMA MoveOutEffect ==
  ASSUME NEW m \in MemoryType, NEW b \in Blocks, NEW n \in Nat
  PROVE  MovedOut(m, MoveOut(m, b, n), b, n)
<1> DEFINE old == m.cells[b]
           f == [i \in DOMAIN old |-> IF i <= n THEN Moved ELSE old[i]]
<1>1. old \in Seq(Cells) /\ DOMAIN old = 1 .. Len(old) /\ Len(old) \in Nat
      /\ m.alive \in Int /\ \A i \in 1 .. Len(old) : old[i] \in Cells
  BY CellsType
<1>3. f \in [1 .. Len(old) -> Cells]
  BY <1>1 DEF Cells
<1>4. f \in Seq(Cells) /\ Len(f) = Len(old)
  BY <1>1, <1>3, IsSequence
<1>5. MoveOut(m, b, n) = [m EXCEPT !.cells[b] = f]
  BY DEF MoveOut, MemoryType
<1>6. \A i \in 1 .. Len(f) : f[i] = IF i <= n THEN Moved ELSE old[i]
  BY <1>1, <1>4
<1> HIDE DEF f
<1>8. Rewrites(m, MoveOut(m, b, n), b, f) /\ MoveOut(m, b, n).alive = m.alive
  BY <1>1, <1>4, <1>5, ZenonT(30) DEF MemoryType, Rewrites
<1> QED BY <1>4, <1>6, <1>8 DEF MovedOut

LEMMA AllocEffect ==
  ASSUME NEW m \in MemoryType, NEW b \in Blocks, NEW n \in Nat
  PROVE  /\ RawCells(n) \in Seq(Cells) /\ Len(RawCells(n)) = n
         /\ \A i \in 1 .. n : RawCells(n)[i] = Raw
         /\ Rewrites(m, Alloc(m, b, n), b, RawCells(n))
         /\ Alloc(m, b, n).alive = m.alive
<1>1. RawCells(n) \in [1 .. n -> Cells]
  BY DEF RawCells, Cells
<1>2. RawCells(n) \in Seq(Cells) /\ Len(RawCells(n)) = n
  BY <1>1, IsSequence
<1>3. \A i \in 1 .. n : RawCells(n)[i] = Raw
  BY DEF RawCells
<1> QED BY <1>2, <1>3, RewriteEffect, CellsType DEF Alloc

LEMMA DeallocEffect ==
  ASSUME NEW m \in MemoryType, NEW b \in Blocks
  PROVE  Rewrites(m, Dealloc(m, b), b, <<>>) /\ Dealloc(m, b).alive = m.alive
BY RewriteEffect, CellsType, EmptySeq DEF Dealloc

-----------------------------------------------------------------------------
(* Counting elements. *)

LEMMA LiveMember ==
  ASSUME NEW c, NEW b, NEW i
  PROVE  <<b, i>> \in LiveCells(c) <=> b \in Blocks /\ i \in DOMAIN c[b] /\ c[b][i] # Raw
BY DEF LiveCells

(* Between p and q the elements in cells k+1..k+n of block b come and go.   *)
LEMMA LiveDifference ==
  ASSUME NEW p \in [Blocks -> Seq(Cells)], NEW q \in [Blocks -> Seq(Cells)],
         NEW b \in Blocks, NEW k \in Nat, NEW n \in Nat,
         \A a \in Blocks : a # b => q[a] = p[a],
         Len(q[b]) = Len(p[b]), k + n <= Len(p[b]),
         \A i \in 1 .. Len(p[b]) : i \notin k + 1 .. k + n => (q[b][i] # Raw <=> p[b][i] # Raw),
         \A i \in k + 1 .. k + n : p[b][i] = Raw /\ q[b][i] # Raw
  PROVE  /\ IsFiniteSet(LiveCells(p)) <=> IsFiniteSet(LiveCells(q))
         /\ IsFiniteSet(LiveCells(p)) =>
              Cardinality(LiveCells(q)) = Cardinality(LiveCells(p)) + n
<1> DEFINE new == {b} \X (k + 1 .. k + n)
<1>1. \A a \in Blocks : DOMAIN p[a] = 1 .. Len(p[a]) /\ DOMAIN q[a] = 1 .. Len(q[a])
  BY LenProperties
<1>2. Len(p[b]) \in Nat
  BY LenProperties
<1>3. LiveCells(q) = LiveCells(p) \cup new
  <2>1. ASSUME NEW x \in LiveCells(q) PROVE x \in LiveCells(p) \cup new
    <3>1. PICK a, i : x = <<a, i>> /\ a \in Blocks /\ i \in DOMAIN q[a] /\ q[a][i] # Raw
      BY <2>1 DEF LiveCells
    <3> QED BY <1>1, <3>1, LiveMember
  <2>2. ASSUME NEW x \in LiveCells(p) PROVE x \in LiveCells(q)
    <3>1. PICK a, i : x = <<a, i>> /\ a \in Blocks /\ i \in DOMAIN p[a] /\ p[a][i] # Raw
      BY <2>2 DEF LiveCells
    <3> QED BY <1>1, <3>1, LiveMember, ZenonT(30)
  <2>3. ASSUME NEW x \in new PROVE x \in LiveCells(q)
    <3>1. PICK i \in k + 1 .. k + n : x = <<b, i>>
      BY <2>3
    <3>2. i \in 1 .. Len(p[b])
      BY <1>2, <3>1
    <3> QED BY <1>1, <3>1, <3>2, LiveMember
  <2> QED BY <2>1, <2>2, <2>3
<1>4. LiveCells(p) \cap new = {}
  <2> SUFFICES ASSUME NEW i \in k + 1 .. k + n, <<b, i>> \in LiveCells(p) PROVE FALSE
    OBVIOUS
  <2> QED BY LiveMember
<1>5. IsFiniteSet(new) /\ Cardinality(new) = n
  <2>1. IsFiniteSet(k + 1 .. k + n) /\ Cardinality(k + 1 .. k + n) = n
    <3>1. k + 1 \in Int /\ k + n \in Int
      OBVIOUS
    <3>2. IF k + 1 > k + n THEN n = 0 ELSE (k + n) - (k + 1) + 1 = n
      OBVIOUS
    <3> QED BY <3>1, <3>2, FS_Interval
  <2>2. IsFiniteSet({b}) /\ Cardinality({b}) = 1
    BY FS_Singleton
  <2>3. /\ IsFiniteSet({b} \X (k + 1 .. k + n))
        /\ Cardinality({b} \X (k + 1 .. k + n))
             = Cardinality({b}) * Cardinality(k + 1 .. k + n)
    BY <2>1, <2>2, FS_Product, Zenon
  <2> QED BY <2>1, <2>2, <2>3
<1> HIDE DEF new
<1>6. IsFiniteSet(LiveCells(q)) => IsFiniteSet(LiveCells(p))
  BY <1>3, FS_Subset
<1>7. ASSUME IsFiniteSet(LiveCells(p))
      PROVE  /\ IsFiniteSet(LiveCells(q))
             /\ Cardinality(LiveCells(q)) = Cardinality(LiveCells(p)) + n
  <2>1. Cardinality({}) = 0 /\ Cardinality(LiveCells(p)) \in Nat
    BY <1>7, FS_EmptySet, FS_CardinalityType
  <2>2. /\ IsFiniteSet(LiveCells(p) \cup new)
        /\ Cardinality(LiveCells(p) \cup new)
             = Cardinality(LiveCells(p)) + Cardinality(new)
                 - Cardinality(LiveCells(p) \cap new)
    BY <1>5, <1>7, FS_Union, Zenon
  <2>3. Cardinality(LiveCells(p) \cap new) = 0
    BY <1>4, <2>1
  <2>4. Cardinality(LiveCells(p) \cup new) = Cardinality(LiveCells(p)) + n
    BY <1>5, <2>1, <2>2, <2>3
  <2> QED BY <1>3, <2>2, <2>4
<1> QED BY <1>6, <1>7

(* Elements are constructed in raw cells. *)
LEMMA BalanceAdds ==
  ASSUME NEW m \in MemoryType, NEW c, NEW b \in Blocks, NEW f, NEW k \in Nat, NEW n \in Nat,
         Rewrites(m, c, b, f), Len(f) = Len(m.cells[b]), k + n <= Len(f),
         c.alive = m.alive + n, Balanced(m),
         \A i \in k + 1 .. k + n : m.cells[b][i] = Raw /\ f[i] # Raw,
         \A i \in 1 .. Len(f) : i \notin k + 1 .. k + n => f[i] = m.cells[b][i]
  PROVE  Balanced(c)
<1>1. m.cells \in [Blocks -> Seq(Cells)] /\ c.cells \in [Blocks -> Seq(Cells)]
  BY DEF Rewrites, MemoryType
<1>2. f = c.cells[b] /\ \A a \in Blocks : a # b => c.cells[a] = m.cells[a]
  BY DEF Rewrites
<1> DEFINE p == m.cells
           q == c.cells
<1>3. /\ Len(q[b]) = Len(p[b]) /\ k + n <= Len(p[b])
      /\ \A i \in 1 .. Len(p[b]) : i \notin k + 1 .. k + n => (q[b][i] # Raw <=> p[b][i] # Raw)
      /\ \A i \in k + 1 .. k + n : p[b][i] = Raw /\ q[b][i] # Raw
  BY <1>2
<1> HIDE DEF p, q
<1>4. /\ IsFiniteSet(LiveCells(p)) <=> IsFiniteSet(LiveCells(q))
      /\ IsFiniteSet(LiveCells(p)) =>
           Cardinality(LiveCells(q)) = Cardinality(LiveCells(p)) + n
  BY <1>1, <1>2, <1>3, LiveDifference DEF p, q
<1> QED BY <1>4 DEF Balanced, p, q

(* Elements are destroyed. *)
LEMMA BalanceDrops ==
  ASSUME NEW m \in MemoryType, NEW c, NEW b \in Blocks, NEW f, NEW k \in Nat, NEW n \in Nat,
         Rewrites(m, c, b, f), Len(f) = Len(m.cells[b]), k + n <= Len(f),
         c.alive = m.alive - n, Balanced(m),
         \A i \in k + 1 .. k + n : m.cells[b][i] # Raw /\ f[i] = Raw,
         \A i \in 1 .. Len(f) : i \notin k + 1 .. k + n => f[i] = m.cells[b][i]
  PROVE  Balanced(c)
<1> DEFINE x == c.cells
           y == m.cells
<1>1. x \in [Blocks -> Seq(Cells)] /\ y \in [Blocks -> Seq(Cells)] /\ m.alive \in Int
  BY DEF Rewrites, MemoryType
<1>2. f = x[b] /\ \A a \in Blocks : a # b => y[a] = x[a]
  BY DEF Rewrites
<1>3. /\ Len(y[b]) = Len(x[b]) /\ k + n <= Len(x[b])
      /\ \A i \in 1 .. Len(x[b]) : i \notin k + 1 .. k + n => (y[b][i] # Raw <=> x[b][i] # Raw)
      /\ \A i \in k + 1 .. k + n : x[b][i] = Raw /\ y[b][i] # Raw
  BY <1>2
<1> HIDE DEF x, y
<1>4. /\ IsFiniteSet(LiveCells(x)) <=> IsFiniteSet(LiveCells(y))
      /\ IsFiniteSet(LiveCells(x)) =>
           Cardinality(LiveCells(y)) = Cardinality(LiveCells(x)) + n
  BY <1>1, <1>2, <1>3, LiveDifference DEF x, y
<1>5. IsFiniteSet(LiveCells(x)) /\ Cardinality(LiveCells(x)) \in Nat
  BY <1>4, FS_CardinalityType DEF Balanced, y
<1> QED BY <1>1, <1>4, <1>5 DEF Balanced, x, y

(* Whether a cell holds an element does not change. *)
LEMMA BalanceSame ==
  ASSUME NEW m \in MemoryType, NEW c, NEW b \in Blocks, NEW f \in Seq(Cells),
         Rewrites(m, c, b, f), c.alive = m.alive, Balanced(m),
         \A i \in Nat : i \in 1 .. Len(f) /\ f[i] # Raw
                          <=> i \in 1 .. Len(m.cells[b]) /\ m.cells[b][i] # Raw
  PROVE  Balanced(c)
<1>1. /\ f = c.cells[b] /\ \A a \in Blocks : a # b => c.cells[a] = m.cells[a]
      /\ DOMAIN f = 1 .. Len(f) /\ DOMAIN m.cells[b] = 1 .. Len(m.cells[b])
      /\ Len(f) \in Nat /\ Len(m.cells[b]) \in Nat
  BY CellsType, LenProperties DEF Rewrites
<1>2. LiveCells(c.cells) = LiveCells(m.cells)
  <2>1. ASSUME NEW x \in LiveCells(c.cells) PROVE x \in LiveCells(m.cells)
    <3>1. PICK a, i : x = <<a, i>> /\ a \in Blocks /\ i \in DOMAIN c.cells[a]
                      /\ c.cells[a][i] # Raw
      BY <2>1 DEF LiveCells
    <3> QED BY <1>1, <3>1, LiveMember
  <2>2. ASSUME NEW x \in LiveCells(m.cells) PROVE x \in LiveCells(c.cells)
    <3>1. PICK a, i : x = <<a, i>> /\ a \in Blocks /\ i \in DOMAIN m.cells[a]
                      /\ m.cells[a][i] # Raw
      BY <2>2 DEF LiveCells
    <3> QED BY <1>1, <3>1, LiveMember
  <2> QED BY <2>1, <2>2
<1> QED BY <1>2 DEF Balanced

-----------------------------------------------------------------------------
(* Whole blocks.  Changes(m, c, b): only the cells of block b, and elements  *)
(* are counted.                                                             *)
Changes(m, c, b) ==
  /\ c \in MemoryType /\ Balanced(c) /\ c.vec = m.vec
  /\ \A a \in Blocks : a # b => c.cells[a] = m.cells[a]

AllRaw(s) == \A i \in 1 .. Len(s) : s[i] = Raw

Emptied(m, c, b) ==
  /\ Changes(m, c, b)
  /\ Len(c.cells[b]) = Len(m.cells[b]) /\ AllRaw(c.cells[b])

Freed(m, c, b) == Changes(m, c, b) /\ c.cells[b] = <<>>

Allocated(m, c, b, n) ==
  Changes(m, c, b) /\ Len(c.cells[b]) = n /\ AllRaw(c.cells[b])

LEMMA DestroyAll ==
  ASSUME NEW m \in MemoryType, Balanced(m), NEW b \in Blocks, NEW n \in Nat,
         n <= Len(m.cells[b]),
         \A i \in 1 .. Len(m.cells[b]) : m.cells[b][i] # Raw <=> i <= n
  PROVE  Emptied(m, DestroyRange(m, b, 0, n), b)
<1> DEFINE d == DestroyRange(m, b, 0, n)
           len == Len(m.cells[b])
<1>g. len \in Nat
  BY CellsType
<1>1. PICK f \in Seq(Cells) :
        /\ Rewrites(m, d, b, f) /\ d.alive = m.alive - n /\ Len(f) = len
        /\ \A i \in 1 .. Len(f) : f[i] = IF i \in 0 + 1 .. 0 + n THEN Raw ELSE m.cells[b][i]
  <2>1. Destroyed(m, d, b, 0, n)
    BY DestroyEffect
  <2> HIDE DEF d
  <2> QED BY <2>1 DEF Destroyed
<1> HIDE DEF d
<1>2. \A i \in 0 + 1 .. 0 + n : m.cells[b][i] # Raw /\ f[i] = Raw
  BY <1>g, <1>1
<1>3. \A i \in 1 .. Len(f) : i \notin 0 + 1 .. 0 + n => f[i] = m.cells[b][i]
  BY <1>1
<1>4. Balanced(d)
  <2>1. 0 \in Nat /\ 0 + n <= Len(f) /\ Len(f) = Len(m.cells[b])
    BY <1>1
  <2> QED BY <1>1, <1>2, <1>3, <2>1, BalanceDrops, Zenon
<1>5. \A i \in 1 .. Len(f) : f[i] = Raw
  BY <1>g, <1>1
<1> QED BY <1>1, <1>4, <1>5 DEF Emptied, Changes, Rewrites, AllRaw, d

LEMMA DeallocRaw ==
  ASSUME NEW m \in MemoryType, Balanced(m), NEW b \in Blocks, AllRaw(m.cells[b])
  PROVE  Freed(m, Dealloc(m, b), b)
<1> DEFINE d == Dealloc(m, b)
           z == <<>>
<1>1. Rewrites(m, d, b, z) /\ d.alive = m.alive
  BY DeallocEffect
<1>2. z \in Seq(Cells)
  BY EmptySeq
<1>3. \A i \in Nat : i \in 1 .. Len(z) /\ z[i] # Raw
                 <=> i \in 1 .. Len(m.cells[b]) /\ m.cells[b][i] # Raw
  BY EmptySeq DEF AllRaw
<1> HIDE DEF d, z
<1>4. Balanced(d)
  BY <1>1, <1>2, <1>3, BalanceSame
<1> QED BY <1>1, <1>4 DEF Freed, Changes, Rewrites, d, z

LEMMA AllocFree ==
  ASSUME NEW m \in MemoryType, Balanced(m), NEW b \in Blocks, m.cells[b] = <<>>,
         NEW n \in Nat
  PROVE  Allocated(m, Alloc(m, b, n), b, n)
<1> DEFINE c == Alloc(m, b, n)
           f == RawCells(n)
<1>1. /\ Rewrites(m, c, b, f) /\ c.alive = m.alive /\ f \in Seq(Cells) /\ Len(f) = n
      /\ \A i \in 1 .. n : f[i] = Raw
  BY AllocEffect
<1> HIDE DEF c, f
<1>2. Len(m.cells[b]) = 0
  BY EmptySeq
<1>3. \A i \in Nat : i \in 1 .. Len(f) /\ f[i] # Raw
                 <=> i \in 1 .. Len(m.cells[b]) /\ m.cells[b][i] # Raw
  BY <1>1, <1>2
<1>4. Balanced(c)
  BY <1>1, <1>3, BalanceSame
<1> QED BY <1>1, <1>4 DEF Allocated, Changes, Rewrites, AllRaw, c

-----------------------------------------------------------------------------
(* One vector changes. *)

LEMMA VectorType ==
  ASSUME NEW m \in MemoryType, NEW v \in AllVectors
  PROVE  /\ v \in Blocks /\ m.vec[v].begin \in Blocks
         /\ m.vec[v].size \in Nat /\ m.vec[v].capacity \in Nat
         /\ m.vec[v] = [begin |-> m.vec[v].begin, size |-> m.vec[v].size,
                        capacity |-> m.vec[v].capacity]
         /\ N[v] \in Nat \ {0} /\ v \notin Heap
BY CapacityAssumption, NamesAssumption DEF MemoryType, Blocks

LEMMA ElementsAre ==
  ASSUME NEW m \in MemoryType, NEW v \in AllVectors, VectorOK(m, v)
  PROVE  /\ Elements(m, v) \in Seq(Objects) /\ Len(Elements(m, v)) = m.vec[v].size
         /\ \A i \in 1 .. m.vec[v].size : Elements(m, v)[i] = m.cells[m.vec[v].begin][i]
<1> DEFINE s == m.cells[m.vec[v].begin]
           n == m.vec[v].size
<1>1. n \in Nat /\ n <= Len(s) /\ Len(s) \in Nat
  BY VectorType, CellsType DEF VectorOK
<1>2. \A i \in 1 .. Len(s) : s[i] \in Cells /\ (s[i] # Raw <=> i <= n)
  BY VectorType, CellsType DEF VectorOK
<1>5. \A i \in 1 .. n : s[i] \in Objects
  BY <1>1, <1>2 DEF Objects
<1> HIDE DEF s, n
<1>3. /\ SubSeq(s, 1, n) \in Seq(Objects)
      /\ Len(SubSeq(s, 1, n)) = IF 1 <= n THEN n - 1 + 1 ELSE 0
      /\ \A i \in 1 .. n - 1 + 1 : SubSeq(s, 1, n)[i] = s[1 + i - 1]
  BY <1>1, <1>5, SubSeqProperties
<1>4. \A i \in 1 .. n : SubSeq(s, 1, n)[i] = s[i]
  BY <1>1, <1>3
<1>6. Len(SubSeq(s, 1, n)) = n
  BY ONLY <1>1, <1>3
<1>7. Elements(m, v) = SubSeq(s, 1, n)
  BY DEF Elements, s, n
<1>8. /\ Elements(m, v) \in Seq(Objects) /\ Len(Elements(m, v)) = n
      /\ \A i \in 1 .. n : Elements(m, v)[i] = s[i]
  BY ONLY <1>3, <1>4, <1>6, <1>7
<1> QED BY ONLY <1>8 DEF s, n

(* Another vector, whose storage is not touched, stays as it is. *)
LEMMA OtherVector ==
  ASSUME NEW m \in MemoryType, NEW r \in MemoryType, NEW w \in AllVectors,
         VectorOK(m, w), r.vec[w] = m.vec[w],
         r.cells[w] = m.cells[w], r.cells[m.vec[w].begin] = m.cells[m.vec[w].begin]
  PROVE  VectorOK(r, w) /\ Elements(r, w) = Elements(m, w)
BY DEF VectorOK, Elements

LEMMA OneVector ==
  ASSUME NEW m \in MemoryType, NEW r \in MemoryType, NEW v \in AllVectors,
         Layout(m), VectorOK(r, v),
         \A w \in AllVectors : w # v => r.vec[w] = m.vec[w],
         \A b \in Blocks : b \notin {v, m.vec[v].begin, r.vec[v].begin}
                             => r.cells[b] = m.cells[b],
         \/ r.vec[v].begin \in {v, m.vec[v].begin}
         \/ m.cells[r.vec[v].begin] = <<>>,
         m.vec[v].begin \in Heap /\ m.vec[v].begin # r.vec[v].begin
           => r.cells[m.vec[v].begin] = <<>>
  PROVE  Layout(r) /\ Keeps(m, r, {v})
<1>1. ASSUME NEW w \in AllVectors, w # v
      PROVE  /\ m.vec[w].begin \notin {v, m.vec[v].begin, r.vec[v].begin}
             /\ w \notin {v, m.vec[v].begin, r.vec[v].begin}
  <2>1. /\ m.vec[w].begin \in Heap \cup {w} /\ m.vec[v].begin \in Heap \cup {v}
        /\ r.vec[v].begin \in Heap \cup {v} /\ m.vec[w].begin # m.vec[v].begin
        /\ v \notin Heap /\ w \notin Heap
    BY <1>1, VectorType DEF Layout, VectorOK
  <2>2. m.cells[m.vec[w].begin] # <<>>
    <3>1. VectorOK(m, w)
      BY DEF Layout
    <3>2. Len(m.cells[m.vec[w].begin]) > 0
      BY ONLY <3>1 DEF VectorOK
    <3>3. Len(<<>>) = 0
      BY EmptySeq
    <3> QED BY ONLY <3>2, <3>3
  <2> QED BY <1>1, <2>1, <2>2
<1>2. ASSUME NEW w \in AllVectors, w # v
      PROVE  /\ VectorOK(r, w) /\ Elements(r, w) = Elements(m, w)
             /\ r.vec[w].begin # r.vec[v].begin
  <2>1. /\ r.vec[w] = m.vec[w] /\ r.cells[w] = m.cells[w]
        /\ r.cells[m.vec[w].begin] = m.cells[m.vec[w].begin]
    BY <1>1, <1>2, VectorType
  <2>2. VectorOK(m, w)
    BY DEF Layout
  <2>3. VectorOK(r, w) /\ Elements(r, w) = Elements(m, w)
    BY <2>1, <2>2, OtherVector
  <2>4. r.vec[w].begin # r.vec[v].begin
    BY <1>1, <1>2, <2>1
  <2> QED BY <2>3, <2>4
<1>3. \A w, u \in AllVectors : r.vec[w].begin = r.vec[u].begin => w = u
  <2> SUFFICES ASSUME NEW w \in AllVectors, NEW u \in AllVectors,
                      r.vec[w].begin = r.vec[u].begin, w # u
               PROVE  FALSE
    OBVIOUS
  <2>1. CASE w = v \/ u = v
    BY <1>2, <2>1
  <2>2. CASE w # v /\ u # v
    BY <2>2 DEF Layout
  <2> QED BY <2>1, <2>2
<1>4. ASSUME NEW b \in Heap, r.cells[b] # <<>>
      PROVE  \E w \in AllVectors : r.vec[w].begin = b
  <2>1. CASE b = r.vec[v].begin
    BY <2>1
  <2>2. CASE b # r.vec[v].begin
    <3>1. b # m.vec[v].begin
      BY <1>4, <2>2
    <3>2. r.cells[b] = m.cells[b]
      BY <2>2, <3>1, VectorType, ZenonT(30) DEF Blocks
    <3>3. PICK w \in AllVectors : m.vec[w].begin = b
      BY <1>4, <3>2 DEF Layout
    <3> QED BY <3>1, <3>3
  <2> QED BY <2>1, <2>2
<1> QED BY <1>2, <1>3, <1>4 DEF Layout, Keeps

-----------------------------------------------------------------------------
(* begin_, size_ and capacity_. *)

LEMMA SizeEffect ==
  ASSUME NEW m \in MemoryType, NEW v \in AllVectors, NEW n \in Nat
  PROVE  LET r == [m EXCEPT !.vec[v].size = n]
         IN  /\ r \in MemoryType /\ r.cells = m.cells /\ r.alive = m.alive
             /\ r.vec[v] = [begin |-> m.vec[v].begin, size |-> n,
                            capacity |-> m.vec[v].capacity]
             /\ \A w \in AllVectors : w # v => r.vec[w] = m.vec[w]
BY DEF MemoryType

Restored(m, r, v, b, n) ==
  /\ r \in MemoryType /\ r.cells = m.cells /\ r.alive = m.alive
  /\ r.vec[v] = [begin |-> b, size |-> m.vec[v].size, capacity |-> n]
  /\ \A w \in AllVectors : w # v => r.vec[w] = m.vec[w]

LEMMA StorageEffect ==
  ASSUME NEW m \in MemoryType, NEW v \in AllVectors, NEW b \in Blocks, NEW n \in Nat
  PROVE  Restored(m, [m EXCEPT !.vec[v].begin = b, !.vec[v].capacity = n], v, b, n)
BY DEF MemoryType, Restored

LEMMA BalancedVec ==
  ASSUME NEW m, NEW r, Balanced(m), r.cells = m.cells, r.alive = m.alive
  PROVE  Balanced(r)
BY DEF Balanced

LEMMA ElementsEqual ==
  ASSUME NEW r \in MemoryType, NEW v \in AllVectors, VectorOK(r, v),
         NEW s \in Seq(Objects), Len(s) = r.vec[v].size,
         \A i \in 1 .. Len(s) : r.cells[r.vec[v].begin][i] = s[i]
  PROVE  Elements(r, v) = s
<1>1. /\ Elements(r, v) \in Seq(Objects) /\ Len(Elements(r, v)) = Len(s)
      /\ \A i \in 1 .. Len(s) : Elements(r, v)[i] = s[i]
  BY ElementsAre
<1> QED BY <1>1, SeqEqual

(* What a good memory says of a vector and its block. *)
LEMMA GoodVector ==
  ASSUME NEW m, Good(m), NEW v \in AllVectors
  PROVE  LET b == m.vec[v].begin
         IN  /\ m \in MemoryType /\ Layout(m) /\ Balanced(m) /\ VectorOK(m, v)
             /\ v \in Blocks /\ b \in Blocks /\ b \in Heap \cup {v}
             /\ m.vec[v].size \in Nat /\ m.vec[v].capacity \in Nat
             /\ m.vec[v].size <= m.vec[v].capacity
             /\ Len(m.cells[b]) = m.vec[v].capacity
             /\ \A i \in 1 .. Len(m.cells[b]) : m.cells[b][i] # Raw <=> i <= m.vec[v].size
             /\ Elements(m, v) \in Seq(Objects) /\ Len(Elements(m, v)) = m.vec[v].size
             /\ \A i \in 1 .. m.vec[v].size : Elements(m, v)[i] = m.cells[b][i]
             /\ Len(m.cells[v]) = N[v]
             /\ b # v => \A i \in 1 .. N[v] : m.cells[v][i] = Raw
<1>1. m \in MemoryType /\ Layout(m) /\ Balanced(m) /\ VectorOK(m, v)
  BY DEF Good, Layout
<1> QED BY <1>1, VectorType, ElementsAre DEF VectorOK

(* r is m but for vector v, which has its elements s in block b of          *)
(* capacity c.                                                              *)
Becomes(m, r, v, b, c, s) ==
  /\ Good(r) /\ Keeps(m, r, {v})
  /\ r.vec[v] = [begin |-> b, size |-> Len(s), capacity |-> c]
  /\ Elements(r, v) = s

LEMMA BecomesRule ==
  ASSUME NEW m, Good(m), NEW r \in MemoryType, Balanced(r), NEW v \in AllVectors,
         NEW b \in Heap \cup {v}, NEW c \in Nat, NEW s \in Seq(Objects),
         r.vec[v] = [begin |-> b, size |-> Len(s), capacity |-> c],
         \A w \in AllVectors : w # v => r.vec[w] = m.vec[w],
         Len(r.cells[b]) = c, c > 0, Len(s) <= c,
         \A i \in 1 .. c : r.cells[b][i] = IF i <= Len(s) THEN s[i] ELSE Raw,
         Len(r.cells[v]) = N[v],
         b # v => \A i \in 1 .. N[v] : r.cells[v][i] = Raw,
         \A a \in Blocks : a \notin {v, m.vec[v].begin, b} => r.cells[a] = m.cells[a],
         b \in {v, m.vec[v].begin} \/ m.cells[b] = <<>>,
         m.vec[v].begin \in Heap /\ m.vec[v].begin # b
           => r.cells[m.vec[v].begin] = <<>>
  PROVE  Becomes(m, r, v, b, c, s)
<1>1. m \in MemoryType /\ Layout(m)
  BY DEF Good
<1>2. /\ r.vec[v].begin = b /\ r.vec[v].size = Len(s) /\ r.vec[v].capacity = c
      /\ Len(s) \in Nat
  BY LenProperties
<1>3. \A i \in 1 .. Len(s) : s[i] # Raw
  BY ElementOfSeq DEF Objects
<1>4. VectorOK(r, v)
  <2>1. \A i \in 1 .. c : r.cells[b][i] # Raw <=> i <= Len(s)
    BY <1>2, <1>3
  <2> QED BY <1>2, <2>1 DEF VectorOK
<1>5. Elements(r, v) = s
  <2>1. \A i \in 1 .. Len(s) : r.cells[r.vec[v].begin][i] = s[i]
    BY <1>2
  <2> QED BY <1>2, <1>4, <2>1, ElementsEqual
<1>6. Layout(r) /\ Keeps(m, r, {v})
  BY <1>1, <1>2, <1>4, OneVector
<1> QED BY <1>5, <1>6 DEF Becomes, Good

-----------------------------------------------------------------------------
(* Emptying a vector. *)

LEMMA ClearOK ==
  ASSUME NEW m, Good(m), NEW v \in AllVectors
  PROVE  Becomes(m, Clear(m, v), v, m.vec[v].begin, m.vec[v].capacity, <<>>)
<1> DEFINE own == m.vec[v].begin
           len == m.vec[v].size
           cap == m.vec[v].capacity
           d == DestroyRange(m, own, 0, len)
           r == Clear(m, v)
<1>g. /\ m \in MemoryType /\ Layout(m) /\ Balanced(m) /\ VectorOK(m, v)
      /\ v \in Blocks /\ own \in Blocks /\ own \in Heap \cup {v} /\ len \in Nat
      /\ Len(m.cells[own]) = cap /\ cap \in Nat /\ cap > 0 /\ len <= cap
      /\ \A i \in 1 .. cap : m.cells[own][i] # Raw <=> i <= len
      /\ Len(m.cells[v]) = N[v]
      /\ own # v => \A i \in 1 .. N[v] : m.cells[v][i] = Raw
  BY GoodVector DEF VectorOK
<1>e. /\ <<>> \in Seq(Objects) /\ Len(<<>>) = 0
  BY EmptySeq
<1>4. r = [d EXCEPT !.vec[v].size = 0]
  BY DEF Clear
<1>1. Emptied(m, d, own)
  BY <1>g, DestroyAll
<1>2. /\ d \in MemoryType /\ d.vec = m.vec /\ Balanced(d)
      /\ Len(d.cells[own]) = cap /\ \A i \in 1 .. cap : d.cells[own][i] = Raw
      /\ \A a \in Blocks : a # own => d.cells[a] = m.cells[a]
  BY <1>g, <1>1 DEF Emptied, Changes, AllRaw
<1> HIDE DEF d, r
<1>5. /\ r \in MemoryType /\ r.cells = d.cells /\ r.alive = d.alive
      /\ r.vec[v] = [begin |-> own, size |-> 0, capacity |-> cap]
      /\ \A w \in AllVectors : w # v => r.vec[w] = m.vec[w]
  BY <1>2, <1>4, SizeEffect
<1> HIDE DEF len, cap
<1>6. Balanced(r)
  BY <1>2, <1>5, BalancedVec
<1>8. /\ r.vec[v] = [begin |-> own, size |-> Len(<<>>), capacity |-> cap]
      /\ Len(r.cells[own]) = cap /\ Len(<<>>) <= cap
      /\ \A i \in 1 .. cap : r.cells[own][i] = IF i <= Len(<<>>) THEN <<>>[i] ELSE Raw
      /\ \A a \in Blocks : a \notin {v, own, own} => r.cells[a] = m.cells[a]
  BY <1>e, <1>g, <1>2, <1>5
<1>9. /\ Len(r.cells[v]) = N[v]
      /\ own # v => \A i \in 1 .. N[v] : r.cells[v][i] = Raw
  <2> HIDE DEF own
  <2>1. CASE own = v
    BY <1>g, <1>8, <2>1
  <2>2. CASE own # v
    BY <1>g, <1>2, <1>5, <2>2
  <2> QED BY <2>1, <2>2
<1> QED BY <1>e, <1>g, <1>5, <1>6, <1>8, <1>9, BecomesRule DEF r, cap, own

LEMMA ResetOK ==
  ASSUME NEW m, Good(m), NEW v \in AllVectors
  PROVE  Becomes(m, Reset(m, v), v, v, N[v], <<>>)
<1> DEFINE own == m.vec[v].begin
           cap == m.vec[v].capacity
           c == Clear(m, v)
           d == Dealloc(c, own)
           r == Reset(m, v)
<1>1. Becomes(m, c, v, own, cap, <<>>)
  BY ClearOK
<1>e. <<>> \in Seq(Objects) /\ Len(<<>>) = 0
  BY EmptySeq
<1>2. /\ Good(c) /\ Keeps(m, c, {v}) /\ Elements(c, v) = <<>>
      /\ c.vec[v] = [begin |-> own, size |-> 0, capacity |-> cap]
      /\ c.vec[v].begin = own
  BY <1>1, <1>e DEF Becomes
<1>g. /\ c \in MemoryType /\ Layout(c) /\ Balanced(c) /\ VectorOK(c, v)
      /\ v \in Blocks /\ own \in Blocks /\ own \in Heap \cup {v}
      /\ Len(c.cells[own]) = cap /\ cap \in Nat
      /\ \A i \in 1 .. Len(c.cells[own]) : c.cells[own][i] = Raw
      /\ Len(c.cells[v]) = N[v]
      /\ own # v => \A i \in 1 .. N[v] : c.cells[v][i] = Raw
  <2> HIDE DEF own, cap, c
  <2>1. \A i \in 1 .. Len(c.cells[own]) : c.cells[own][i] # Raw <=> i <= 0
    BY <1>2, GoodVector
  <2>2. /\ c \in MemoryType /\ Layout(c) /\ Balanced(c) /\ VectorOK(c, v)
        /\ v \in Blocks /\ own \in Blocks /\ own \in Heap \cup {v}
        /\ Len(c.cells[own]) = cap /\ cap \in Nat
        /\ Len(c.cells[v]) = N[v]
        /\ own # v => \A i \in 1 .. N[v] : c.cells[v][i] = Raw
    BY <1>2, GoodVector
  <2> QED BY <2>1, <2>2
<1>3. N[v] \in Nat \ {0} /\ v \notin Heap
  BY VectorType, <1>g
<1>4. r = IF own = v THEN c ELSE [d EXCEPT !.vec[v].begin = v, !.vec[v].capacity = N[v]]
  BY <1>2 DEF Reset, IsSmall
<1> HIDE DEF c, r
<1>5. CASE own = v
  <2>1. cap = N[v] /\ r = c
    BY <1>4, <1>5, <1>g
  <2> QED BY <1>1, <1>5, <2>1 DEF r
<1>6. CASE own # v
  <2> HIDE DEF own, cap
  <2>1. Freed(c, d, own)
    BY <1>g, DeallocRaw DEF AllRaw
  <2> HIDE DEF d
  <2>2. d \in MemoryType /\ Balanced(d)
    BY <2>1 DEF Freed, Changes
  <2>3. /\ r \in MemoryType /\ r.cells = d.cells /\ r.alive = d.alive
        /\ r.vec[v] = [begin |-> v, size |-> d.vec[v].size, capacity |-> N[v]]
        /\ \A w \in AllVectors : w # v => r.vec[w] = d.vec[w]
    <3> DEFINE t == [d EXCEPT !.vec[v].begin = v, !.vec[v].capacity = N[v]]
    <3>1. N[v] \in Nat
      BY <1>3
    <3>2. Restored(d, t, v, v, N[v])
      BY <1>g, <2>2, <3>1, StorageEffect, Zenon
    <3>3. r = t
      BY <1>4, <1>6
    <3> HIDE DEF t
    <3> QED BY <3>2, <3>3 DEF Restored
  <2>4. Balanced(r)
    BY <2>2, <2>3, BalancedVec
  <2>5. /\ r.vec[v] = [begin |-> v, size |-> Len(<<>>), capacity |-> N[v]]
        /\ r.cells[v] = c.cells[v] /\ r.cells[own] = <<>>
        /\ \A w \in AllVectors : w # v => r.vec[w] = c.vec[w]
        /\ \A a \in Blocks : a \notin {v, own, v} => r.cells[a] = c.cells[a]
    BY <1>2, <1>6, <1>e, <1>g, <2>1, <2>3 DEF Freed, Changes
  <2>6. /\ Len(r.cells[v]) = N[v] /\ N[v] > 0 /\ Len(<<>>) <= N[v]
        /\ \A i \in 1 .. N[v] : r.cells[v][i] = IF i <= Len(<<>>) THEN <<>>[i] ELSE Raw
    BY <1>3, <1>6, <1>e, <1>g, <2>5
  <2>7. Becomes(c, r, v, v, N[v], <<>>)
    BY <1>2, <1>3, <1>6, <1>e, <2>3, <2>4, <2>5, <2>6, BecomesRule
  <2> QED BY <1>2, <2>7 DEF Becomes, Keeps, r
<1> QED BY <1>5, <1>6

-----------------------------------------------------------------------------
(* Elements are added, moved from. *)

LEMMA PushOK ==
  ASSUME NEW m, Good(m), NEW v \in AllVectors, NEW xs \in Seq(Objects),
         m.vec[v].size + Len(xs) <= m.vec[v].capacity
  PROVE  Becomes(m, Push(m, v, xs), v, m.vec[v].begin, m.vec[v].capacity,
                 Elements(m, v) \o xs)
<1> DEFINE own == m.vec[v].begin
           len == m.vec[v].size
           cap == m.vec[v].capacity
           more == Len(xs)
           s == Elements(m, v) \o xs
           d == Construct(m, own, len, xs)
           r == Push(m, v, xs)
<1>g. /\ m \in MemoryType /\ Layout(m) /\ Balanced(m) /\ VectorOK(m, v)
      /\ v \in Blocks /\ own \in Blocks /\ own \in Heap \cup {v} /\ len \in Nat
      /\ Len(m.cells[own]) = cap /\ cap \in Nat /\ cap > 0 /\ len <= cap
      /\ \A i \in 1 .. cap : m.cells[own][i] # Raw <=> i <= len
      /\ Len(m.cells[v]) = N[v]
      /\ own # v => \A i \in 1 .. N[v] : m.cells[v][i] = Raw
      /\ Elements(m, v) \in Seq(Objects) /\ Len(Elements(m, v)) = len
      /\ \A i \in 1 .. len : Elements(m, v)[i] = m.cells[own][i]
  <2>1. /\ m \in MemoryType /\ Layout(m) /\ Balanced(m) /\ VectorOK(m, v)
        /\ v \in Blocks /\ own \in Blocks /\ own \in Heap \cup {v} /\ len \in Nat
        /\ cap \in Nat /\ Len(m.cells[v]) = N[v]
        /\ own # v => \A i \in 1 .. N[v] : m.cells[v][i] = Raw
        /\ Elements(m, v) \in Seq(Objects) /\ Len(Elements(m, v)) = len
        /\ \A i \in 1 .. len : Elements(m, v)[i] = m.cells[own][i]
    BY GoodVector
  <2>2. /\ Len(m.cells[own]) = cap /\ cap > 0 /\ len <= cap
        /\ \A i \in 1 .. cap : m.cells[own][i] # Raw <=> i <= len
    BY <2>1 DEF VectorOK
  <2> QED BY <2>1, <2>2
<1>x. /\ more \in Nat /\ xs \in Seq(Cells)
      /\ \A i \in 1 .. more : xs[i] \in Objects /\ xs[i] # Raw
  BY LenProperties, ElementOfSeq DEF Objects
<1>s. /\ s \in Seq(Objects) /\ Len(s) = len + more
      /\ \A i \in 1 .. len + more :
           s[i] = IF i <= len THEN m.cells[own][i] ELSE xs[i - len]
  <2> DEFINE x == Elements(m, v)
  <2>1. x \in Seq(Objects) /\ Len(x) = len
    BY <1>g
  <2>2. \A i \in 1 .. len : x[i] = m.cells[own][i]
    BY <1>g
  <2>3. s = x \o xs
    OBVIOUS
  <2> HIDE DEF len, own, cap, x, s
  <2>4. /\ s \in Seq(Objects) /\ Len(s) = Len(x) + Len(xs)
        /\ \A i \in 1 .. Len(x) + Len(xs) : s[i] = IF i <= Len(x) THEN x[i] ELSE xs[i - Len(x)]
    BY <2>1, <2>3, ConcatProperties
  <2>5. Len(x) = len /\ Len(xs) = more /\ len \in Nat /\ more \in Nat
    BY <1>g, <1>x, <2>1
  <2> QED BY <2>2, <2>4, <2>5
<1>4. r = [d EXCEPT !.vec[v].size = d.vec[v].size + more]
  BY DEF Push
<1>1. PICK f \in Seq(Cells) :
        /\ Rewrites(m, d, own, f) /\ d.alive = m.alive + more /\ Len(f) = cap
        /\ \A i \in 1 .. Len(f) :
             f[i] = IF i \in len + 1 .. len + more THEN xs[i - len] ELSE m.cells[own][i]
  <2> HIDE DEF own, len, cap
  <2>1. Constructed(m, d, own, len, xs)
    BY <1>g, <1>x, ConstructEffect
  <2> HIDE DEF d
  <2> QED BY <1>g, <2>1 DEF Constructed
<1>2. /\ d \in MemoryType /\ d.vec = m.vec /\ d.cells[own] = f
      /\ \A a \in Blocks : a # own => d.cells[a] = m.cells[a]
  BY <1>1 DEF Rewrites
<1> HIDE DEF d, r, s
<1>5. /\ r \in MemoryType /\ r.cells = d.cells /\ r.alive = d.alive
      /\ r.vec[v] = [begin |-> own, size |-> len + more, capacity |-> cap]
      /\ \A w \in AllVectors : w # v => r.vec[w] = m.vec[w]
  <2>1. len + more \in Nat /\ r = [d EXCEPT !.vec[v].size = len + more]
    BY <1>2, <1>4, <1>g, <1>x
  <2> QED BY <1>2, <2>1, SizeEffect
<1>r. len + more <= cap
  OBVIOUS
<1> HIDE DEF len, cap, more
<1>3. Balanced(d)
  <2>1. \A i \in len + 1 .. len + more : m.cells[own][i] = Raw /\ f[i] # Raw
    BY <1>g, <1>x, <1>r, <1>1
  <2>2. \A i \in 1 .. Len(f) : i \notin len + 1 .. len + more => f[i] = m.cells[own][i]
    BY <1>1
  <2> HIDE DEF own
  <2>3. /\ m \in MemoryType /\ own \in Blocks /\ len \in Nat /\ more \in Nat /\ Balanced(m)
        /\ Rewrites(m, d, own, f) /\ Len(f) = Len(m.cells[own]) /\ len + more <= Len(f)
        /\ d.alive = m.alive + more
    BY <1>g, <1>1, <1>r, <1>x
  <2> QED BY <2>1, <2>2, <2>3, BalanceAdds, Zenon
<1>6. Balanced(r)
  BY <1>3, <1>5, BalancedVec
<1>8. /\ r.vec[v] = [begin |-> own, size |-> Len(s), capacity |-> cap]
      /\ Len(r.cells[own]) = cap /\ Len(s) <= cap
      /\ \A a \in Blocks : a \notin {v, own, own} => r.cells[a] = m.cells[a]
  BY <1>g, <1>s, <1>r, <1>1, <1>2, <1>5
<1>7. \A i \in 1 .. cap : r.cells[own][i] = IF i <= Len(s) THEN s[i] ELSE Raw
  <2> SUFFICES ASSUME NEW i \in 1 .. cap
               PROVE  f[i] = IF i <= len + more THEN s[i] ELSE Raw
    BY <1>2, <1>5, <1>s
  <2>1. CASE i <= len
    BY <1>1, <1>g, <1>s, <1>x, <2>1
  <2>2. CASE i > len /\ i <= len + more
    BY <1>1, <1>g, <1>s, <1>x, <2>2
  <2>3. CASE i > len + more
    <3>1. f[i] = m.cells[own][i]
      BY <1>1, <1>g, <1>x, <2>3
    <3>2. m.cells[own][i] = Raw
      BY <1>g, <1>x, <2>3
    <3> QED BY <1>g, <1>x, <2>3, <3>1, <3>2
  <2> QED BY <1>g, <1>x, <2>1, <2>2, <2>3
<1>9. /\ Len(r.cells[v]) = N[v]
      /\ own # v => \A i \in 1 .. N[v] : r.cells[v][i] = Raw
  <2> HIDE DEF own
  <2>1. CASE own = v
    BY <1>g, <1>8, <2>1
  <2>2. CASE own # v
    BY <1>g, <1>2, <1>5, <2>2
  <2> QED BY <2>1, <2>2
<1> QED BY <1>g, <1>s, <1>5, <1>6, <1>7, <1>8, <1>9, BecomesRule DEF r, cap, own, s

LEMMA MoveOutOK ==
  ASSUME NEW m, Good(m), NEW v \in AllVectors, NEW k \in 0 .. m.vec[v].size
  PROVE  Becomes(m, MoveOut(m, m.vec[v].begin, k), v, m.vec[v].begin, m.vec[v].capacity,
                 MovedFrom(Elements(m, v), k))
<1> DEFINE own == m.vec[v].begin
           len == m.vec[v].size
           cap == m.vec[v].capacity
           s == MovedFrom(Elements(m, v), k)
           r == MoveOut(m, own, k)
<1>g. /\ m \in MemoryType /\ Layout(m) /\ Balanced(m) /\ VectorOK(m, v)
      /\ v \in Blocks /\ own \in Blocks /\ own \in Heap \cup {v} /\ len \in Nat
      /\ Len(m.cells[own]) = cap /\ cap \in Nat /\ cap > 0 /\ len <= cap
      /\ \A i \in 1 .. cap : m.cells[own][i] # Raw <=> i <= len
      /\ Len(m.cells[v]) = N[v]
      /\ own # v => \A i \in 1 .. N[v] : m.cells[v][i] = Raw
      /\ Elements(m, v) \in Seq(Objects) /\ Len(Elements(m, v)) = len
      /\ \A i \in 1 .. len : Elements(m, v)[i] = m.cells[own][i]
  BY GoodVector DEF VectorOK
<1>k. k \in Nat /\ k <= len
  BY <1>g
<1>s. /\ s \in Seq(Objects) /\ Len(s) = len
      /\ \A i \in 1 .. len : s[i] = IF i <= k THEN Moved ELSE m.cells[own][i]
  <2>1. DOMAIN Elements(m, v) = 1 .. len
    BY <1>g, LenProperties
  <2>2. s = [i \in 1 .. len |-> IF i <= k THEN Moved ELSE Elements(m, v)[i]]
    BY <2>1 DEF MovedFrom
  <2>3. Moved \in Objects /\ \A i \in 1 .. len : Elements(m, v)[i] \in Objects
    BY <1>g, ElementOfSeq, NamesAssumption DEF Objects, Cells
  <2> HIDE DEF s, len, own, cap
  <2>4. s \in [1 .. len -> Objects]
    BY <2>2, <2>3
  <2>5. s \in Seq(Objects) /\ Len(s) = len
    BY <1>g, <2>4, IsSequence
  <2> QED BY <1>g, <2>2, <2>5
<1>1. PICK f \in Seq(Cells) :
        /\ Rewrites(m, r, own, f) /\ r.alive = m.alive /\ Len(f) = cap
        /\ \A i \in 1 .. Len(f) : f[i] = IF i <= k THEN Moved ELSE m.cells[own][i]
  <2> HIDE DEF own, len, cap
  <2>1. MovedOut(m, r, own, k)
    BY <1>g, <1>k, MoveOutEffect
  <2> HIDE DEF r
  <2> QED BY <1>g, <2>1 DEF MovedOut
<1> HIDE DEF r, s
<1>2. /\ r \in MemoryType /\ r.vec = m.vec /\ r.cells[own] = f
      /\ \A a \in Blocks : a # own => r.cells[a] = m.cells[a]
  BY <1>1 DEF Rewrites
<1>v. m.vec[v] = [begin |-> own, size |-> len, capacity |-> cap]
  BY <1>g, VectorType
<1> HIDE DEF len, cap
<1>m. Moved # Raw
  BY NamesAssumption
<1>6. Balanced(r)
  <2>1. \A i \in Nat : i \in 1 .. Len(f) /\ f[i] # Raw
                     <=> i \in 1 .. Len(m.cells[own]) /\ m.cells[own][i] # Raw
    BY <1>g, <1>k, <1>m, <1>1
  <2> HIDE DEF own
  <2> QED BY <1>g, <1>1, <2>1, BalanceSame
<1>8. /\ r.vec[v] = [begin |-> own, size |-> Len(s), capacity |-> cap]
      /\ Len(r.cells[own]) = cap /\ Len(s) <= cap
      /\ \A a \in Blocks : a \notin {v, own, own} => r.cells[a] = m.cells[a]
      /\ \A w \in AllVectors : w # v => r.vec[w] = m.vec[w]
  BY <1>g, <1>s, <1>1, <1>2, <1>v
<1>7. \A i \in 1 .. cap : r.cells[own][i] = IF i <= Len(s) THEN s[i] ELSE Raw
  <2> SUFFICES ASSUME NEW i \in 1 .. cap
               PROVE  f[i] = IF i <= len THEN s[i] ELSE Raw
    BY <1>2, <1>s
  <2>1. CASE i <= len
    BY <1>1, <1>g, <1>s, <2>1
  <2>2. CASE i > len
    <3>1. f[i] = m.cells[own][i]
      BY <1>1, <1>g, <1>k, <2>2
    <3>2. m.cells[own][i] = Raw
      BY <1>g, <2>2
    <3> QED BY <1>g, <2>2, <3>1, <3>2
  <2> QED BY <1>g, <2>1, <2>2
<1>9. /\ Len(r.cells[v]) = N[v]
      /\ own # v => \A i \in 1 .. N[v] : r.cells[v][i] = Raw
  <2> HIDE DEF own
  <2>1. CASE own = v
    BY <1>g, <1>8, <2>1
  <2>2. CASE own # v
    BY <1>g, <1>2, <2>2
  <2> QED BY <2>1, <2>2
<1> QED BY <1>g, <1>s, <1>2, <1>6, <1>7, <1>8, <1>9, BecomesRule DEF r, cap, own, s

-----------------------------------------------------------------------------
(* One operation after another. *)

LEMMA BecomesFacts ==
  ASSUME NEW m, NEW r, NEW v \in AllVectors, NEW b, NEW c, NEW s \in Seq(Objects),
         Becomes(m, r, v, b, c, s)
  PROVE  /\ Good(r) /\ Keeps(m, r, {v}) /\ Elements(r, v) = s
         /\ r.vec[v].begin = b /\ r.vec[v].size = Len(s) /\ r.vec[v].capacity = c
BY DEF Becomes

LEMMA BecomesThen ==
  ASSUME NEW m, NEW p, NEW r, NEW v, NEW b, NEW c, NEW s, NEW b2, NEW c2, NEW s2,
         Becomes(m, p, v, b, c, s), Becomes(p, r, v, b2, c2, s2)
  PROVE  Becomes(m, r, v, b2, c2, s2)
BY DEF Becomes, Keeps

LEMMA Prefix ==
  ASSUME NEW S, NEW xs \in Seq(S), NEW k \in 0 .. Len(xs)
  PROVE  /\ SubSeq(xs, 1, k) \in Seq(S) /\ Len(SubSeq(xs, 1, k)) = k
         /\ \A i \in 1 .. k : SubSeq(xs, 1, k)[i] = xs[i]
         /\ k = Len(xs) => SubSeq(xs, 1, k) = xs
<1>1. Len(xs) \in Nat /\ k \in Nat /\ k <= Len(xs)
  BY LenProperties
<1>2. \A i \in 1 .. k : xs[i] \in S
  BY <1>1, ElementOfSeq
<1>3. /\ SubSeq(xs, 1, k) \in Seq(S)
      /\ Len(SubSeq(xs, 1, k)) = IF 1 <= k THEN k - 1 + 1 ELSE 0
      /\ \A i \in 1 .. k - 1 + 1 : SubSeq(xs, 1, k)[i] = xs[1 + i - 1]
  BY <1>1, <1>2, SubSeqProperties
<1>4. /\ SubSeq(xs, 1, k) \in Seq(S) /\ Len(SubSeq(xs, 1, k)) = k
      /\ \A i \in 1 .. k : SubSeq(xs, 1, k)[i] = xs[i]
  BY <1>1, <1>3
<1>5. k = Len(xs) => SubSeq(xs, 1, k) = xs
  BY <1>4, SeqEqual
<1> QED BY <1>4, <1>5

LEMMA CopyIntoOK ==
  ASSUME NEW m, Good(m), NEW v \in AllVectors, NEW xs \in Seq(Objects),
         NEW k \in 0 .. Len(xs), m.vec[v].size + Len(xs) <= m.vec[v].capacity
  PROVE  LET r == CopyInto(m, v, xs, k)
         IN  IF k = Len(xs)
             THEN r.ok = TRUE /\ Becomes(m, r.mem, v, m.vec[v].begin, m.vec[v].capacity,
                                         Elements(m, v) \o xs)
             ELSE r.ok = FALSE /\ Becomes(m, r.mem, v, v, N[v], <<>>)
<1> DEFINE ys == SubSeq(xs, 1, k)
           own == m.vec[v].begin
           cap == m.vec[v].capacity
           p == Push(m, v, ys)
           r == CopyInto(m, v, xs, k)
<1>1. k \in Nat /\ k <= Len(xs) /\ Len(xs) \in Nat
  BY LenProperties
<1>2. ys \in Seq(Objects) /\ Len(ys) = k /\ (k = Len(xs) => ys = xs)
  BY Prefix
<1>3. r = IF k < Len(xs) THEN [mem |-> Reset(p, v), ok |-> FALSE]
                         ELSE [mem |-> p, ok |-> TRUE]
  BY DEF CopyInto, Threw, Returned
<1> HIDE DEF ys, r
<1>4. Becomes(m, p, v, own, cap, Elements(m, v) \o ys)
  <2>1. m.vec[v].size + Len(ys) <= m.vec[v].capacity
    BY <1>1, <1>2, GoodVector
  <2> QED BY <1>2, <2>1, PushOK
<1>5. CASE k = Len(xs)
  <2>1. r.mem = p /\ r.ok = TRUE
    BY <1>1, <1>3, <1>5
  <2> HIDE DEF p, own, cap
  <2> QED BY <1>2, <1>4, <1>5, <2>1 DEF r, own, cap
<1>6. CASE k # Len(xs)
  <2>1. r.mem = Reset(p, v) /\ r.ok = FALSE
    BY <1>1, <1>3, <1>6
  <2> HIDE DEF p, own, cap
  <2>2. Good(p)
    BY <1>4 DEF Becomes
  <2>3. Becomes(p, Reset(p, v), v, v, N[v], <<>>)
    BY <2>2, ResetOK
  <2>4. Becomes(m, Reset(p, v), v, v, N[v], <<>>)
    BY <1>4, <2>3, BecomesThen, Zenon
  <2> QED BY <1>6, <2>1, <2>4 DEF r
<1> QED BY <1>5, <1>6

-----------------------------------------------------------------------------
(* Growth. *)

(* The allocator has a block left for the vector that grows: the blocks in  *)
(* use each belong to another vector, and Tmp does not own one.             *)
LEMMA FreeExists ==
  ASSUME NEW m, Good(m), m.vec[Tmp].begin = Tmp
  PROVE  FreeBlock(m) \in Heap /\ m.cells[FreeBlock(m)] = <<>>
<1>1. SUFFICES ASSUME \A b \in Heap : m.cells[b] # <<>> PROVE FALSE
  BY Zenon DEF FreeBlock
<1> DEFINE owner == [b \in Heap |-> CHOOSE v \in Vectors : m.vec[v].begin = b]
<1>2. \A b \in Heap : owner[b] \in Vectors /\ m.vec[owner[b]].begin = b
  <2> SUFFICES ASSUME NEW b \in Heap
               PROVE  \E v \in Vectors : m.vec[v].begin = b
    BY Zenon
  <2>1. PICK v \in AllVectors : m.vec[v].begin = b
    BY <1>1 DEF Good, Layout
  <2>2. Tmp \notin Heap
    BY NamesAssumption DEF AllVectors
  <2> QED BY <2>1, <2>2 DEF AllVectors
<1>3. owner \in [Heap -> Vectors]
  BY <1>2
<1> HIDE DEF owner
<1>4. PICK x, y \in Heap : x # y /\ owner[x] = owner[y]
  BY <1>3, HeapAssumption, FS_PigeonHole, Zenon
<1> QED BY <1>2, <1>4

(* What growing leaves of the elements of s when it throws after k of them. *)
Kept(s, k) == IF GrowCopies THEN s ELSE MovedFrom(s, k)

(* Half way through grow_to_capacity(): block b holds the first k elements  *)
(* of v, whose own block holds what is left of all of them.                 *)
Halfway(m, r, v, b, n, k) ==
  LET own == m.vec[v].begin
  IN  /\ r \in MemoryType /\ Balanced(r) /\ r.vec = m.vec
      /\ \A a \in Blocks : a \notin {own, b} => r.cells[a] = m.cells[a]
      /\ Len(r.cells[b]) = n
      /\ \A i \in 1 .. n : r.cells[b][i] = IF i <= k THEN Elements(m, v)[i] ELSE Raw
      /\ Len(r.cells[own]) = m.vec[v].capacity
      /\ \A i \in 1 .. m.vec[v].capacity :
           r.cells[own][i] = IF i <= m.vec[v].size THEN Kept(Elements(m, v), k)[i] ELSE Raw

LEMMA KeptType ==
  ASSUME NEW s \in Seq(Objects), NEW k \in 0 .. Len(s)
  PROVE  /\ Kept(s, k) \in Seq(Objects) /\ Len(Kept(s, k)) = Len(s)
         /\ \A i \in 1 .. Len(s) :
              Kept(s, k)[i] = IF ~GrowCopies /\ i <= k THEN Moved ELSE s[i]
<1> DEFINE t == [i \in 1 .. Len(s) |-> IF i <= k THEN Moved ELSE s[i]]
<1>1. DOMAIN s = 1 .. Len(s) /\ Len(s) \in Nat
  BY LenProperties
<1>2. Moved \in Objects /\ \A i \in 1 .. Len(s) : s[i] \in Objects
  BY ElementOfSeq, NamesAssumption DEF Objects, Cells
<1>3. t \in [1 .. Len(s) -> Objects]
  BY <1>1, <1>2
<1>4. t \in Seq(Objects) /\ Len(t) = Len(s)
  BY <1>1, <1>3, IsSequence
<1>5. Kept(s, k) = IF GrowCopies THEN s ELSE t
  BY <1>1 DEF Kept, MovedFrom
<1>6. \A i \in 1 .. Len(s) : t[i] = IF i <= k THEN Moved ELSE s[i]
  OBVIOUS
<1> HIDE DEF t
<1> QED BY <1>4, <1>5, <1>6

LEMMA GrowHalfway ==
  ASSUME NEW m, Good(m), NEW v \in AllVectors, NEW n \in Nat, n > m.vec[v].capacity,
         NEW k \in 0 .. m.vec[v].size, NEW new \in Heap, m.cells[new] = <<>>
  PROVE  LET own   == m.vec[v].begin
             built == Construct(Alloc(m, new, n), new, 0, SubSeq(Elements(m, v), 1, k))
         IN  Halfway(m, IF GrowCopies THEN built ELSE MoveOut(built, own, k), v, new, n, k)
<1> DEFINE own == m.vec[v].begin
           len == m.vec[v].size
           cap == m.vec[v].capacity
           s == Elements(m, v)
           ys == SubSeq(s, 1, k)
           x == Alloc(m, new, n)
           y == Construct(x, new, 0, ys)
           z == MoveOut(y, own, k)
<1>g. /\ m \in MemoryType /\ Balanced(m) /\ VectorOK(m, v)
      /\ v \in Blocks /\ own \in Blocks /\ own \in Heap \cup {v} /\ len \in Nat
      /\ Len(m.cells[own]) = cap /\ cap \in Nat /\ len <= cap
      /\ \A i \in 1 .. Len(m.cells[own]) : m.cells[own][i] # Raw <=> i <= len
      /\ s \in Seq(Objects) /\ Len(s) = len
      /\ \A i \in 1 .. len : s[i] = m.cells[own][i]
  BY GoodVector
<1>b. new \in Blocks /\ own # new /\ k \in Nat /\ k <= len
  <2>1. cap > 0 /\ Len(m.cells[new]) = 0
    BY <1>g, EmptySeq DEF VectorOK
  <2> QED BY <1>g, <2>1 DEF Blocks
<1>y. /\ ys \in Seq(Objects) /\ Len(ys) = k /\ ys \in Seq(Cells)
      /\ \A i \in 1 .. k : ys[i] = s[i] /\ ys[i] # Raw
  <2> HIDE DEF s, own, len, cap
  <2>1. /\ ys \in Seq(Objects) /\ Len(ys) = k
        /\ \A i \in 1 .. k : ys[i] = s[i]
    BY <1>g, <1>b, Prefix
  <2> HIDE DEF ys
  <2>2. \A i \in 1 .. k : ys[i] \in Objects
    BY <1>b, <2>1, ElementOfSeq
  <2>3. ys \in Seq(Cells)
    BY <2>1 DEF Objects
  <2> QED BY <2>1, <2>2, <2>3 DEF Objects
<1>k. /\ Kept(s, k) \in Seq(Objects) /\ Len(Kept(s, k)) = len
      /\ \A i \in 1 .. len : Kept(s, k)[i] = IF ~GrowCopies /\ i <= k THEN Moved ELSE s[i]
  <2> HIDE DEF s, own, len, cap
  <2> QED BY <1>g, <1>b, KeptType
<1> HIDE DEF ys, s, own, len, cap
<1>1. Allocated(m, x, new, n)
  BY <1>g, <1>b, AllocFree
<1>2. /\ x \in MemoryType /\ Balanced(x) /\ x.vec = m.vec
      /\ \A a \in Blocks : a # new => x.cells[a] = m.cells[a]
      /\ Len(x.cells[new]) = n /\ \A i \in 1 .. n : x.cells[new][i] = Raw
  BY <1>1 DEF Allocated, Changes, AllRaw
<1> HIDE DEF x
<1>3. Constructed(x, y, new, 0, ys)
  BY <1>2, <1>b, <1>y, ConstructEffect
<1> HIDE DEF y
<1>4. PICK f \in Seq(Cells) :
        /\ Rewrites(x, y, new, f) /\ y.alive = x.alive + k /\ Len(f) = n
        /\ \A i \in 1 .. Len(f) :
             f[i] = IF i \in 0 + 1 .. 0 + k THEN ys[i - 0] ELSE x.cells[new][i]
  BY <1>2, <1>3, <1>y DEF Constructed
<1>5. Balanced(y)
  <2>1. k <= n
    BY <1>g, <1>b DEF cap
  <2>2. \A i \in 0 + 1 .. 0 + k : x.cells[new][i] = Raw /\ f[i] # Raw
    BY <1>2, <1>4, <1>b, <1>y, <2>1
  <2>3. \A i \in 1 .. Len(f) : i \notin 0 + 1 .. 0 + k => f[i] = x.cells[new][i]
    BY <1>4
  <2>4. 0 \in Nat /\ 0 + k <= Len(f) /\ Len(f) = Len(x.cells[new])
    BY <1>2, <1>4, <1>b, <2>1
  <2> QED BY <1>2, <1>4, <1>b, <2>2, <2>3, <2>4, BalanceAdds, Zenon
<1>6. /\ y \in MemoryType /\ y.vec = m.vec /\ y.cells[own] = m.cells[own]
      /\ \A a \in Blocks : a \notin {own, new} => y.cells[a] = m.cells[a]
      /\ y.cells[new] = f
  BY <1>2, <1>4, <1>b, <1>g DEF Rewrites
<1>7. \A i \in 1 .. n : f[i] = IF i <= k THEN s[i] ELSE Raw
  BY <1>2, <1>4, <1>b, <1>y
<1>h. MovedOut(y, z, own, k)
  BY <1>6, <1>g, <1>b, MoveOutEffect
<1> HIDE DEF z
<1>8. PICK g \in Seq(Cells) :
        /\ Rewrites(y, z, own, g) /\ z.alive = y.alive /\ Len(g) = cap
        /\ \A i \in 1 .. Len(g) : g[i] = IF i <= k THEN Moved ELSE m.cells[own][i]
  BY <1>h, <1>6, <1>g DEF MovedOut
<1>9. Balanced(z)
  <2>1. \A i \in Nat : i \in 1 .. Len(g) /\ g[i] # Raw
                   <=> i \in 1 .. Len(y.cells[own]) /\ y.cells[own][i] # Raw
    <3>1. Moved # Raw
      BY NamesAssumption
    <3>2. y.cells[own] = m.cells[own] /\ Len(m.cells[own]) = cap /\ Len(g) = cap
      BY <1>6, <1>8, <1>g
    <3>3. \A i \in 1 .. cap : m.cells[own][i] # Raw <=> i <= len
      BY <1>g
    <3>4. \A i \in 1 .. cap : g[i] = IF i <= k THEN Moved ELSE m.cells[own][i]
      BY <1>8
    <3>5. \A i \in 1 .. cap : g[i] # Raw <=> m.cells[own][i] # Raw
      BY <1>b, <1>g, <3>1, <3>3, <3>4, SMTT(30)
    <3> QED BY <3>2, <3>5
  <2>2. /\ y \in MemoryType /\ own \in Blocks /\ Balanced(y)
        /\ Rewrites(y, z, own, g) /\ z.alive = y.alive
    BY <1>5, <1>6, <1>8, <1>g
  <2> QED BY <2>1, <2>2, BalanceSame
<1>10. CASE GrowCopies
  <2>1. \A i \in 1 .. cap : y.cells[own][i] = IF i <= len THEN Kept(s, k)[i] ELSE Raw
    BY <1>6, <1>g, <1>k, <1>10
  <2>2. Halfway(m, y, v, new, n, k)
    BY <1>4, <1>5, <1>6, <1>7, <1>g, <2>1 DEF Halfway, s, own, len, cap
  <2> QED BY <1>10, <2>2 DEF x, y, ys, s
<1>11. CASE ~GrowCopies
  <2>1. \A i \in 1 .. cap : g[i] = IF i <= len THEN Kept(s, k)[i] ELSE Raw
    <3> SUFFICES ASSUME NEW i \in 1 .. cap
                 PROVE  g[i] = IF i <= len THEN Kept(s, k)[i] ELSE Raw
      OBVIOUS
    <3>1. g[i] = IF i <= k THEN Moved ELSE m.cells[own][i]
      BY <1>8
    <3>2. CASE i <= len
      <4>1. i \in 1 .. len
        BY <1>g, <3>2
      <4>2. s[i] = m.cells[own][i] /\ Kept(s, k)[i] = IF i <= k THEN Moved ELSE s[i]
        BY <1>g, <1>k, <1>11, <4>1
      <4> QED BY <3>1, <3>2, <4>2
    <3>3. CASE ~(i <= len)
      <4>1. m.cells[own][i] = Raw /\ ~(i <= k)
        BY <1>g, <1>b, <3>3
      <4> QED BY <3>1, <3>3, <4>1
    <3> QED BY <3>2, <3>3
  <2>2. /\ z \in MemoryType /\ z.vec = m.vec /\ z.cells[own] = g /\ z.cells[new] = f
        /\ \A a \in Blocks : a \notin {own, new} => z.cells[a] = m.cells[a]
    BY <1>6, <1>8, <1>b DEF Rewrites
  <2>3. Halfway(m, z, v, new, n, k)
    BY <1>4, <1>7, <1>8, <1>9, <2>1, <2>2 DEF Halfway, s, own, len, cap
  <2> QED BY <1>11, <2>3 DEF x, y, z, ys, s, own
<1> QED BY <1>10, <1>11

LEMMA GrowFails ==
  ASSUME NEW m, Good(m), NEW v \in AllVectors, NEW n \in Nat, n > m.vec[v].capacity,
         NEW k \in 0 .. m.vec[v].size, NEW new \in Heap, m.cells[new] = <<>>,
         NEW h, Halfway(m, h, v, new, n, k)
  PROVE  Becomes(m, Abandon(h, new, k), v, m.vec[v].begin, m.vec[v].capacity,
                 Kept(Elements(m, v), k))
<1> DEFINE own == m.vec[v].begin
           len == m.vec[v].size
           cap == m.vec[v].capacity
           s == Elements(m, v)
           t == Kept(s, k)
           x == DestroyRange(h, new, 0, k)
           y == Dealloc(x, new)
<1>g. /\ m \in MemoryType /\ VectorOK(m, v)
      /\ v \in Blocks /\ own \in Blocks /\ own \in Heap \cup {v} /\ len \in Nat
      /\ Len(m.cells[own]) = cap /\ cap \in Nat /\ len <= cap
      /\ s \in Seq(Objects) /\ Len(s) = len
      /\ Len(m.cells[v]) = N[v]
      /\ own # v => \A i \in 1 .. N[v] : m.cells[v][i] = Raw
  BY GoodVector
<1>b. /\ new \in Blocks /\ own # new /\ new # v /\ k \in Nat /\ k <= len /\ cap > 0
      /\ k <= n
  <2>1. cap > 0 /\ Len(m.cells[new]) = 0 /\ v \notin Heap
    BY <1>g, EmptySeq, VectorType DEF VectorOK
  <2> QED BY <1>g, <2>1 DEF Blocks
<1>v. m.vec[v] = [begin |-> own, size |-> len, capacity |-> cap]
  BY <1>g, VectorType
<1> HIDE DEF own, len, cap
<1>t. t \in Seq(Objects) /\ Len(t) = len
  <2>1. k \in 0 .. Len(s)
    BY <1>g, <1>b
  <2> HIDE DEF s
  <2> QED BY <1>g, <2>1, KeptType
<1>h. /\ h \in MemoryType /\ Balanced(h) /\ h.vec = m.vec
      /\ \A a \in Blocks : a \notin {own, new} => h.cells[a] = m.cells[a]
      /\ Len(h.cells[new]) = n
      /\ \A i \in 1 .. n : h.cells[new][i] = IF i <= k THEN s[i] ELSE Raw
      /\ Len(h.cells[own]) = cap
      /\ \A i \in 1 .. cap : h.cells[own][i] = IF i <= len THEN t[i] ELSE Raw
  BY DEF Halfway, own, len, cap
<1>1. \A i \in 1 .. Len(h.cells[new]) : h.cells[new][i] # Raw <=> i <= k
  <2>1. \A i \in 1 .. len : s[i] \in Objects
    BY <1>g, ElementOfSeq
  <2>2. \A i \in 1 .. n : i <= k => s[i] # Raw
    BY <1>b, <1>g, <2>1 DEF Objects
  <2> QED BY <1>h, <2>2
<1> HIDE DEF s, t
<1>2. Emptied(h, x, new)
  BY <1>h, <1>b, <1>1, DestroyAll
<1> HIDE DEF x
<1>3. /\ x \in MemoryType /\ Balanced(x) /\ x.vec = m.vec /\ AllRaw(x.cells[new])
      /\ \A a \in Blocks : a # new => x.cells[a] = h.cells[a]
  BY <1>2, <1>h DEF Emptied, Changes
<1>4. Freed(x, y, new)
  BY <1>3, <1>b, DeallocRaw
<1> HIDE DEF y
<1>5. /\ y \in MemoryType /\ Balanced(y) /\ y.vec = m.vec /\ y.cells[new] = <<>>
      /\ \A a \in Blocks : a # new => y.cells[a] = h.cells[a]
  BY <1>3, <1>4 DEF Freed, Changes
<1>6. /\ y.vec[v] = [begin |-> own, size |-> Len(t), capacity |-> cap]
      /\ Len(y.cells[own]) = cap /\ Len(t) <= cap
      /\ \A i \in 1 .. cap : y.cells[own][i] = IF i <= Len(t) THEN t[i] ELSE Raw
      /\ \A a \in Blocks : a \notin {v, own, own} => y.cells[a] = m.cells[a]
      /\ \A w \in AllVectors : w # v => y.vec[w] = m.vec[w]
  BY <1>5, <1>h, <1>b, <1>v, <1>t, <1>g
<1>7. /\ Len(y.cells[v]) = N[v]
      /\ own # v => \A i \in 1 .. N[v] : y.cells[v][i] = Raw
  <2>1. CASE own = v
    BY <1>5, <1>h, <1>g, <1>b, <2>1
  <2>2. CASE own # v
    BY <1>5, <1>h, <1>g, <1>b, <2>2
  <2> QED BY <2>1, <2>2
<1>8. Becomes(m, y, v, own, cap, t)
  BY <1>5, <1>6, <1>7, <1>g, <1>b, <1>t, BecomesRule DEF own
<1> QED BY <1>8 DEF Abandon, x, y, t, s, own, cap

LEMMA GrowSucceeds ==
  ASSUME NEW m, Good(m), NEW v \in AllVectors, NEW n \in Nat, n > m.vec[v].capacity,
         NEW new \in Heap, m.cells[new] = <<>>,
         NEW h, Halfway(m, h, v, new, n, m.vec[v].size)
  PROVE  Becomes(m, Relocate(DestroyRange(h, m.vec[v].begin, 0, m.vec[v].size), v, new, n),
                 v, new, n, Elements(m, v))
<1> DEFINE own == m.vec[v].begin
           len == m.vec[v].size
           cap == m.vec[v].capacity
           s == Elements(m, v)
           t == Kept(s, len)
           x == DestroyRange(h, own, 0, len)
           y == IF own = v THEN x ELSE Dealloc(x, own)
           z == Relocate(x, v, new, n)
<1>g. /\ m \in MemoryType /\ VectorOK(m, v)
      /\ v \in Blocks /\ own \in Blocks /\ own \in Heap \cup {v} /\ len \in Nat
      /\ Len(m.cells[own]) = cap /\ cap \in Nat /\ len <= cap
      /\ s \in Seq(Objects) /\ Len(s) = len
      /\ Len(m.cells[v]) = N[v]
      /\ own # v => \A i \in 1 .. N[v] : m.cells[v][i] = Raw
  BY GoodVector
<1>b. /\ new \in Blocks /\ own # new /\ new # v /\ v \notin Heap /\ cap > 0
      /\ n > 0 /\ len <= n
  <2>1. cap > 0 /\ Len(m.cells[new]) = 0 /\ v \notin Heap
    BY <1>g, EmptySeq, VectorType DEF VectorOK
  <2> QED BY <1>g, <2>1, SMTT(30) DEF Blocks
<1>v. m.vec[v] = [begin |-> own, size |-> len, capacity |-> cap]
  BY <1>g, VectorType
<1> HIDE DEF own, len, cap
<1>t. t \in Seq(Objects) /\ Len(t) = len
  <2>1. len \in 0 .. Len(s)
    BY <1>g, <1>b
  <2> HIDE DEF s
  <2> QED BY <1>g, <2>1, KeptType
<1>h. /\ h \in MemoryType /\ Balanced(h) /\ h.vec = m.vec
      /\ \A a \in Blocks : a \notin {own, new} => h.cells[a] = m.cells[a]
      /\ Len(h.cells[new]) = n
      /\ \A i \in 1 .. n : h.cells[new][i] = IF i <= len THEN s[i] ELSE Raw
      /\ Len(h.cells[own]) = cap
      /\ \A i \in 1 .. cap : h.cells[own][i] = IF i <= len THEN t[i] ELSE Raw
  BY DEF Halfway, own, len, cap
<1>1. \A i \in 1 .. Len(h.cells[own]) : h.cells[own][i] # Raw <=> i <= len
  <2>1. \A i \in 1 .. len : t[i] \in Objects
    BY <1>t, ElementOfSeq
  <2>2. \A i \in 1 .. cap : i <= len => t[i] # Raw
    BY <1>g, <2>1 DEF Objects
  <2> QED BY <1>h, <2>2
<1> HIDE DEF s, t
<1>2. Emptied(h, x, own)
  BY <1>h, <1>b, <1>g, <1>1, DestroyAll
<1>3. z = [y EXCEPT !.vec[v].begin = new, !.vec[v].capacity = n]
  <2>1. x.vec = m.vec
    BY <1>2, <1>h DEF Emptied, Changes
  <2> HIDE DEF x
  <2> QED BY <2>1 DEF Relocate, IsSmall, own
<1> HIDE DEF x
<1>4. /\ x \in MemoryType /\ Balanced(x) /\ x.vec = m.vec
      /\ Len(x.cells[own]) = cap /\ AllRaw(x.cells[own])
      /\ \A a \in Blocks : a # own => x.cells[a] = h.cells[a]
  BY <1>2, <1>h DEF Emptied, Changes
<1>5. /\ y \in MemoryType /\ Balanced(y) /\ y.vec = m.vec
      /\ \A a \in Blocks : a # own => y.cells[a] = h.cells[a]
      /\ own # v => y.cells[own] = <<>>
      /\ own = v => Len(y.cells[own]) = cap /\ AllRaw(y.cells[own])
  <2>1. CASE own = v
    BY <1>4, <2>1
  <2>2. CASE own # v
    <3> DEFINE d == Dealloc(x, own)
    <3>1. Freed(x, d, own)
      BY <1>4, <1>g, DeallocRaw
    <3>2. y = d
      BY <2>2
    <3> HIDE DEF d, y
    <3> QED BY <1>4, <2>2, <3>1, <3>2 DEF Freed, Changes
  <2> QED BY <2>1, <2>2
<1> HIDE DEF y, z
<1>6. Restored(y, z, v, new, n)
  <2> DEFINE r == [y EXCEPT !.vec[v].begin = new, !.vec[v].capacity = n]
  <2>1. Restored(y, r, v, new, n)
    BY <1>5, <1>b, StorageEffect, Zenon
  <2> QED BY <1>3, <2>1
<1>7. /\ z \in MemoryType /\ z.cells = y.cells /\ z.alive = y.alive
      /\ z.vec[v] = [begin |-> new, size |-> Len(s), capacity |-> n]
      /\ \A w \in AllVectors : w # v => z.vec[w] = m.vec[w]
  BY <1>5, <1>6, <1>v, <1>g DEF Restored
<1>8. Balanced(z)
  BY <1>5, <1>7, BalancedVec
<1>9. /\ Len(z.cells[new]) = n /\ Len(s) <= n
      /\ \A i \in 1 .. n : z.cells[new][i] = IF i <= Len(s) THEN s[i] ELSE Raw
      /\ \A a \in Blocks : a \notin {v, own, new} => z.cells[a] = m.cells[a]
      /\ own \in Heap /\ own # new => z.cells[own] = <<>>
  BY <1>5, <1>7, <1>h, <1>b, <1>g
<1>10. /\ Len(z.cells[v]) = N[v]
       /\ new # v => \A i \in 1 .. N[v] : z.cells[v][i] = Raw
  <2>1. CASE own = v
    BY <1>5, <1>7, <1>g, <2>1 DEF AllRaw
  <2>2. CASE own # v
    BY <1>5, <1>7, <1>h, <1>g, <1>b, <2>2
  <2> QED BY <2>1, <2>2
<1>11. Becomes(m, z, v, new, n, s)
  BY <1>7, <1>8, <1>9, <1>10, <1>g, <1>b, BecomesRule DEF own
<1> QED BY <1>11 DEF x, z, s, own, len

LEMMA GrowOK ==
  ASSUME NEW m, Good(m), m.vec[Tmp].begin = Tmp, NEW v \in AllVectors, NEW n \in Nat,
         n > m.vec[v].capacity, NEW k \in 0 .. m.vec[v].size
  PROVE  LET r == Grow(m, v, n, k)
         IN  IF k = m.vec[v].size
             THEN r.ok = TRUE /\ \E b \in Heap : Becomes(m, r.mem, v, b, n, Elements(m, v))
             ELSE r.ok = FALSE /\ Becomes(m, r.mem, v, m.vec[v].begin, m.vec[v].capacity,
                                          Kept(Elements(m, v), k))
<1> DEFINE own == m.vec[v].begin
           len == m.vec[v].size
           new == FreeBlock(m)
           built == Construct(Alloc(m, new, n), new, 0, SubSeq(Elements(m, v), 1, k))
           h == IF GrowCopies THEN built ELSE MoveOut(built, own, k)
           r == Grow(m, v, n, k)
<1>1. new \in Heap /\ m.cells[new] = <<>>
  BY FreeExists
<1>2. r = IF k < len THEN [mem |-> Abandon(h, new, k), ok |-> FALSE]
          ELSE [mem |-> Relocate(DestroyRange(h, own, 0, len), v, new, n), ok |-> TRUE]
  BY DEF Grow, Threw, Returned
<1>3. len \in Nat /\ k \in Nat /\ k <= len
  BY GoodVector
<1> HIDE DEF new, r
<1>4. Halfway(m, h, v, new, n, k)
  BY <1>1, GrowHalfway
<1> HIDE DEF h
<1>5. CASE k = len
  <2>1. r.ok = TRUE /\ r.mem = Relocate(DestroyRange(h, own, 0, len), v, new, n)
    BY <1>2, <1>3, <1>5
  <2>2. Becomes(m, r.mem, v, new, n, Elements(m, v))
    BY <1>1, <1>4, <1>5, <2>1, GrowSucceeds
  <2> QED BY <1>1, <1>5, <2>1, <2>2 DEF r
<1>6. CASE k # len
  <2>1. r.ok = FALSE /\ r.mem = Abandon(h, new, k)
    BY <1>2, <1>3, <1>6
  <2>2. Becomes(m, r.mem, v, own, m.vec[v].capacity, Kept(Elements(m, v), k))
    BY <1>1, <1>4, <2>1, GrowFails
  <2> QED BY <1>6, <2>1, <2>2 DEF r
<1> QED BY <1>5, <1>6

LEMMA BecomesSame ==
  ASSUME NEW m, Good(m), NEW v \in AllVectors
  PROVE  Becomes(m, m, v, m.vec[v].begin, m.vec[v].capacity, Elements(m, v))
<1>1. /\ Len(Elements(m, v)) = m.vec[v].size /\ m \in MemoryType
  BY GoodVector
<1>2. m.vec[v] = [begin |-> m.vec[v].begin, size |-> Len(Elements(m, v)),
                  capacity |-> m.vec[v].capacity]
  BY <1>1, VectorType
<1> QED BY <1>2 DEF Becomes, Keeps

(* v has the elements s and room for n. *)
Roomy(m, r, v, s, n) ==
  \E b \in Heap \cup {v} : \E c \in Nat : c >= n /\ Becomes(m, r, v, b, c, s)

LEMMA ReserveOK ==
  ASSUME NEW m, Good(m), m.vec[Tmp].begin = Tmp, NEW v \in AllVectors, NEW n \in Nat,
         NEW k \in 0 .. m.vec[v].size
  PROVE  LET r == Reserve(m, v, n, k)
         IN  IF n <= m.vec[v].capacity \/ k = m.vec[v].size
             THEN r.ok = TRUE /\ Roomy(m, r.mem, v, Elements(m, v), n)
             ELSE r.ok = FALSE /\ Becomes(m, r.mem, v, m.vec[v].begin, m.vec[v].capacity,
                                          Kept(Elements(m, v), k))
<1> DEFINE r == Reserve(m, v, n, k)
           g == Grow(m, v, n, k)
<1>1. m.vec[v].capacity \in Nat /\ m.vec[v].begin \in Heap \cup {v}
  BY GoodVector
<1>2. r = IF n > m.vec[v].capacity THEN g ELSE [mem |-> m, ok |-> TRUE]
  BY DEF Reserve, Returned
<1> HIDE DEF g, r
<1>3. CASE n <= m.vec[v].capacity
  <2>1. r.ok = TRUE /\ r.mem = m
    BY <1>1, <1>2, <1>3
  <2>2. Becomes(m, m, v, m.vec[v].begin, m.vec[v].capacity, Elements(m, v))
    BY BecomesSame
  <2>3. m.vec[v].capacity >= n
    BY <1>1, <1>3
  <2>4. Roomy(m, m, v, Elements(m, v), n)
    BY <1>1, <2>2, <2>3 DEF Roomy
  <2> QED BY <1>3, <2>1, <2>4 DEF r
<1>4. CASE ~(n <= m.vec[v].capacity)
  <2>1. n > m.vec[v].capacity /\ r = g
    BY <1>1, <1>2, <1>4
  <2>2. IF k = m.vec[v].size
        THEN g.ok = TRUE /\ \E b \in Heap : Becomes(m, g.mem, v, b, n, Elements(m, v))
        ELSE g.ok = FALSE /\ Becomes(m, g.mem, v, m.vec[v].begin, m.vec[v].capacity,
                                     Kept(Elements(m, v), k))
    BY <2>1, GrowOK DEF g
  <2>3. CASE k = m.vec[v].size
    <3>1. PICK b \in Heap : Becomes(m, g.mem, v, b, n, Elements(m, v))
      BY <2>2, <2>3
    <3>2. n >= n /\ b \in Heap \cup {v}
      OBVIOUS
    <3>3. Roomy(m, g.mem, v, Elements(m, v), n)
      BY <3>1, <3>2 DEF Roomy
    <3> QED BY <2>1, <2>2, <2>3, <3>3 DEF r
  <2>4. CASE k # m.vec[v].size
    BY <1>4, <2>1, <2>2, <2>4 DEF r
  <2> QED BY <2>3, <2>4
<1> QED BY <1>3, <1>4

LEMMA RoomyFacts ==
  ASSUME NEW m, NEW r, NEW v \in AllVectors, NEW s \in Seq(Objects), NEW n \in Nat,
         Roomy(m, r, v, s, n)
  PROVE  /\ Good(r) /\ Keeps(m, r, {v}) /\ Elements(r, v) = s
         /\ r.vec[v].size = Len(s) /\ r.vec[v].capacity >= n
         /\ r.vec[v].begin \in Heap \cup {v} /\ r.vec[v].capacity \in Nat
<1>1. PICK b \in Heap \cup {v} : \E c \in Nat : c >= n /\ Becomes(m, r, v, b, c, s)
  BY DEF Roomy
<1>2. PICK c \in Nat : c >= n /\ Becomes(m, r, v, b, c, s)
  BY <1>1
<1>3. /\ Good(r) /\ Keeps(m, r, {v}) /\ Elements(r, v) = s
      /\ r.vec[v].begin = b /\ r.vec[v].size = Len(s) /\ r.vec[v].capacity = c
  BY <1>2, BecomesFacts, Zenon
<1> QED BY <1>2, <1>3

-----------------------------------------------------------------------------
(* Assigning and resizing. *)

LEMMA NothingAppended ==
  ASSUME NEW S, NEW xs \in Seq(S)
  PROVE  <<>> \o xs = xs /\ xs \o <<>> = xs
BY ConcatEmptySeq

CopyResult(m, r, v, xs, k) ==
  /\ Good(r.mem) /\ Keeps(m, r.mem, {v})
  /\ IF k = Len(xs) THEN r.ok = TRUE /\ Elements(r.mem, v) = xs
                    ELSE r.ok = FALSE /\ Elements(r.mem, v) = <<>>

LEMMA CopyAssignOK ==
  ASSUME NEW m, Good(m), m.vec[Tmp].begin = Tmp, NEW v \in AllVectors, v # Tmp,
         NEW xs \in Seq(Objects), NEW k \in 0 .. Len(xs)
  PROVE  CopyResult(m, CopyAssign(m, v, xs, k), v, xs, k)
<1> DEFINE c == Clear(m, v)
           e == Reserve(c, v, Len(xs), 0)
           res == CopyAssign(m, v, xs, k)
<1>0. Len(xs) \in Nat /\ <<>> \in Seq(Objects) /\ Len(<<>>) = 0
  BY LenProperties, EmptySeq
<1>1. Becomes(m, c, v, m.vec[v].begin, m.vec[v].capacity, <<>>)
  BY ClearOK
<1>2. res = CopyInto(e.mem, v, xs, k)
  BY DEF CopyAssign
<1> HIDE DEF c, res
<1>3. /\ Good(c) /\ Keeps(m, c, {v}) /\ Elements(c, v) = <<>> /\ c.vec[v].size = 0
  BY <1>0, <1>1 DEF Becomes
<1>4. c.vec[Tmp].begin = Tmp
  BY <1>3 DEF Keeps, AllVectors
<1> DEFINE p == e.mem
           need == Len(xs)
           t == Elements(c, v)
<1>5. Roomy(c, p, v, t, need)
  <2>1. 0 \in 0 .. c.vec[v].size
    BY <1>3
  <2> QED BY <1>0, <1>3, <1>4, <2>1, ReserveOK
<1>t. t \in Seq(Objects) /\ need \in Nat /\ t = <<>> /\ Len(t) = 0
  BY <1>0, <1>3
<1>p. res = CopyInto(p, v, xs, k)
  BY <1>2
<1> HIDE DEF e, p, need, t
<1>6. /\ Good(p) /\ Keeps(c, p, {v}) /\ Elements(p, v) = t
      /\ p.vec[v].size = Len(t) /\ p.vec[v].capacity >= need
      /\ p.vec[v].capacity \in Nat
  <2>1. t \in Seq(Objects) /\ need \in Nat
    BY <1>t
  <2>2. /\ Good(p) /\ Keeps(c, p, {v}) /\ Elements(p, v) = t
        /\ p.vec[v].size = Len(t) /\ p.vec[v].capacity >= need
        /\ p.vec[v].begin \in Heap \cup {v} /\ p.vec[v].capacity \in Nat
    BY <1>5, <2>1, RoomyFacts, Zenon
  <2> QED BY <2>2
<1>7. Keeps(m, p, {v})
  BY <1>3, <1>6 DEF Keeps
<1>8. IF k = Len(xs)
      THEN res.ok = TRUE /\ Becomes(p, res.mem, v, p.vec[v].begin, p.vec[v].capacity,
                                  Elements(p, v) \o xs)
      ELSE res.ok = FALSE /\ Becomes(p, res.mem, v, v, N[v], <<>>)
  <2>1. p.vec[v].size + Len(xs) <= p.vec[v].capacity
    BY <1>t, <1>6 DEF need
  <2> QED BY <1>p, <1>6, <2>1, CopyIntoOK
<1>9. Elements(p, v) \o xs = xs
  BY <1>6, <1>t, NothingAppended
<1>10. CASE k = Len(xs)
  <2>1. res.ok = TRUE /\ Good(res.mem) /\ Keeps(p, res.mem, {v}) /\ Elements(res.mem, v) = xs
    BY <1>8, <1>9, <1>10 DEF Becomes
  <2> QED BY <1>7, <1>10, <2>1 DEF Keeps, CopyResult, res
<1>11. CASE k # Len(xs)
  <2>1. res.ok = FALSE /\ Good(res.mem) /\ Keeps(p, res.mem, {v}) /\ Elements(res.mem, v) = <<>>
    BY <1>8, <1>11 DEF Becomes
  <2> QED BY <1>7, <1>11, <2>1 DEF Keeps, CopyResult, res
<1> QED BY <1>10, <1>11

LEMMA ShrinkOK ==
  ASSUME NEW m, Good(m), NEW v \in AllVectors, NEW n \in Nat, n < m.vec[v].size
  PROVE  Becomes(m, [DestroyRange(m, m.vec[v].begin, n, m.vec[v].size - n)
                       EXCEPT !.vec[v].size = n],
                 v, m.vec[v].begin, m.vec[v].capacity, SubSeq(Elements(m, v), 1, n))
<1> DEFINE own == m.vec[v].begin
           len == m.vec[v].size
           cap == m.vec[v].capacity
           s == SubSeq(Elements(m, v), 1, n)
           gone == len - n
           d == DestroyRange(m, own, n, gone)
           r == [d EXCEPT !.vec[v].size = n]
<1>g. /\ m \in MemoryType /\ Balanced(m) /\ VectorOK(m, v)
      /\ v \in Blocks /\ own \in Blocks /\ own \in Heap \cup {v} /\ len \in Nat
      /\ Len(m.cells[own]) = cap /\ cap \in Nat /\ len <= cap
      /\ \A i \in 1 .. Len(m.cells[own]) : m.cells[own][i] # Raw <=> i <= len
      /\ Elements(m, v) \in Seq(Objects) /\ Len(Elements(m, v)) = len
      /\ \A i \in 1 .. len : Elements(m, v)[i] = m.cells[own][i]
      /\ Len(m.cells[v]) = N[v]
      /\ own # v => \A i \in 1 .. N[v] : m.cells[v][i] = Raw
  BY GoodVector
<1>n. gone \in Nat /\ n + gone = len /\ n < len /\ cap > 0
  <2>1. len \in Nat /\ n \in Nat /\ n < len /\ len <= cap /\ cap \in Nat
    BY <1>g
  <2> HIDE DEF len, cap
  <2> QED BY ONLY <2>1
<1>v. m.vec[v] = [begin |-> own, size |-> len, capacity |-> cap]
  BY <1>g, VectorType
<1>s. s \in Seq(Objects) /\ Len(s) = n /\ \A i \in 1 .. n : s[i] = m.cells[own][i]
  <2> DEFINE t == Elements(m, v)
  <2>1. t \in Seq(Objects) /\ n \in 0 .. Len(t) /\ s = SubSeq(t, 1, n)
    BY <1>g, <1>n
  <2>2. \A i \in 1 .. n : t[i] = m.cells[own][i]
    BY <1>g, <1>n
  <2> HIDE DEF t, s, own, len
  <2>3. s \in Seq(Objects) /\ Len(s) = n /\ \A i \in 1 .. n : s[i] = t[i]
    BY <2>1, Prefix
  <2> QED BY <2>2, <2>3
<1> HIDE DEF own, len, cap, s, gone
<1>1. Destroyed(m, d, own, n, gone)
  BY <1>g, <1>n, DestroyEffect
<1> HIDE DEF d
<1>2. PICK f \in Seq(Cells) :
        /\ Rewrites(m, d, own, f) /\ d.alive = m.alive - gone /\ Len(f) = cap
        /\ \A i \in 1 .. Len(f) :
             f[i] = IF i \in n + 1 .. n + gone THEN Raw ELSE m.cells[own][i]
  BY <1>1, <1>g DEF Destroyed
<1>3. Balanced(d)
  <2>1. \A i \in n + 1 .. n + gone : m.cells[own][i] # Raw /\ f[i] = Raw
    BY <1>g, <1>n, <1>2
  <2>2. \A i \in 1 .. Len(f) : i \notin n + 1 .. n + gone => f[i] = m.cells[own][i]
    BY <1>2
  <2>3. /\ Rewrites(m, d, own, f) /\ Len(f) = Len(m.cells[own]) /\ n + gone <= Len(f)
        /\ d.alive = m.alive - gone
    BY <1>g, <1>n, <1>2
  <2> QED BY <1>g, <1>n, <2>1, <2>2, <2>3, BalanceDrops, Zenon
<1>4. /\ d \in MemoryType /\ d.vec = m.vec /\ d.cells[own] = f
      /\ \A a \in Blocks : a # own => d.cells[a] = m.cells[a]
  BY <1>2 DEF Rewrites
<1>5. /\ r \in MemoryType /\ r.cells = d.cells /\ r.alive = d.alive
      /\ r.vec[v] = [begin |-> own, size |-> n, capacity |-> cap]
      /\ \A w \in AllVectors : w # v => r.vec[w] = m.vec[w]
  <2>1. r = [d EXCEPT !.vec[v].size = n]
    OBVIOUS
  <2> HIDE DEF r
  <2>2. /\ r \in MemoryType /\ r.cells = d.cells /\ r.alive = d.alive
        /\ r.vec[v] = [begin |-> d.vec[v].begin, size |-> n, capacity |-> d.vec[v].capacity]
        /\ \A w \in AllVectors : w # v => r.vec[w] = d.vec[w]
    BY <1>4, <2>1, SizeEffect
  <2> QED BY <1>4, <1>v, <2>2
<1> HIDE DEF r
<1>6. Balanced(r)
  BY <1>3, <1>5, BalancedVec
<1>7. /\ r.vec[v] = [begin |-> own, size |-> Len(s), capacity |-> cap]
      /\ Len(r.cells[own]) = cap /\ Len(s) <= cap
      /\ \A a \in Blocks : a \notin {v, own, own} => r.cells[a] = m.cells[a]
  BY <1>g, <1>n, <1>s, <1>2, <1>4, <1>5
<1>8. \A i \in 1 .. cap : r.cells[own][i] = IF i <= Len(s) THEN s[i] ELSE Raw
  <2> SUFFICES ASSUME NEW i \in 1 .. cap PROVE f[i] = IF i <= n THEN s[i] ELSE Raw
    BY <1>4, <1>5, <1>s
  <2>1. f[i] = IF i \in n + 1 .. n + gone THEN Raw ELSE m.cells[own][i]
    BY <1>2
  <2>2. CASE i <= n
    <3>1. s[i] = m.cells[own][i]
      BY <1>s, <2>2
    <3> QED BY <2>1, <2>2, <3>1
  <2>3. CASE i > n /\ i <= n + gone
    BY <1>n, <2>1, <2>3
  <2>4. CASE i > n + gone
    <3>1. m.cells[own][i] = Raw
      BY <1>g, <1>n, <2>4
    <3> QED BY <1>n, <2>1, <2>4, <3>1
  <2> QED BY <1>g, <1>n, <2>2, <2>3, <2>4
<1>9. /\ Len(r.cells[v]) = N[v]
      /\ own # v => \A i \in 1 .. N[v] : r.cells[v][i] = Raw
  <2>1. CASE own = v
    BY <1>g, <1>7, <2>1
  <2>2. CASE own # v
    BY <1>g, <1>4, <1>5, <2>2
  <2> QED BY <2>1, <2>2
<1>10. Becomes(m, r, v, own, cap, s)
  BY <1>5, <1>6, <1>7, <1>8, <1>9, <1>g, <1>n, <1>s, BecomesRule DEF own
<1> QED BY <1>10 DEF r, d, gone, len, s, own, cap

-----------------------------------------------------------------------------
(* Moving between vectors. *)

Empty(v) == [begin |-> v, size |-> 0, capacity |-> N[v]]

(* v has what u had, and u is empty. *)
Transfers(m, r, v, u) ==
  /\ Good(r) /\ Keeps(m, r, {v, u})
  /\ Elements(r, v) = Elements(m, u) /\ r.vec[u] = Empty(u)

(* v is empty and u keeps its elements, the first k of them moved from. *)
Spoils(m, r, v, u, k) ==
  /\ Good(r) /\ Keeps(m, r, {v, u})
  /\ r.vec[v] = Empty(v) /\ Elements(r, u) = MovedFrom(Elements(m, u), k)

LEMMA EmptyElements ==
  ASSUME NEW m, Good(m), NEW v \in AllVectors, m.vec[v].size = 0
  PROVE  Elements(m, v) = <<>>
<1>1. Elements(m, v) \in Seq(Objects) /\ Len(Elements(m, v)) = 0
  BY GoodVector
<1> QED BY <1>1, EmptySeq

LEMMA EmptyFacts ==
  ASSUME NEW m, Good(m), NEW v \in AllVectors, m.vec[v] = Empty(v)
  PROVE  /\ m.vec[v].begin = v /\ m.vec[v].size = 0 /\ m.vec[v].capacity = N[v]
         /\ Elements(m, v) = <<>>
BY EmptyElements DEF Empty

LEMMA MoveElementsOK ==
  ASSUME NEW m, Good(m), NEW v \in AllVectors, NEW u \in AllVectors, v # u,
         m.vec[u].begin = u, m.vec[v].size = 0, m.vec[v].capacity >= m.vec[u].size,
         NEW k \in 0 .. m.vec[u].size
  PROVE  LET r == MoveElements(m, v, u, k)
         IN  IF k = m.vec[u].size
             THEN r.ok = TRUE /\ Transfers(m, r.mem, v, u)
             ELSE r.ok = FALSE /\ Spoils(m, r.mem, v, u, k)
<1> DEFINE all == Elements(m, u)
           ys == SubSeq(all, 1, k)
           len == m.vec[u].size
           x == Push(m, v, ys)
           y == MoveOut(x, u, k)
           res == MoveElements(m, v, u, k)
<1>1. res = IF k < len THEN [mem |-> Reset(y, v), ok |-> FALSE]
                       ELSE [mem |-> Clear(y, u), ok |-> TRUE]
  BY DEF MoveElements, Threw, Returned
<1>2. /\ all \in Seq(Objects) /\ Len(all) = len /\ len \in Nat /\ k \in Nat /\ k <= len
      /\ m.vec[v].capacity \in Nat /\ k \in 0 .. Len(all)
      /\ m.vec[u].capacity = N[u]
  <2>1. /\ all \in Seq(Objects) /\ Len(all) = len /\ len \in Nat
        /\ m.vec[v].capacity \in Nat
    BY GoodVector
  <2>2. m.vec[u].capacity = N[u]
    BY GoodVector
  <2> QED BY <2>1, <2>2
<1>3. /\ ys \in Seq(Objects) /\ Len(ys) = k /\ (k = len => ys = all)
  <2> HIDE DEF all
  <2> QED BY <1>2, Prefix
<1>4. Elements(m, v) \o ys = ys
  <2>1. Elements(m, v) = <<>>
    BY EmptyElements
  <2> QED BY <1>3, <2>1, NothingAppended
<1> HIDE DEF all, ys, res
<1>5. Becomes(m, x, v, m.vec[v].begin, m.vec[v].capacity, ys)
  <2>1. m.vec[v].size + Len(ys) <= m.vec[v].capacity
    BY <1>2, <1>3
  <2>2. Becomes(m, x, v, m.vec[v].begin, m.vec[v].capacity, Elements(m, v) \o ys)
    BY <1>3, <2>1, PushOK
  <2> QED BY <1>4, <2>2
<1> HIDE DEF x
<1>6. /\ Good(x) /\ Keeps(m, x, {v}) /\ Elements(x, v) = ys
      /\ x.vec[u] = m.vec[u] /\ Elements(x, u) = all
  BY <1>5 DEF Becomes, Keeps, all
<1>7. Becomes(x, y, u, u, N[u], MovedFrom(all, k))
  <2>1. x.vec[u].begin = u /\ x.vec[u].capacity = N[u] /\ k \in 0 .. x.vec[u].size
    BY <1>2, <1>6
  <2>2. Becomes(x, MoveOut(x, x.vec[u].begin, k), u, x.vec[u].begin, x.vec[u].capacity,
                MovedFrom(Elements(x, u), k))
    BY <1>6, <2>1, MoveOutOK
  <2> QED BY <1>6, <2>1, <2>2
<1> HIDE DEF y
<1>8. /\ Good(y) /\ Keeps(m, y, {v, u}) /\ y.vec[u].begin = u /\ y.vec[u].capacity = N[u]
      /\ Elements(y, u) = MovedFrom(all, k) /\ Elements(y, v) = ys
      /\ y.vec[v] = x.vec[v]
  BY <1>6, <1>7 DEF Becomes, Keeps
<1>9. CASE k = len
  <2>1. res.ok = TRUE /\ res.mem = Clear(y, u)
    BY <1>1, <1>2, <1>9
  <2>2. Becomes(y, res.mem, u, y.vec[u].begin, y.vec[u].capacity, <<>>)
    BY <1>8, <2>1, ClearOK
  <2>3. /\ Good(res.mem) /\ Keeps(y, res.mem, {u})
        /\ res.mem.vec[u] = [begin |-> u, size |-> 0, capacity |-> N[u]]
    BY <1>8, <2>2, EmptySeq DEF Becomes
  <2>4. Elements(res.mem, v) = all /\ Keeps(m, res.mem, {v, u})
    BY <1>3, <1>8, <1>9, <2>3 DEF Keeps
  <2>5. Transfers(m, res.mem, v, u)
    BY <2>3, <2>4 DEF Transfers, Empty, all
  <2> QED BY <1>9, <2>1, <2>5 DEF res
<1>10. CASE k # len
  <2>1. res.ok = FALSE /\ res.mem = Reset(y, v)
    BY <1>1, <1>2, <1>10
  <2>2. Becomes(y, res.mem, v, v, N[v], <<>>)
    BY <1>8, <2>1, ResetOK
  <2>3. /\ Good(res.mem) /\ Keeps(y, res.mem, {v})
        /\ res.mem.vec[v] = [begin |-> v, size |-> 0, capacity |-> N[v]]
    BY <2>2, EmptySeq DEF Becomes
  <2>4. Elements(res.mem, u) = MovedFrom(all, k) /\ Keeps(m, res.mem, {v, u})
    BY <1>8, <2>3 DEF Keeps
  <2>5. Spoils(m, res.mem, v, u, k)
    BY <2>3, <2>4 DEF Spoils, Empty, all
  <2> QED BY <1>10, <2>1, <2>5 DEF res
<1> QED BY <1>9, <1>10

LEMMA StealOK ==
  ASSUME NEW m, Good(m), NEW v \in AllVectors, NEW u \in AllVectors, v # u,
         m.vec[v] = Empty(v), m.vec[u].begin # u
  PROVE  Transfers(m, Steal(m, v, u), v, u)
<1> DEFINE r == Steal(m, v, u)
           own == m.vec[u].begin
           cap == m.vec[u].capacity
           len == m.vec[u].size
<1>u. /\ m \in MemoryType /\ Layout(m) /\ Balanced(m) /\ VectorOK(m, u) /\ VectorOK(m, v)
      /\ u \in Blocks /\ v \in Blocks /\ own \in Heap
      /\ Len(m.cells[u]) = N[u] /\ \A i \in 1 .. N[u] : m.cells[u][i] = Raw
      /\ N[u] \in Nat /\ N[u] > 0
  <2>1. \A i \in 1 .. N[u] : m.cells[u][i] = Raw
    BY GoodVector
  <2>2. N[u] \in Nat \ {0}
    BY CapacityAssumption
  <2> QED BY <2>1, <2>2, GoodVector
<1>v. /\ Len(m.cells[v]) = N[v] /\ \A i \in 1 .. N[v] : m.cells[v][i] = Raw
  <2>1. m.vec[v].begin = v /\ m.vec[v].size = 0
    BY EmptyFacts
  <2>2. \A i \in 1 .. Len(m.cells[v]) : m.cells[v][i] # Raw <=> i <= 0
    BY <2>1, GoodVector
  <2>3. Len(m.cells[v]) = N[v]
    BY GoodVector
  <2> QED BY <2>2, <2>3
<1>1. /\ r \in MemoryType /\ r.cells = m.cells /\ r.alive = m.alive
      /\ r.vec[v] = m.vec[u] /\ r.vec[u] = Empty(u)
      /\ \A w \in AllVectors \ {v, u} : r.vec[w] = m.vec[w]
  BY <1>u DEF Steal, MemoryType, Empty
<1> HIDE DEF r
<1>2. Balanced(r)
  BY <1>1, <1>u, BalancedVec
<1>3. VectorOK(r, u)
  <2>1. /\ r.vec[u].begin = u /\ r.vec[u].size = 0 /\ r.vec[u].capacity = N[u]
    BY <1>1 DEF Empty
  <2> QED BY <1>1, <1>u, <2>1 DEF VectorOK
<1>4. VectorOK(r, v)
  BY <1>1, <1>u, <1>v DEF VectorOK
<1>5. ASSUME NEW w \in AllVectors \ {v, u}
      PROVE  VectorOK(r, w) /\ Elements(r, w) = Elements(m, w)
  BY <1>1, <1>u, OtherVector DEF Layout
<1>6. r.vec[u].begin = u /\ r.vec[v].begin = own /\ m.vec[v].begin = v
  BY <1>1 DEF Empty
<1>7. \A w \in AllVectors : w \notin Heap
  BY VectorType, <1>u
<1>8. \A w \in AllVectors : m.vec[w].begin \in Heap \cup {w}
  BY <1>u DEF Layout, VectorOK
<1>9. \A w, a \in AllVectors : r.vec[w].begin = r.vec[a].begin => w = a
  <2> SUFFICES ASSUME NEW w \in AllVectors, NEW a \in AllVectors,
                      r.vec[w].begin = r.vec[a].begin, w # a
               PROVE  FALSE
    OBVIOUS
  <2>1. CASE w = u \/ a = u
    BY <1>1, <1>6, <1>7, <1>8, <1>u, <2>1
  <2>2. CASE w # u /\ a # u
    <3>1. CASE w = v \/ a = v
      BY <1>1, <1>6, <1>u, <2>2, <3>1 DEF Layout
    <3>2. CASE w # v /\ a # v
      BY <1>1, <1>u, <2>2, <3>2 DEF Layout
    <3> QED BY <3>1, <3>2
  <2> QED BY <2>1, <2>2
<1>10. ASSUME NEW a \in Heap, r.cells[a] # <<>>
       PROVE  \E w \in AllVectors : r.vec[w].begin = a
  <2>1. PICK w \in AllVectors : m.vec[w].begin = a
    BY <1>1, <1>10, <1>u DEF Layout
  <2>2. CASE w = u
    BY <1>6, <2>1, <2>2
  <2>3. CASE w # u
    BY <1>1, <1>6, <1>7, <2>1, <2>3
  <2> QED BY <2>2, <2>3
<1>11. Layout(r)
  BY <1>3, <1>4, <1>5, <1>9, <1>10 DEF Layout
<1>12. Elements(r, v) = Elements(m, u)
  BY <1>1 DEF Elements
<1> QED BY <1>1, <1>2, <1>5, <1>11, <1>12 DEF Transfers, Good, Keeps, r

MoveResult(m, r, v, u, k) ==
  \/ r.ok = TRUE /\ Transfers(m, r.mem, v, u)
  \/ r.ok = FALSE /\ k < m.vec[u].size /\ Spoils(m, r.mem, v, u, k)

(* What happens to v before the move does not matter. *)
LEMMA MoveAfter ==
  ASSUME NEW m, NEW p, NEW r, NEW v \in AllVectors, NEW u \in AllVectors, v # u, NEW k,
         Keeps(m, p, {v}), MoveResult(p, r, v, u, k)
  PROVE  MoveResult(m, r, v, u, k)
<1>1. /\ p.vec[u] = m.vec[u] /\ Elements(p, u) = Elements(m, u)
      /\ \A w \in AllVectors \ {v, u} : p.vec[w] = m.vec[w] /\ Elements(p, w) = Elements(m, w)
  BY DEF Keeps
<1>2. Keeps(p, r.mem, {v, u}) => Keeps(m, r.mem, {v, u})
  BY <1>1 DEF Keeps
<1>3. Transfers(p, r.mem, v, u) => Transfers(m, r.mem, v, u)
  BY <1>1, <1>2 DEF Transfers
<1>4. Spoils(p, r.mem, v, u, k) => Spoils(m, r.mem, v, u, k)
  BY <1>1, <1>2 DEF Spoils
<1> QED BY <1>1, <1>3, <1>4 DEF MoveResult

LEMMA MoveFromOK ==
  ASSUME NEW m, Good(m), NEW v \in AllVectors, NEW u \in AllVectors, v # u,
         m.vec[v] = Empty(v), m.vec[Tmp].begin = Tmp \/ N[v] = N[u],
         NEW k \in 0 .. m.vec[u].size
  PROVE  MoveResult(m, MoveFrom(m, v, u, k), v, u, k)
<1> DEFINE len == m.vec[u].size
           p == Reserve(m, v, len, 0).mem
           res == MoveFrom(m, v, u, k)
<1>1. m.vec[v].begin = v /\ m.vec[v].size = 0 /\ m.vec[v].capacity = N[v]
      /\ Elements(m, v) = <<>>
  BY EmptyFacts
<1>2. len \in Nat /\ k \in Nat /\ k <= len /\ N[v] \in Nat /\ v \in Heap \cup {v}
  BY GoodVector, CapacityAssumption
<1>3. res = IF m.vec[u].begin = u THEN MoveElements(p, v, u, k)
            ELSE [mem |-> Steal(m, v, u), ok |-> TRUE]
  BY DEF MoveFrom, IsSmall, Returned
<1> HIDE DEF res
<1>4. CASE m.vec[u].begin = u
  <2> DEFINE s == Elements(m, v)
  <2>1. Roomy(m, p, v, s, len)
    <3>1. CASE m.vec[Tmp].begin = Tmp
      <4>1. 0 \in 0 .. m.vec[v].size
        BY <1>1
      <4> QED BY <1>1, <1>2, <3>1, <4>1, ReserveOK
    <3>2. CASE N[v] = N[u]
      <4>1. len <= N[v]
        <5>1. len <= m.vec[u].capacity /\ Len(m.cells[u]) = N[u]
              /\ Len(m.cells[m.vec[u].begin]) = m.vec[u].capacity
          BY GoodVector
        <5> QED BY <1>4, <3>2, <5>1
      <4>2. p = m
        BY <1>1, <1>2, <4>1 DEF Reserve, Returned
      <4>3. Becomes(m, m, v, m.vec[v].begin, m.vec[v].capacity, s)
        BY BecomesSame
      <4>4. Becomes(m, p, v, v, N[v], s) /\ N[v] >= len
        BY <1>1, <1>2, <4>1, <4>2, <4>3
      <4> HIDE DEF p, s
      <4> QED BY <1>2, <4>4 DEF Roomy
    <3> QED BY <3>1, <3>2
  <2>2. s \in Seq(Objects) /\ Len(s) = 0
    BY <1>1, EmptySeq
  <2> HIDE DEF p, s, len
  <2>3. /\ Good(p) /\ Keeps(m, p, {v}) /\ Elements(p, v) = s
        /\ p.vec[v].size = Len(s) /\ p.vec[v].capacity >= len
        /\ p.vec[v].begin \in Heap \cup {v} /\ p.vec[v].capacity \in Nat
    BY <1>2, <2>1, <2>2, RoomyFacts, Zenon
  <2>4. p.vec[u] = m.vec[u]
    BY <2>3 DEF Keeps
  <2>5. /\ p.vec[u].begin = u /\ p.vec[v].size = 0 /\ p.vec[v].capacity >= p.vec[u].size
        /\ k \in 0 .. p.vec[u].size /\ p.vec[u].size = len
    BY <1>2, <1>4, <2>2, <2>3, <2>4 DEF len
  <2>6. res = MoveElements(p, v, u, k)
    BY <1>3, <1>4
  <2>7. IF k = p.vec[u].size
        THEN res.ok = TRUE /\ Transfers(p, res.mem, v, u)
        ELSE res.ok = FALSE /\ Spoils(p, res.mem, v, u, k)
    <3> DEFINE t == MoveElements(p, v, u, k)
    <3>1. IF k = p.vec[u].size
          THEN t.ok = TRUE /\ Transfers(p, t.mem, v, u)
          ELSE t.ok = FALSE /\ Spoils(p, t.mem, v, u, k)
      BY <2>3, <2>5, MoveElementsOK, Zenon
    <3> HIDE DEF t
    <3>2. res = t
      BY <2>6 DEF t
    <3> QED BY <3>1, <3>2
  <2>8. MoveResult(p, res, v, u, k)
    BY <1>2, <2>5, <2>7 DEF MoveResult
  <2>9. MoveResult(m, res, v, u, k)
    BY <2>3, <2>8, MoveAfter
  <2> QED BY <2>9 DEF res
<1>5. CASE m.vec[u].begin # u
  <2>1. res.ok = TRUE /\ res.mem = Steal(m, v, u)
    BY <1>3, <1>5
  <2>2. Transfers(m, res.mem, v, u)
    BY <1>5, <2>1, StealOK
  <2> QED BY <2>1, <2>2 DEF MoveResult, res
<1> QED BY <1>4, <1>5

LEMMA MoveAssignOK ==
  ASSUME NEW m, Good(m), NEW v \in AllVectors, NEW u \in AllVectors, v # u,
         (m.vec[Tmp].begin = Tmp /\ v # Tmp) \/ N[v] = N[u],
         NEW k \in 0 .. m.vec[u].size
  PROVE  MoveResult(m, MoveAssign(m, v, u, k), v, u, k)
<1> DEFINE p == Reset(m, v)
<1>1. Becomes(m, p, v, v, N[v], <<>>)
  BY ResetOK
<1>2. MoveAssign(m, v, u, k) = MoveFrom(p, v, u, k)
  BY DEF MoveAssign
<1> HIDE DEF p
<1>3. Good(p) /\ Keeps(m, p, {v}) /\ p.vec[v] = Empty(v)
  BY <1>1, EmptySeq DEF Becomes, Empty
<1>4. p.vec[u] = m.vec[u] /\ (v # Tmp => p.vec[Tmp] = m.vec[Tmp])
  BY <1>3 DEF Keeps, AllVectors
<1>5. p.vec[Tmp].begin = Tmp \/ N[v] = N[u]
  BY <1>4
<1>6. k \in 0 .. p.vec[u].size
  BY <1>4
<1>7. MoveResult(p, MoveFrom(p, v, u, k), v, u, k)
  BY <1>3, <1>5, <1>6, MoveFromOK
<1> QED BY <1>2, <1>3, <1>7, MoveAfter

(* Where swap() ends, for moves that succeed i, j and k times *)
SwapEnd(m, v, u, i, j, k) ==
  LET a == MoveFrom(m, Tmp, u, i)
      b == MoveAssign(a.mem, u, v, j)
      c == MoveAssign(b.mem, v, Tmp, k)
  IN  IF ~a.ok THEN a ELSE IF ~b.ok THEN b ELSE c

SwapResult(m, r, v, u, i, j, k) ==
  /\ Good(r.mem) /\ Keeps(m, r.mem, {v, u, Tmp})
  /\ \/ /\ r.ok = TRUE
        /\ Elements(r.mem, v) = Elements(m, u) /\ Elements(r.mem, u) = Elements(m, v)
     \/ /\ r.ok = FALSE /\ i < m.vec[u].size
        /\ Elements(r.mem, v) = Elements(m, v)
        /\ Elements(r.mem, u) = MovedFrom(Elements(m, u), i)
     \/ /\ r.ok = FALSE /\ j < m.vec[v].size
        /\ Elements(r.mem, v) = MovedFrom(Elements(m, v), j) /\ Elements(r.mem, u) = <<>>
     \/ /\ r.ok = FALSE /\ k < m.vec[u].size
        /\ Elements(r.mem, v) = <<>> /\ Elements(r.mem, u) = Elements(m, v)

LEMMA SwapEndOK ==
  ASSUME NEW m, Good(m), NEW v \in Vectors, NEW u \in Vectors, v # u,
         m.vec[Tmp] = Empty(Tmp), N[v] = N[u], N[u] = N[Tmp],
         NEW i \in 0 .. m.vec[u].size, NEW j \in 0 .. m.vec[v].size,
         NEW k \in 0 .. m.vec[u].size
  PROVE  SwapResult(m, SwapEnd(m, v, u, i, j, k), v, u, i, j, k)
<1> DEFINE a == MoveFrom(m, Tmp, u, i)
           b == MoveAssign(a.mem, u, v, j)
           c == MoveAssign(b.mem, v, Tmp, k)
           r == SwapEnd(m, v, u, i, j, k)
<1>0. /\ v \in AllVectors /\ u \in AllVectors /\ Tmp \in AllVectors /\ v # Tmp /\ u # Tmp
  BY NamesAssumption DEF AllVectors
<1>1. r = IF ~a.ok THEN a ELSE IF ~b.ok THEN b ELSE c
  BY DEF SwapEnd
<1>2. MoveResult(m, a, Tmp, u, i)
  BY <1>0, MoveFromOK
<1> HIDE DEF r
<1>3. CASE a.ok = FALSE
  <2>1. r = a
    BY <1>1, <1>3
  <2> HIDE DEF a
  <2>2. i < m.vec[u].size /\ Spoils(m, a.mem, Tmp, u, i)
    BY <1>2, <1>3 DEF MoveResult
  <2>3. Elements(a.mem, v) = Elements(m, v) /\ Keeps(m, a.mem, {v, u, Tmp})
    BY <1>0, <2>2 DEF Spoils, Keeps
  <2> QED BY <1>3, <2>1, <2>2, <2>3 DEF SwapResult, Spoils, r
<1>4. CASE a.ok = TRUE
  <2> HIDE DEF a
  <2>1. /\ Good(a.mem) /\ Keeps(m, a.mem, {Tmp, u})
        /\ Elements(a.mem, Tmp) = Elements(m, u) /\ a.mem.vec[u] = Empty(u)
    BY <1>2, <1>4 DEF MoveResult, Transfers
  <2>2. a.mem.vec[v] = m.vec[v] /\ Elements(a.mem, v) = Elements(m, v)
    BY <1>0, <2>1 DEF Keeps
  <2>3. MoveResult(a.mem, b, u, v, j)
    <3>1. j \in 0 .. a.mem.vec[v].size
      BY <2>2
    <3> QED BY <1>0, <2>1, <3>1, MoveAssignOK
  <2>4. Elements(a.mem, u) = <<>>
    BY <1>0, <2>1, EmptyFacts
  <2>5. CASE b.ok = FALSE
    <3>1. r = b
      BY <1>1, <1>4, <2>5
    <3> HIDE DEF b
    <3>2. j < m.vec[v].size /\ Spoils(a.mem, b.mem, u, v, j)
      BY <2>2, <2>3, <2>5 DEF MoveResult
    <3>3. /\ Good(b.mem) /\ Elements(b.mem, v) = MovedFrom(Elements(m, v), j)
          /\ b.mem.vec[u] = Empty(u) /\ Keeps(a.mem, b.mem, {u, v})
      BY <2>2, <3>2 DEF Spoils
    <3>4. Elements(b.mem, u) = <<>>
      BY <1>0, <3>3, EmptyFacts
    <3>5. Keeps(m, b.mem, {v, u, Tmp})
      BY <2>1, <3>3 DEF Keeps
    <3> QED BY <2>5, <3>1, <3>2, <3>3, <3>4, <3>5 DEF SwapResult, r
  <2>6. CASE b.ok = TRUE
    <3> HIDE DEF b
    <3>1. /\ Good(b.mem) /\ Keeps(a.mem, b.mem, {u, v})
          /\ Elements(b.mem, u) = Elements(m, v) /\ b.mem.vec[v] = Empty(v)
      BY <2>2, <2>3, <2>6 DEF MoveResult, Transfers
    <3>2. b.mem.vec[Tmp] = a.mem.vec[Tmp] /\ Elements(b.mem, Tmp) = Elements(m, u)
      BY <1>0, <2>1, <3>1 DEF Keeps
    <3>3. b.mem.vec[Tmp].size = m.vec[u].size
      <4>1. /\ Len(Elements(b.mem, Tmp)) = b.mem.vec[Tmp].size
        BY <1>0, <3>1, GoodVector
      <4>2. Len(Elements(m, u)) = m.vec[u].size
        BY <1>0, GoodVector
      <4> QED BY <3>2, <4>1, <4>2
    <3>4. MoveResult(b.mem, c, v, Tmp, k)
      <4>1. k \in 0 .. b.mem.vec[Tmp].size
        BY <3>3
      <4> QED BY <1>0, <3>1, <4>1, MoveAssignOK
    <3>5. Keeps(m, b.mem, {v, u, Tmp})
      BY <2>1, <3>1 DEF Keeps
    <3>6. r = c
      BY <1>1, <1>4, <2>6
    <3> HIDE DEF c
    <3>7. CASE c.ok = TRUE
      <4>1. /\ Good(c.mem) /\ Keeps(b.mem, c.mem, {v, Tmp})
            /\ Elements(c.mem, v) = Elements(m, u)
        BY <3>2, <3>4, <3>7 DEF MoveResult, Transfers
      <4>2. Elements(c.mem, u) = Elements(m, v) /\ Keeps(m, c.mem, {v, u, Tmp})
        BY <1>0, <3>1, <3>5, <4>1 DEF Keeps
      <4> QED BY <3>6, <3>7, <4>1, <4>2 DEF SwapResult, r
    <3>8. CASE c.ok = FALSE
      <4>1. /\ Good(c.mem) /\ Keeps(b.mem, c.mem, {v, Tmp}) /\ k < m.vec[u].size
            /\ c.mem.vec[v] = Empty(v)
        BY <3>3, <3>4, <3>8 DEF MoveResult, Spoils
      <4>2. Elements(c.mem, u) = Elements(m, v) /\ Keeps(m, c.mem, {v, u, Tmp})
        BY <1>0, <3>1, <3>5, <4>1 DEF Keeps
      <4>3. Elements(c.mem, v) = <<>>
        BY <1>0, <4>1, EmptyFacts
      <4> QED BY <3>6, <3>8, <4>1, <4>2, <4>3 DEF SwapResult, r
    <3> QED BY <3>4, <3>7, <3>8 DEF MoveResult
  <2> QED BY <2>3, <2>5, <2>6 DEF MoveResult
<1> QED BY <1>2, <1>3, <1>4 DEF MoveResult

-----------------------------------------------------------------------------
(* The calls. *)

(* The inductive invariant: the memory is good and swap()'s vector is not   *)
(* in use between calls.                                                    *)
MemoryInv ==
  /\ type \in Types
  /\ Good(Memory)
  /\ vec[Tmp] = Empty(Tmp)

(* A call of op leaves s in vector v and the other vectors alone.           *)
Becoming(op, v, ok, s) ==
  /\ Good(Memory') /\ Keeps(Memory, Memory', {v}) /\ Elements(Memory', v) = s
  /\ last' = [op |-> op, ok |-> ok] /\ type' = type

(* A call of op leaves s in vector v, t in vector u. *)
BecomingBoth(op, v, u, ok, s, t) ==
  /\ Good(Memory') /\ Keeps(Memory, Memory', {v, u})
  /\ Elements(Memory', v) = s /\ Elements(Memory', u) = t
  /\ last' = [op |-> op, ok |-> ok] /\ type' = type

LEMMA CallMemory ==
  ASSUME NEW op, NEW r, r.mem \in MemoryType, Call(op, r)
  PROVE  Memory' = r.mem /\ last' = [op |-> op, ok |-> r.ok] /\ type' = type
BY DEF Call, Memory, MemoryType

LEMMA CallOne ==
  ASSUME NEW op, NEW r, Call(op, r), NEW v, NEW s,
         Good(r.mem), Keeps(Memory, r.mem, {v}), Elements(r.mem, v) = s
  PROVE  Becoming(op, v, r.ok, s)
<1>1. r.mem \in MemoryType
  BY DEF Good
<1>2. Memory' = r.mem /\ last' = [op |-> op, ok |-> r.ok] /\ type' = type
  BY <1>1, CallMemory
<1> QED BY <1>2 DEF Becoming

LEMMA CallBoth ==
  ASSUME NEW op, NEW r, Call(op, r), NEW v, NEW u, NEW s, NEW t,
         Good(r.mem), Keeps(Memory, r.mem, {v, u}),
         Elements(r.mem, v) = s, Elements(r.mem, u) = t
  PROVE  BecomingBoth(op, v, u, r.ok, s, t)
<1>1. r.mem \in MemoryType
  BY DEF Good
<1>2. Memory' = r.mem /\ last' = [op |-> op, ok |-> r.ok] /\ type' = type
  BY <1>1, CallMemory
<1> QED BY <1>2 DEF BecomingBoth

(* Of n constructions k succeed. *)
LEMMA SuccessesAre ==
  ASSUME NEW n \in Nat, NEW throws, NEW k \in Successes(n, throws)
  PROVE  k \in 0 .. n /\ k \in Nat /\ k <= n /\ (k # n => throws)
BY DEF Successes

(* What is known of a vector when a member function is called on it.        *)
LEMMA Called ==
  ASSUME MemoryInv, NEW v \in Vectors
  PROVE  /\ Good(Memory) /\ Memory.vec = vec /\ vec[Tmp].begin = Tmp
         /\ v \in AllVectors /\ v # Tmp /\ Tmp \in AllVectors
         /\ vec[v].size \in Nat /\ vec[v].capacity \in Nat
         /\ vec[v].size <= vec[v].capacity
         /\ Elements(Memory, v) \in Seq(Objects)
         /\ Len(Elements(Memory, v)) = vec[v].size
<1>1. /\ Good(Memory) /\ Memory.vec = vec /\ vec[Tmp].begin = Tmp
      /\ v \in AllVectors /\ v # Tmp /\ Tmp \in AllVectors
  BY NamesAssumption DEF MemoryInv, Memory, Empty, AllVectors
<1>2. /\ Memory.vec[v].size \in Nat /\ Memory.vec[v].capacity \in Nat
      /\ Memory.vec[v].size <= Memory.vec[v].capacity
      /\ Elements(Memory, v) \in Seq(Objects)
      /\ Len(Elements(Memory, v)) = Memory.vec[v].size
  BY <1>1, GoodVector
<1> QED BY <1>1, <1>2

LEMMA ValuesAreObjects ==
  ASSUME NEW x \in Values
  PROVE  x \in Objects /\ Zero \in Objects
BY NamesAssumption DEF Objects, Cells

-----------------------------------------------------------------------------
(* How calls may end. *)

(* Growing throws: the elements are still there, moved from up to a point   *)
(* when they could not be copied.                                           *)
GrowthThrows(op, v) ==
  /\ GrowThrows
  /\ \E j \in 0 .. Len(Elements(Memory, v)) - 1 :
       Becoming(op, v, FALSE, Kept(Elements(Memory, v), j))

LEMMA ClearCall ==
  ASSUME MemoryInv, NEW v \in Vectors, ClearAll(v)
  PROVE  Becoming("clear", v, TRUE, <<>>)
<1> DEFINE c == Clear(Memory, v)
           res == [mem |-> c, ok |-> TRUE]
<1>1. Becomes(Memory, c, v, vec[v].begin, vec[v].capacity, <<>>)
  BY Called, ClearOK DEF Memory
<1>2. Call("clear", res)
  BY DEF ClearAll, Returned
<1> HIDE DEF c
<1>3. Good(res.mem) /\ Keeps(Memory, res.mem, {v}) /\ Elements(res.mem, v) = <<>>
  BY <1>1 DEF Becomes
<1>4. Becoming("clear", v, res.ok, <<>>)
  BY <1>2, <1>3, CallOne
<1> QED BY <1>4

LEMMA DestroyCall ==
  ASSUME MemoryInv, NEW v \in Vectors, Destroy(v)
  PROVE  Becoming("destroy", v, TRUE, <<>>)
<1> DEFINE c == Reset(Memory, v)
           res == [mem |-> c, ok |-> TRUE]
<1>1. Becomes(Memory, c, v, v, N[v], <<>>)
  BY Called, ResetOK
<1>2. Call("destroy", res)
  BY DEF Destroy, Returned
<1> HIDE DEF c
<1>3. Good(res.mem) /\ Keeps(Memory, res.mem, {v}) /\ Elements(res.mem, v) = <<>>
  BY <1>1 DEF Becomes
<1>4. Becoming("destroy", v, res.ok, <<>>)
  BY <1>2, <1>3, CallOne
<1> QED BY <1>4

(* What reserve() does to a vector, on its own or at the start of another   *)
(* member function.                                                         *)
LEMMA ReserveEnds ==
  ASSUME MemoryInv, NEW v \in Vectors, NEW need \in Nat,
         NEW j \in Successes(vec[v].size, GrowThrows), NEW res, res = Reserve(Memory, v, need, j)
  PROVE  \/ /\ res.ok = TRUE /\ Good(res.mem) /\ Keeps(Memory, res.mem, {v})
            /\ Elements(res.mem, v) = Elements(Memory, v)
            /\ res.mem.vec[v].size = vec[v].size /\ res.mem.vec[v].capacity >= need
            /\ res.mem.vec[v].capacity \in Nat
         \/ /\ res.ok = FALSE /\ Good(res.mem) /\ Keeps(Memory, res.mem, {v}) /\ GrowThrows
            /\ j \in 0 .. Len(Elements(Memory, v)) - 1
            /\ Elements(res.mem, v) = Kept(Elements(Memory, v), j)
<1> DEFINE all == Elements(Memory, v)
           now == Memory
<1>1. /\ Good(now) /\ now.vec[Tmp].begin = Tmp /\ v \in AllVectors /\ v # Tmp
      /\ now.vec = vec /\ vec[v].size \in Nat /\ all \in Seq(Objects) /\ Len(all) = vec[v].size
      /\ all = Elements(now, v)
  BY Called
<1>2. j \in 0 .. now.vec[v].size /\ j \in Nat /\ (j # vec[v].size => GrowThrows)
  BY <1>1, SuccessesAre
<1>3. res = Reserve(now, v, need, j)
  OBVIOUS
<1> HIDE DEF now, all
<1>4. IF need <= now.vec[v].capacity \/ j = now.vec[v].size
      THEN res.ok = TRUE /\ Roomy(now, res.mem, v, Elements(now, v), need)
      ELSE res.ok = FALSE /\ Becomes(now, res.mem, v, now.vec[v].begin, now.vec[v].capacity,
                                   Kept(Elements(now, v), j))
  <2>1. /\ Good(now) /\ now.vec[Tmp].begin = Tmp /\ v \in AllVectors /\ need \in Nat
        /\ j \in 0 .. now.vec[v].size
    BY <1>1, <1>2
  <2>2. LET x == Reserve(now, v, need, j)
        IN  IF need <= now.vec[v].capacity \/ j = now.vec[v].size
            THEN x.ok = TRUE /\ Roomy(now, x.mem, v, Elements(now, v), need)
            ELSE x.ok = FALSE /\ Becomes(now, x.mem, v, now.vec[v].begin,
                                         now.vec[v].capacity, Kept(Elements(now, v), j))
    BY <2>1, ReserveOK, Zenon
  <2> QED BY <1>3, <2>2, Zenon
<1>5. CASE need <= now.vec[v].capacity \/ j = now.vec[v].size
  <2> DEFINE p == res.mem
  <2>1. res.ok = TRUE /\ Roomy(now, p, v, all, need)
    BY <1>1, <1>4, <1>5
  <2> HIDE DEF p
  <2>2. /\ Good(p) /\ Keeps(now, p, {v}) /\ Elements(p, v) = all
        /\ p.vec[v].size = Len(all) /\ p.vec[v].capacity >= need
        /\ p.vec[v].begin \in Heap \cup {v} /\ p.vec[v].capacity \in Nat
    <3>1. v \in AllVectors /\ all \in Seq(Objects) /\ need \in Nat
      BY <1>1
    <3> QED BY <2>1, <3>1, RoomyFacts, Zenon
  <2> QED BY <1>1, <2>1, <2>2 DEF p, now, all
<1>6. CASE ~(need <= now.vec[v].capacity \/ j = now.vec[v].size)
  <2>1. res.ok = FALSE /\ Good(res.mem) /\ Keeps(now, res.mem, {v}) /\ Elements(res.mem, v) = Kept(all, j)
    BY <1>1, <1>4, <1>6 DEF Becomes
  <2>2. j \in 0 .. Len(all) - 1 /\ GrowThrows
    BY <1>1, <1>2, <1>6
  <2> QED BY <2>1, <2>2 DEF now, all
<1> QED BY <1>5, <1>6

LEMMA ReserveCall ==
  ASSUME MemoryInv, NEW v \in Vectors, NEW n \in Nat, ReserveRoom(v, n)
  PROVE  \/ Becoming("reserve", v, TRUE, Elements(Memory, v))
         \/ GrowthThrows("reserve", v)
<1>1. PICK j \in Successes(vec[v].size, GrowThrows) :
        Call("reserve", Reserve(Memory, v, n, j))
  BY DEF ReserveRoom
<1> DEFINE res == Reserve(Memory, v, n, j)
           s == Elements(Memory, v)
<1>2. Call("reserve", res)
  BY <1>1
<1>3. \/ /\ res.ok = TRUE /\ Good(res.mem) /\ Keeps(Memory, res.mem, {v})
         /\ Elements(res.mem, v) = s
      \/ /\ res.ok = FALSE /\ Good(res.mem) /\ Keeps(Memory, res.mem, {v}) /\ GrowThrows
         /\ j \in 0 .. Len(s) - 1 /\ Elements(res.mem, v) = Kept(s, j)
  BY ReserveEnds
<1> HIDE DEF res, s
<1>4. CASE res.ok = TRUE
  <2>1. Becoming("reserve", v, res.ok, s)
    BY <1>2, <1>3, <1>4, CallOne
  <2> QED BY <1>4, <2>1 DEF s
<1>5. CASE res.ok = FALSE
  <2>1. Becoming("reserve", v, res.ok, Kept(s, j))
    BY <1>2, <1>3, <1>5, CallOne
  <2> QED BY <1>3, <1>5, <2>1 DEF GrowthThrows, s
<1> QED BY <1>3, <1>4, <1>5

LEMMA ShrinkCall ==
  ASSUME MemoryInv, NEW v \in Vectors, NEW n \in Nat, Shrink(v, n)
  PROVE  /\ n < Len(Elements(Memory, v))
         /\ Becoming("resize", v, TRUE, SubSeq(Elements(Memory, v), 1, n))
<1> DEFINE now == Memory
           d == [DestroyRange(now, now.vec[v].begin, n, now.vec[v].size - n)
                   EXCEPT !.vec[v].size = n]
           res == [mem |-> d, ok |-> TRUE]
           all == SubSeq(Elements(now, v), 1, n)
<1>1. /\ Good(now) /\ v \in AllVectors /\ now.vec = vec /\ n < now.vec[v].size
      /\ Len(Elements(now, v)) = now.vec[v].size
  BY Called DEF Shrink
<1>2. Call("resize", res)
  BY DEF Shrink, Returned, Memory
<1>3. Becomes(now, d, v, now.vec[v].begin, now.vec[v].capacity, all)
  <2> HIDE DEF now
  <2> QED BY <1>1, ShrinkOK
<1> HIDE DEF d
<1>4. Good(res.mem) /\ Keeps(Memory, res.mem, {v}) /\ Elements(res.mem, v) = all
  BY <1>3 DEF Becomes
<1>5. Becoming("resize", v, res.ok, all)
  BY <1>2, <1>4, CallOne
<1> QED BY <1>1, <1>5

LEMMA PushBackCall ==
  ASSUME MemoryInv, NEW v \in Vectors, NEW x \in Values, PushBack(v, x)
  PROVE  \/ Becoming("push_back", v, TRUE, Append(Elements(Memory, v), x))
         \/ GrowthThrows("push_back", v)
         \/ (CopyThrows \/ MoveThrows) /\ Becoming("push_back", v, FALSE, Elements(Memory, v))
<1> DEFINE cap == vec[v].capacity
           len == vec[v].size
           all == Elements(Memory, v)
           one == <<x>>
           grown == cap + cap \div 2 + 1
           need == IF len = cap THEN grown ELSE cap
<1>1. PICK j \in Successes(len, GrowThrows), k \in Successes(1, CopyThrows \/ MoveThrows) :
        LET e == IF len = cap THEN Grow(Memory, v, grown, j) ELSE Returned(Memory)
        IN  Call("push_back", IF ~e.ok THEN e ELSE IF k = 0 THEN Threw(e.mem)
                              ELSE Returned(Push(e.mem, v, one)))
  BY DEF PushBack
<1> DEFINE e == Reserve(Memory, v, need, j)
           p == e.mem
<1>2. /\ len \in Nat /\ cap \in Nat /\ len <= cap /\ v \in AllVectors /\ Memory.vec = vec
      /\ all \in Seq(Objects) /\ Len(all) = len
  BY Called
<1>3. need \in Nat /\ need >= len + 1 /\ (need > cap <=> len = cap)
  <2>1. cap \div 2 \in Nat
    BY <1>2
  <2> HIDE DEF len, cap
  <2> QED BY <1>2, <2>1
<1>4. e = IF len = cap THEN Grow(Memory, v, grown, j) ELSE Returned(Memory)
  BY <1>2, <1>3 DEF Reserve
<1>5. Call("push_back", IF ~e.ok THEN e ELSE IF k = 0 THEN Threw(p)
                        ELSE Returned(Push(p, v, one)))
  <2> HIDE DEF e
  <2> QED BY <1>1, <1>4
<1>6. one \in Seq(Objects) /\ Len(one) = 1 /\ all \o one = Append(all, x)
  <2>1. x \in Objects
    BY ValuesAreObjects
  <2> HIDE DEF all
  <2> QED BY <1>2, <2>1, AppendIsConcat
<1>7. \/ /\ e.ok = TRUE /\ Good(p) /\ Keeps(Memory, p, {v}) /\ Elements(p, v) = all
         /\ p.vec[v].size = len /\ p.vec[v].capacity >= need /\ p.vec[v].capacity \in Nat
      \/ /\ e.ok = FALSE /\ Good(p) /\ Keeps(Memory, p, {v}) /\ GrowThrows
         /\ j \in 0 .. Len(all) - 1 /\ Elements(p, v) = Kept(all, j)
  <2> HIDE DEF need
  <2> QED BY <1>3, ReserveEnds
<1>k. k \in {0, 1} /\ (k = 0 => CopyThrows \/ MoveThrows)
  BY DEF Successes
<1> HIDE DEF e, all, one, need, len, cap
<1>8. CASE e.ok = FALSE
  <2>1. Call("push_back", e)
    BY <1>5, <1>8
  <2>2. Becoming("push_back", v, e.ok, Kept(all, j))
    BY <1>7, <1>8, <2>1, CallOne
  <2> QED BY <1>7, <1>8, <2>2 DEF GrowthThrows, all
<1>9. CASE e.ok = TRUE /\ k = 0
  <2> DEFINE t == Threw(p)
  <2>1. Call("push_back", t)
    BY <1>5, <1>9
  <2>2. t.mem = p /\ t.ok = FALSE
    BY DEF Threw
  <2> HIDE DEF t
  <2>3. Becoming("push_back", v, t.ok, all)
    BY <1>7, <1>9, <2>1, <2>2, CallOne
  <2> QED BY <1>9, <1>k, <2>2, <2>3 DEF all
<1>10. CASE e.ok = TRUE /\ k = 1
  <2> DEFINE t == Returned(Push(p, v, one))
             q == Push(p, v, one)
             both == all \o one
  <2>1. Call("push_back", t)
    BY <1>5, <1>10
  <2>2. t.mem = q /\ t.ok = TRUE
    BY DEF Returned
  <2> HIDE DEF t, p
  <2>3. /\ Good(p) /\ v \in AllVectors /\ one \in Seq(Objects) /\ Elements(p, v) = all
        /\ p.vec[v].size + Len(one) <= p.vec[v].capacity /\ Keeps(Memory, p, {v})
    BY <1>2, <1>3, <1>6, <1>7, <1>10
  <2>4. Becomes(p, q, v, p.vec[v].begin, p.vec[v].capacity, Elements(p, v) \o one)
    BY <2>3, PushOK
  <2> HIDE DEF q, both
  <2>5. Good(q) /\ Keeps(p, q, {v}) /\ Elements(q, v) = both
    BY <2>3, <2>4 DEF Becomes, both
  <2>6. Keeps(Memory, q, {v})
    BY <2>3, <2>5 DEF Keeps
  <2>7. Becoming("push_back", v, t.ok, both)
    BY <2>1, <2>2, <2>5, <2>6, CallOne
  <2> QED BY <1>6, <2>2, <2>7 DEF both, all
<1> QED BY <1>7, <1>k, <1>8, <1>9, <1>10

LEMMA CopiesAre ==
  ASSUME NEW n \in Nat, NEW x \in Objects
  PROVE  /\ [i \in 1 .. n |-> x] \in Seq(Objects) /\ Len([i \in 1 .. n |-> x]) = n
<1>1. [i \in 1 .. n |-> x] \in [1 .. n -> Objects]
  OBVIOUS
<1> QED BY <1>1, IsSequence

LEMMA ResizeCall ==
  ASSUME MemoryInv, NEW v \in Vectors, NEW n \in Nat, Resize(v, n)
  PROVE  LET all == Elements(Memory, v)
         IN  /\ n >= Len(all)
             /\ \/ Becoming("resize", v, TRUE, all \o [i \in 1 .. n - Len(all) |-> Zero])
                \/ GrowthThrows("resize", v)
                \/ /\ CopyThrows
                   /\ \E k \in Nat :
                        /\ Len(all) + k < n
                        /\ Becoming("resize", v, FALSE, all \o [i \in 1 .. k |-> Zero])
<1> DEFINE len == vec[v].size
           all == Elements(Memory, v)
           more == n - len
<1>1. PICK j \in Successes(len, GrowThrows), k \in Successes(more, CopyThrows) :
        LET e == Reserve(Memory, v, n, j)
            q == Push(e.mem, v, [i \in 1 .. k |-> Zero])
        IN  Call("resize", IF ~e.ok THEN e ELSE IF len + k < n THEN Threw(q)
                           ELSE Returned(q))
  BY DEF Resize
<1> DEFINE e == Reserve(Memory, v, n, j)
           p == e.mem
           zeros == [i \in 1 .. k |-> Zero]
           q == Push(p, v, zeros)
           both == all \o zeros
<1>2. /\ len \in Nat /\ v \in AllVectors /\ all \in Seq(Objects) /\ Len(all) = len
      /\ n >= len /\ more \in Nat /\ more + len = n
  <2>1. len \in Nat /\ v \in AllVectors /\ all \in Seq(Objects) /\ Len(all) = len
    BY Called
  <2>2. n >= len
    BY DEF Resize
  <2> HIDE DEF len, all
  <2> QED BY <2>1, <2>2
<1>3. Call("resize", IF ~e.ok THEN e ELSE IF len + k < n THEN Threw(q) ELSE Returned(q))
  BY <1>1
<1>4. \/ /\ e.ok = TRUE /\ Good(p) /\ Keeps(Memory, p, {v}) /\ Elements(p, v) = all
         /\ p.vec[v].size = len /\ p.vec[v].capacity >= n /\ p.vec[v].capacity \in Nat
      \/ /\ e.ok = FALSE /\ Good(p) /\ Keeps(Memory, p, {v}) /\ GrowThrows
         /\ j \in 0 .. Len(all) - 1 /\ Elements(p, v) = Kept(all, j)
  BY ReserveEnds
<1>k. k \in Nat /\ k <= more /\ (k # more => CopyThrows)
  <2> HIDE DEF more
  <2> QED BY <1>2, SuccessesAre
<1>z. zeros \in Seq(Objects) /\ Len(zeros) = k
  BY <1>k, CopiesAre, ValuesAreObjects, NamesAssumption
<1> HIDE DEF e, all, zeros, len, q
<1>5. CASE e.ok = FALSE
  <2>1. Call("resize", e)
    BY <1>3, <1>5
  <2>2. Becoming("resize", v, e.ok, Kept(all, j))
    BY <1>4, <1>5, <2>1, CallOne
  <2> QED BY <1>2, <1>4, <1>5, <2>2 DEF GrowthThrows, all
<1>6. CASE e.ok = TRUE
  <2> HIDE DEF p
  <2>1. /\ Good(p) /\ v \in AllVectors /\ zeros \in Seq(Objects) /\ Elements(p, v) = all
        /\ p.vec[v].size + Len(zeros) <= p.vec[v].capacity /\ Keeps(Memory, p, {v})
    BY <1>2, <1>4, <1>6, <1>k, <1>z
  <2>2. Becomes(p, q, v, p.vec[v].begin, p.vec[v].capacity, Elements(p, v) \o zeros)
    BY <2>1, PushOK DEF q
  <2> HIDE DEF both
  <2>3. Good(q) /\ Keeps(p, q, {v}) /\ Elements(q, v) = both
    BY <2>1, <2>2 DEF Becomes, both
  <2>4. Keeps(Memory, q, {v})
    BY <2>1, <2>3 DEF Keeps
  <2>5. CASE len + k < n
    <3> DEFINE t == Threw(q)
    <3>1. Call("resize", t)
      BY <1>3, <1>6, <2>5
    <3>2. t.mem = q /\ t.ok = FALSE
      BY DEF Threw
    <3> HIDE DEF t
    <3>3. Becoming("resize", v, t.ok, both)
      BY <2>3, <2>4, <3>1, <3>2, CallOne
    <3>4. CopyThrows /\ Len(all) + k < n
      BY <1>2, <1>k, <2>5
    <3>5. \E i \in Nat : Len(all) + i < n /\ Becoming("resize", v, FALSE, all \o [h \in 1 .. i |-> Zero])
      BY <1>k, <3>2, <3>3, <3>4 DEF both, zeros
    <3> QED BY <1>2, <3>4, <3>5 DEF all
  <2>6. CASE ~(len + k < n)
    <3> DEFINE t == Returned(q)
    <3>1. Call("resize", t)
      BY <1>3, <1>6, <2>6
    <3>2. t.mem = q /\ t.ok = TRUE
      BY DEF Returned
    <3> HIDE DEF t
    <3>3. Becoming("resize", v, t.ok, both)
      BY <2>3, <2>4, <3>1, <3>2, CallOne
    <3>4. k = n - Len(all)
      BY <1>2, <1>k, <2>6
    <3> QED BY <1>2, <3>2, <3>3, <3>4 DEF both, zeros, all
  <2> QED BY <2>5, <2>6
<1> QED BY <1>4, <1>5, <1>6

LEMMA ResizeFillCall ==
  ASSUME MemoryInv, NEW v \in Vectors, NEW n \in Nat, NEW x \in Values, ResizeFill(v, n, x)
  PROVE  LET all == Elements(Memory, v)
         IN  /\ n >= Len(all)
             /\ \/ Becoming("resize_fill", v, TRUE, all \o [i \in 1 .. n - Len(all) |-> x])
                \/ GrowthThrows("resize_fill", v)
                \/ CopyThrows /\ Becoming("resize_fill", v, FALSE, <<>>)
<1> DEFINE len == vec[v].size
           all == Elements(Memory, v)
           more == n - len
           copies == [i \in 1 .. more |-> x]
           both == all \o copies
<1>1. PICK j \in Successes(len, GrowThrows), k \in Successes(more, CopyThrows) :
        LET e == Reserve(Memory, v, n, j)
        IN  Call("resize_fill", IF ~e.ok THEN e ELSE CopyInto(e.mem, v, copies, k))
  BY DEF ResizeFill
<1> DEFINE e == Reserve(Memory, v, n, j)
           p == e.mem
           q == CopyInto(p, v, copies, k)
<1>2. /\ len \in Nat /\ v \in AllVectors /\ all \in Seq(Objects) /\ Len(all) = len
      /\ n >= len /\ more \in Nat /\ more + len = n
  <2>1. len \in Nat /\ v \in AllVectors /\ all \in Seq(Objects) /\ Len(all) = len
    BY Called
  <2>2. n >= len
    BY DEF ResizeFill
  <2> HIDE DEF len, all
  <2> QED BY <2>1, <2>2
<1>3. Call("resize_fill", IF ~e.ok THEN e ELSE q)
  BY <1>1
<1>4. \/ /\ e.ok = TRUE /\ Good(p) /\ Keeps(Memory, p, {v}) /\ Elements(p, v) = all
         /\ p.vec[v].size = len /\ p.vec[v].capacity >= n /\ p.vec[v].capacity \in Nat
      \/ /\ e.ok = FALSE /\ Good(p) /\ Keeps(Memory, p, {v}) /\ GrowThrows
         /\ j \in 0 .. Len(all) - 1 /\ Elements(p, v) = Kept(all, j)
  BY ReserveEnds
<1>k. k \in Nat /\ k <= more /\ (k # more => CopyThrows)
  <2> HIDE DEF more
  <2> QED BY <1>2, SuccessesAre
<1>c. copies \in Seq(Objects) /\ Len(copies) = more
  <2> HIDE DEF more
  <2> QED BY <1>2, CopiesAre, ValuesAreObjects
<1> HIDE DEF e, all, copies, len, q
<1>5. CASE e.ok = FALSE
  <2>1. Call("resize_fill", e)
    BY <1>3, <1>5
  <2>2. Becoming("resize_fill", v, e.ok, Kept(all, j))
    BY <1>4, <1>5, <2>1, CallOne
  <2> QED BY <1>2, <1>4, <1>5, <2>2 DEF GrowthThrows, all
<1>6. CASE e.ok = TRUE
  <2> HIDE DEF p, more
  <2>1. /\ Good(p) /\ v \in AllVectors /\ copies \in Seq(Objects) /\ k \in 0 .. Len(copies)
        /\ p.vec[v].size + Len(copies) <= p.vec[v].capacity
    BY <1>2, <1>4, <1>6, <1>k, <1>c
  <2>2. IF k = Len(copies)
        THEN q.ok = TRUE /\ Becomes(p, q.mem, v, p.vec[v].begin, p.vec[v].capacity,
                                    Elements(p, v) \o copies)
        ELSE q.ok = FALSE /\ Becomes(p, q.mem, v, v, N[v], <<>>)
    BY <2>1, CopyIntoOK DEF q
  <2>3. Call("resize_fill", q) /\ Elements(p, v) = all /\ Keeps(Memory, p, {v})
    BY <1>3, <1>4, <1>6
  <2> HIDE DEF both
  <2>4. CASE k = Len(copies)
    <3>1. q.ok = TRUE /\ Good(q.mem) /\ Keeps(p, q.mem, {v}) /\ Elements(q.mem, v) = both
      BY <2>2, <2>3, <2>4 DEF Becomes, both
    <3>2. Keeps(Memory, q.mem, {v})
      BY <2>3, <3>1 DEF Keeps
    <3>3. Becoming("resize_fill", v, q.ok, both)
      BY <2>3, <3>1, <3>2, CallOne
    <3>4. more = n - Len(all)
      BY <1>2 DEF more
    <3> QED BY <1>2, <3>1, <3>3, <3>4 DEF both, copies, all
  <2>5. CASE k # Len(copies)
    <3>1. q.ok = FALSE /\ Good(q.mem) /\ Keeps(p, q.mem, {v}) /\ Elements(q.mem, v) = <<>>
      BY <2>2, <2>5 DEF Becomes
    <3>2. Keeps(Memory, q.mem, {v})
      BY <2>3, <3>1 DEF Keeps
    <3>3. Becoming("resize_fill", v, q.ok, <<>>)
      BY <2>3, <3>1, <3>2, CallOne
    <3> QED BY <1>2, <1>c, <1>k, <2>5, <3>1, <3>3 DEF all
  <2> QED BY <2>4, <2>5
<1> QED BY <1>4, <1>5, <1>6

(* A call that copies xs into v. *)
LEMMA CopyCall ==
  ASSUME MemoryInv, NEW v \in Vectors, NEW xs \in Seq(Objects), NEW op,
         NEW k \in Successes(Len(xs), CopyThrows), Call(op, CopyAssign(Memory, v, xs, k))
  PROVE  \/ Becoming(op, v, TRUE, xs)
         \/ CopyThrows /\ Becoming(op, v, FALSE, <<>>)
<1> DEFINE res == CopyAssign(Memory, v, xs, k)
           now == Memory
<1>1. /\ Good(now) /\ now.vec[Tmp].begin = Tmp /\ v \in AllVectors /\ v # Tmp
      /\ k \in 0 .. Len(xs) /\ (k # Len(xs) => CopyThrows)
  <2>1. Len(xs) \in Nat
    BY LenProperties
  <2> QED BY <2>1, Called, SuccessesAre
<1>2. res = CopyAssign(now, v, xs, k)
  OBVIOUS
<1>3. Call(op, res)
  OBVIOUS
<1> HIDE DEF now, res
<1>4. CopyResult(now, res, v, xs, k)
  BY <1>1, <1>2, CopyAssignOK
<1>5. Good(res.mem) /\ Keeps(Memory, res.mem, {v})
  BY <1>4 DEF CopyResult, now
<1>6. CASE k = Len(xs)
  <2>1. res.ok = TRUE /\ Elements(res.mem, v) = xs
    BY <1>4, <1>6 DEF CopyResult
  <2>2. Becoming(op, v, res.ok, xs)
    BY <1>3, <1>5, <2>1, CallOne
  <2> QED BY <2>1, <2>2
<1>7. CASE k # Len(xs)
  <2>1. res.ok = FALSE /\ Elements(res.mem, v) = <<>>
    BY <1>4, <1>7 DEF CopyResult
  <2>2. Becoming(op, v, res.ok, <<>>)
    BY <1>3, <1>5, <2>1, CallOne
  <2> QED BY <1>1, <1>7, <2>1, <2>2
<1> QED BY <1>6, <1>7

LEMMA AssignListCall ==
  ASSUME MemoryInv, NEW v \in Vectors, NEW xs \in Lists, AssignList(v, xs)
  PROVE  \/ Becoming("assign", v, TRUE, xs)
         \/ CopyThrows /\ Becoming("assign", v, FALSE, <<>>)
<1>1. PICK k \in Successes(Len(xs), CopyThrows) : Call("assign", CopyAssign(Memory, v, xs, k))
  BY DEF AssignList
<1>2. xs \in Seq(Objects)
  <2>1. xs \in Seq(Values) /\ Values \subseteq Objects
    BY BoundAssumption, ValuesAreObjects
  <2> QED BY <2>1
<1> QED BY <1>1, <1>2, CopyCall

LEMMA AssignCopyCall ==
  ASSUME MemoryInv, NEW v \in Vectors, NEW u \in Vectors, AssignCopy(v, u)
  PROVE  \/ Becoming("copy", v, TRUE, Elements(Memory, u))
         \/ v # u /\ CopyThrows /\ Becoming("copy", v, FALSE, <<>>)
<1> DEFINE xs == Elements(Memory, u)
<1>1. PICK k \in Successes(vec[u].size, CopyThrows) :
        Call("copy", IF v = u THEN Returned(Memory) ELSE CopyAssign(Memory, v, xs, k))
  BY DEF AssignCopy
<1>2. xs \in Seq(Objects) /\ Len(xs) = vec[u].size /\ Good(Memory)
  BY Called
<1> HIDE DEF xs
<1>3. CASE v = u
  <2> DEFINE res == Returned(Memory)
  <2>1. Call("copy", res)
    BY <1>1, <1>3
  <2>2. res.mem = Memory /\ res.ok = TRUE
    BY DEF Returned
  <2> HIDE DEF res
  <2>3. Good(res.mem) /\ Keeps(Memory, res.mem, {v}) /\ Elements(res.mem, v) = xs
    BY <1>2, <1>3, <2>2 DEF Keeps, xs
  <2>4. Becoming("copy", v, res.ok, xs)
    BY <2>1, <2>3, CallOne
  <2> QED BY <2>2, <2>4 DEF xs
<1>4. CASE v # u
  <2>1. Call("copy", CopyAssign(Memory, v, xs, k)) /\ k \in Successes(Len(xs), CopyThrows)
    BY <1>1, <1>2, <1>4
  <2>2. \/ Becoming("copy", v, TRUE, xs)
        \/ CopyThrows /\ Becoming("copy", v, FALSE, <<>>)
    BY <1>2, <2>1, CopyCall
  <2> QED BY <1>4, <2>2 DEF xs
<1> QED BY <1>3, <1>4

LEMMA AssignMoveCall ==
  ASSUME MemoryInv, NEW v \in Vectors, NEW u \in Vectors, AssignMove(v, u)
  PROVE  IF v = u THEN Becoming("move", v, TRUE, Elements(Memory, v))
         ELSE \/ BecomingBoth("move", v, u, TRUE, Elements(Memory, u), <<>>)
              \/ /\ MoveThrows
                 /\ \E k \in 0 .. Len(Elements(Memory, u)) - 1 :
                      BecomingBoth("move", v, u, FALSE, <<>>, MovedFrom(Elements(Memory, u), k))
<1> DEFINE now == Memory
           len == vec[u].size
           all == Elements(now, u)
<1>1. PICK k \in Successes(len, MoveThrows) : Call("move", MoveAssign(now, v, u, k))
  BY DEF AssignMove, Moves
<1>2. /\ Good(now) /\ now.vec[Tmp].begin = Tmp /\ now.vec = vec
      /\ v \in AllVectors /\ u \in AllVectors /\ v # Tmp /\ len \in Nat
      /\ Len(all) = len
  BY Called
<1>k. k \in Nat /\ k <= len /\ (k # len => MoveThrows) /\ k \in 0 .. now.vec[u].size
  <2> HIDE DEF len
  <2>1. k \in Nat /\ k <= len /\ (k # len => MoveThrows)
    BY <1>2, SuccessesAre
  <2> QED BY <1>2, <2>1 DEF len
<1>3. CASE v = u
  <2> DEFINE res == Returned(now)
  <2>1. Call("move", res)
    BY <1>1, <1>3 DEF MoveAssign
  <2>2. res.mem = now /\ res.ok = TRUE
    BY DEF Returned
  <2> HIDE DEF res
  <2>3. Good(res.mem) /\ Keeps(Memory, res.mem, {v}) /\ Elements(res.mem, v) = Elements(Memory, v)
    BY <1>2, <2>2 DEF Keeps
  <2>4. Becoming("move", v, res.ok, Elements(Memory, v))
    BY <2>1, <2>3, CallOne
  <2> QED BY <1>3, <2>2, <2>4
<1>4. CASE v # u
  <2> DEFINE res == MoveAssign(now, v, u, k)
  <2> HIDE DEF now
  <2>1. MoveResult(now, res, v, u, k)
    BY <1>2, <1>k, <1>4, MoveAssignOK
  <2> HIDE DEF res, len, all
  <2>2. CASE res.ok = TRUE
    <3>1. /\ Good(res.mem) /\ Keeps(now, res.mem, {v, u}) /\ Elements(res.mem, v) = all
          /\ res.mem.vec[u] = Empty(u)
      BY <2>1, <2>2 DEF MoveResult, Transfers, all
    <3>2. Elements(res.mem, u) = <<>>
      BY <1>2, <3>1, EmptyFacts
    <3>3. Call("move", res) /\ Keeps(Memory, res.mem, {v, u})
      BY <1>1, <3>1 DEF res, now
    <3>4. BecomingBoth("move", v, u, res.ok, all, <<>>)
      BY <3>1, <3>2, <3>3, CallBoth
    <3> QED BY <1>4, <2>2, <3>4 DEF all, now
  <2>3. CASE res.ok = FALSE
    <3> DEFINE rest == MovedFrom(all, k)
    <3>1. /\ Good(res.mem) /\ Keeps(now, res.mem, {v, u}) /\ Elements(res.mem, u) = rest
          /\ res.mem.vec[v] = Empty(v) /\ k < now.vec[u].size
      BY <2>1, <2>3 DEF MoveResult, Spoils, all
    <3> HIDE DEF rest
    <3>2. Elements(res.mem, v) = <<>>
      BY <1>2, <3>1, EmptyFacts
    <3>3. Call("move", res) /\ Keeps(Memory, res.mem, {v, u})
      BY <1>1, <3>1 DEF res, now
    <3>4. BecomingBoth("move", v, u, res.ok, <<>>, rest)
      BY <3>1, <3>2, <3>3, CallBoth
    <3>5. MoveThrows /\ k \in 0 .. Len(all) - 1
      BY <1>2, <1>k, <3>1 DEF len
    <3> QED BY <1>4, <2>3, <3>4, <3>5 DEF rest, all, now
  <2> QED BY <2>1, <2>2, <2>3 DEF MoveResult
<1> QED BY <1>3, <1>4

(* What an operator that models a function gives *)
IsResult(r) == \E x, ok : r = [mem |-> x, ok |-> ok]

LEMMA MoveGivesResult ==
  ASSUME NEW m, NEW v, NEW u, NEW k
  PROVE  IsResult(MoveFrom(m, v, u, k)) /\ IsResult(MoveAssign(m, v, u, k))
<1>1. ASSUME NEW p PROVE IsResult(Returned(p)) /\ IsResult(Threw(p))
  BY DEF IsResult, Returned, Threw
<1>2. ASSUME NEW p PROVE IsResult(MoveElements(p, v, u, k))
  BY <1>1 DEF MoveElements
<1>3. ASSUME NEW p PROVE IsResult(MoveFrom(p, v, u, k))
  BY <1>1, <1>2 DEF MoveFrom
<1> QED BY <1>1, <1>3 DEF MoveAssign

LEMMA SwapGivesResult ==
  ASSUME NEW m, NEW v, NEW u, NEW i, NEW j, NEW k
  PROVE  IsResult(SwapEnd(m, v, u, i, j, k))
<1> DEFINE a == MoveFrom(m, Tmp, u, i)
           b == MoveAssign(a.mem, u, v, j)
           c == MoveAssign(b.mem, v, Tmp, k)
<1>1. IsResult(a) /\ IsResult(b) /\ IsResult(c)
  BY MoveGivesResult
<1>2. SwapEnd(m, v, u, i, j, k) = IF ~a.ok THEN a ELSE IF ~b.ok THEN b ELSE c
  BY DEF SwapEnd
<1> HIDE DEF a, b, c
<1> QED BY <1>1, <1>2

LEMMA SwapCall ==
  ASSUME MemoryInv, NEW v \in Vectors, NEW u \in Vectors, Swap(v, u)
  PROVE  LET s == Elements(Memory, v)
             t == Elements(Memory, u)
         IN  IF v = u THEN Becoming("swap", v, TRUE, s)
             ELSE \/ BecomingBoth("swap", v, u, TRUE, t, s)
                  \/ /\ MoveThrows
                     /\ \/ \E k \in 0 .. Len(t) - 1 :
                             BecomingBoth("swap", v, u, FALSE, s, MovedFrom(t, k))
                        \/ \E k \in 0 .. Len(s) - 1 :
                             BecomingBoth("swap", v, u, FALSE, MovedFrom(s, k), <<>>)
                        \/ BecomingBoth("swap", v, u, FALSE, <<>>, s)
<1> DEFINE now == Memory
           s == Elements(now, v)
           t == Elements(now, u)
<1>1. PICK i \in Moves(u), k \in Moves(u), j \in Moves(v) :
        Call("swap", IF v = u THEN Returned(now)
                     ELSE [SwapEnd(now, v, u, i, j, k) EXCEPT
                             !.mem = Reset(SwapEnd(now, v, u, i, j, k).mem, Tmp)])
  BY DEF Swap, SwapEnd
<1>2. /\ Good(now) /\ now.vec = vec /\ now.vec[Tmp] = Empty(Tmp)
      /\ v \in AllVectors /\ u \in AllVectors /\ Tmp \in AllVectors
      /\ v # Tmp /\ u # Tmp /\ Len(s) = now.vec[v].size /\ Len(t) = now.vec[u].size
      /\ now.vec[v].size \in Nat /\ now.vec[u].size \in Nat
      /\ N[v] = N[u] /\ N[u] = N[Tmp]
  BY Called DEF MemoryInv, Swap
<1>3. /\ i \in 0 .. now.vec[u].size /\ k \in 0 .. now.vec[u].size
      /\ j \in 0 .. now.vec[v].size /\ i \in Nat /\ j \in Nat /\ k \in Nat
      /\ i < now.vec[u].size \/ j < now.vec[v].size \/ k < now.vec[u].size => MoveThrows
  <2>1. /\ i \in Successes(now.vec[u].size, MoveThrows)
        /\ k \in Successes(now.vec[u].size, MoveThrows)
        /\ j \in Successes(now.vec[v].size, MoveThrows)
    BY <1>2 DEF Moves
  <2> HIDE DEF now
  <2> QED BY <1>2, <2>1, SuccessesAre
<1>4. CASE v = u
  <2> DEFINE res == Returned(now)
  <2>1. Call("swap", res)
    BY <1>1, <1>4
  <2>2. res.mem = now /\ res.ok = TRUE
    BY DEF Returned
  <2> HIDE DEF res
  <2>3. Good(res.mem) /\ Keeps(Memory, res.mem, {v}) /\ Elements(res.mem, v) = s
    BY <1>2, <2>2 DEF Keeps
  <2>4. Becoming("swap", v, res.ok, s)
    BY <2>1, <2>3, CallOne
  <2> QED BY <1>4, <2>2, <2>4
<1>5. CASE v # u
  <2> DEFINE end == SwapEnd(now, v, u, i, j, k)
             after == Reset(end.mem, Tmp)
             res == [end EXCEPT !.mem = after]
  <2>1. Call("swap", res)
    BY <1>1, <1>5
  <2> HIDE DEF now
  <2>2. SwapResult(now, end, v, u, i, j, k)
    BY <1>2, <1>3, <1>5, SwapEndOK
  <2>3. \E x, ok : end = [mem |-> x, ok |-> ok]
    BY SwapGivesResult DEF IsResult
  <2> HIDE DEF end
  <2>4. res.mem = after /\ res.ok = end.ok
    <3> HIDE DEF after
    <3> QED BY <2>3
  <2> HIDE DEF res
  <2>5. Good(end.mem) /\ Keeps(now, end.mem, {v, u, Tmp})
    BY <2>2 DEF SwapResult
  <2>6. Becomes(end.mem, after, Tmp, Tmp, N[Tmp], <<>>)
    BY <1>2, <2>5, ResetOK
  <2> HIDE DEF after
  <2>7. /\ Good(after) /\ Keeps(end.mem, after, {Tmp}) /\ after.vec[Tmp] = Empty(Tmp)
        /\ Elements(after, Tmp) = <<>>
    BY <2>6, EmptySeq DEF Becomes, Empty
  <2>8. /\ Elements(after, v) = Elements(end.mem, v) /\ Elements(after, u) = Elements(end.mem, u)
    BY <1>2, <2>7 DEF Keeps
  <2>9. Keeps(now, after, {v, u})
    <3>1. Elements(now, Tmp) = <<>>
      BY <1>2, EmptyFacts
    <3> QED BY <1>2, <2>5, <2>7, <3>1 DEF Keeps
  <2>10. Good(res.mem) /\ Keeps(Memory, res.mem, {v, u})
    BY <2>4, <2>7, <2>9 DEF now
  <2> HIDE DEF s, t
  <2>11. ASSUME NEW x, NEW y, Elements(end.mem, v) = x, Elements(end.mem, u) = y
         PROVE  BecomingBoth("swap", v, u, end.ok, x, y)
    <3>1. Elements(res.mem, v) = x /\ Elements(res.mem, u) = y
      BY <2>4, <2>8, <2>11
    <3>2. BecomingBoth("swap", v, u, res.ok, x, y)
      BY <2>1, <2>10, <3>1, CallBoth
    <3> QED BY <2>4, <3>2
  <2>12. CASE end.ok = TRUE /\ Elements(end.mem, v) = t /\ Elements(end.mem, u) = s
    <3>1. BecomingBoth("swap", v, u, end.ok, t, s)
      BY <2>11, <2>12
    <3> QED BY <1>5, <2>12, <3>1 DEF s, t, now
  <2>13. CASE /\ end.ok = FALSE /\ i < now.vec[u].size /\ Elements(end.mem, v) = s
              /\ Elements(end.mem, u) = MovedFrom(t, i)
    <3>1. BecomingBoth("swap", v, u, end.ok, s, MovedFrom(t, i))
      BY <2>11, <2>13
    <3>2. MoveThrows /\ i \in 0 .. Len(t) - 1
      BY <1>2, <1>3, <2>13
    <3> QED BY <1>5, <2>13, <3>1, <3>2 DEF s, t, now
  <2>14. CASE /\ end.ok = FALSE /\ j < now.vec[v].size /\ Elements(end.mem, u) = <<>>
              /\ Elements(end.mem, v) = MovedFrom(s, j)
    <3>1. BecomingBoth("swap", v, u, end.ok, MovedFrom(s, j), <<>>)
      BY <2>11, <2>14
    <3>2. MoveThrows /\ j \in 0 .. Len(s) - 1
      BY <1>2, <1>3, <2>14
    <3> QED BY <1>5, <2>14, <3>1, <3>2 DEF s, t, now
  <2>15. CASE /\ end.ok = FALSE /\ k < now.vec[u].size /\ Elements(end.mem, v) = <<>>
              /\ Elements(end.mem, u) = s
    <3>1. BecomingBoth("swap", v, u, end.ok, <<>>, s)
      BY <2>11, <2>15
    <3>2. MoveThrows
      BY <1>3, <2>15
    <3> QED BY <1>5, <2>15, <3>1, <3>2 DEF s, t, now
  <2> QED BY <2>2, <2>12, <2>13, <2>14, <2>15 DEF SwapResult, s, t
<1> QED BY <1>4, <1>5

-----------------------------------------------------------------------------
(* The inductive invariant. *)

LEMMA InitMemoryInv == Init => MemoryInv
<1> SUFFICES ASSUME Init PROVE MemoryInv
  OBVIOUS
<1> DEFINE now == Memory
<1>1. /\ now.vec = vec /\ now.cells = cells /\ now.alive = 0
      /\ \A v \in AllVectors : vec[v] = Empty(v) /\ cells[v] = RawCells(N[v])
      /\ \A b \in Heap : cells[b] = <<>>
  BY NamesAssumption DEF Init, Memory, Empty, Blocks
<1>2. \A v \in AllVectors : N[v] \in Nat \ {0}
  BY CapacityAssumption
<1>3. ASSUME NEW v \in AllVectors
      PROVE  /\ RawCells(N[v]) \in Seq(Cells) /\ Len(RawCells(N[v])) = N[v]
             /\ \A i \in 1 .. N[v] : RawCells(N[v])[i] = Raw
  <2>1. RawCells(N[v]) \in [1 .. N[v] -> Cells]
    BY DEF RawCells, Cells
  <2>2. RawCells(N[v]) \in Seq(Cells) /\ Len(RawCells(N[v])) = N[v]
    BY <1>2, <2>1, IsSequence
  <2> QED BY <2>2 DEF RawCells
<1>4. cells \in [Blocks -> Seq(Cells)]
  <2>1. \A b \in Blocks : cells[b] \in Seq(Cells)
    BY <1>1, <1>3, EmptySeq DEF Blocks
  <2> QED BY <2>1 DEF Init
<1>5. vec \in [AllVectors -> [begin : Blocks, size : Nat, capacity : Nat]]
  BY <1>2 DEF Init, Blocks
<1>6. now \in MemoryType
  BY <1>4, <1>5 DEF MemoryType, Memory, Init
<1>7. Balanced(now)
  <2>1. \A b \in Blocks : \A i \in DOMAIN cells[b] : cells[b][i] = Raw
    BY <1>1, <1>2, <1>3, EmptySeq DEF Blocks
  <2>2. LiveCells(cells) = {}
    <3> SUFFICES ASSUME NEW x \in LiveCells(cells) PROVE FALSE
      OBVIOUS
    <3>1. PICK b, i : b \in Blocks /\ i \in DOMAIN cells[b] /\ cells[b][i] # Raw
      BY DEF LiveCells
    <3> QED BY <2>1, <3>1
  <2> QED BY <1>1, <2>2, FS_EmptySet DEF Balanced
<1> HIDE DEF now
<1>b. ASSUME NEW v \in AllVectors
      PROVE  /\ now.vec[v].begin = v /\ now.vec[v].size = 0 /\ now.vec[v].capacity = N[v]
             /\ now.cells[v] = RawCells(N[v])
  <2>1. now.vec[v] = Empty(v) /\ now.cells[v] = RawCells(N[v])
    BY <1>1
  <2> QED BY <2>1 DEF Empty
<1>8. ASSUME NEW v \in AllVectors PROVE VectorOK(now, v)
  BY <1>2, <1>3, <1>b DEF VectorOK
<1>9. Layout(now)
  <2>1. \A b \in Heap : now.cells[b] = <<>>
    BY <1>1
  <2>2. \A v, u \in AllVectors : now.vec[v].begin = now.vec[u].begin => v = u
    BY <1>b
  <2> QED BY <1>8, <2>1, <2>2 DEF Layout
<1>10. vec[Tmp] = Empty(Tmp) /\ type \in Types
  BY <1>1 DEF AllVectors, Init
<1> QED BY <1>6, <1>7, <1>9, <1>10 DEF MemoryInv, Good, now

LEMMA KeptUnused ==
  ASSUME MemoryInv, NEW v \in Vectors, NEW u \in Vectors,
         Good(Memory'), Keeps(Memory, Memory', {v, u}), type' = type
  PROVE  MemoryInv'
<1>1. Tmp \in AllVectors \ {v, u}
  BY NamesAssumption DEF AllVectors
<1>2. Memory'.vec = vec' /\ Memory.vec = vec
  BY DEF Memory
<1>3. Memory'.vec[Tmp] = Memory.vec[Tmp]
  BY <1>1 DEF Keeps
<1>4. vec'[Tmp] = Empty(Tmp)
  BY <1>2, <1>3 DEF MemoryInv
<1> QED BY <1>4 DEF MemoryInv

LEMMA BecomingInv ==
  ASSUME MemoryInv, NEW op, NEW v \in Vectors, NEW ok, NEW s, Becoming(op, v, ok, s)
  PROVE  MemoryInv'
<1>1. Keeps(Memory, Memory', {v, v})
  BY DEF Becoming
<1> QED BY <1>1, KeptUnused DEF Becoming

LEMMA BecomingBothInv ==
  ASSUME MemoryInv, NEW op, NEW v \in Vectors, NEW u \in Vectors, NEW ok, NEW s, NEW t,
         BecomingBoth(op, v, u, ok, s, t)
  PROVE  MemoryInv'
BY KeptUnused DEF BecomingBoth

LEMMA NextMemoryInv ==
  ASSUME MemoryInv, [Next]_vars
  PROVE  MemoryInv'
<1>1. CASE UNCHANGED vars
  BY <1>1 DEF MemoryInv, Memory, vars
<1>2. CASE Next
  <2> PICK v \in Vectors :
        \/ \E x \in Values : PushBack(v, x)
        \/ ClearAll(v) \/ Destroy(v)
        \/ \E n \in 0 .. MaxLen + 1 : ReserveRoom(v, n)
        \/ \E n \in 0 .. MaxLen : Shrink(v, n) \/ Resize(v, n)
        \/ \E n \in 0 .. MaxLen, x \in Values : ResizeFill(v, n, x)
        \/ \E xs \in Lists : AssignList(v, xs)
        \/ \E u \in Vectors : AssignCopy(v, u) \/ AssignMove(v, u) \/ Swap(v, u)
    BY <1>2 DEF Next
  <2>0. 0 .. MaxLen \subseteq Nat /\ 0 .. MaxLen + 1 \subseteq Nat
    BY BoundAssumption
  <2>g. ASSUME NEW op, GrowthThrows(op, v) PROVE MemoryInv'
    BY <2>g, BecomingInv DEF GrowthThrows
  <2>1. ASSUME NEW x \in Values, PushBack(v, x) PROVE MemoryInv'
    BY <2>1, <2>g, PushBackCall, BecomingInv
  <2>2. CASE ClearAll(v)
    BY <2>2, ClearCall, BecomingInv
  <2>3. CASE Destroy(v)
    BY <2>3, DestroyCall, BecomingInv
  <2>4. ASSUME NEW n \in 0 .. MaxLen + 1, ReserveRoom(v, n) PROVE MemoryInv'
    BY <2>0, <2>4, <2>g, ReserveCall, BecomingInv
  <2>5. ASSUME NEW n \in 0 .. MaxLen, Shrink(v, n) PROVE MemoryInv'
    BY <2>0, <2>5, ShrinkCall, BecomingInv
  <2>6. ASSUME NEW n \in 0 .. MaxLen, Resize(v, n) PROVE MemoryInv'
    BY <2>0, <2>6, <2>g, ResizeCall, BecomingInv
  <2>7. ASSUME NEW n \in 0 .. MaxLen, NEW x \in Values, ResizeFill(v, n, x) PROVE MemoryInv'
    BY <2>0, <2>7, <2>g, ResizeFillCall, BecomingInv
  <2>8. ASSUME NEW xs \in Lists, AssignList(v, xs) PROVE MemoryInv'
    BY <2>8, AssignListCall, BecomingInv
  <2>9. ASSUME NEW u \in Vectors, AssignCopy(v, u) PROVE MemoryInv'
    BY <2>9, AssignCopyCall, BecomingInv
  <2>10. ASSUME NEW u \in Vectors, AssignMove(v, u) PROVE MemoryInv'
    BY <2>10, AssignMoveCall, BecomingInv, BecomingBothInv
  <2>11. ASSUME NEW u \in Vectors, Swap(v, u) PROVE MemoryInv'
    BY <2>11, SwapCall, BecomingInv, BecomingBothInv
  <2> QED BY <2>1, <2>2, <2>3, <2>4, <2>5, <2>6, <2>7, <2>8, <2>9, <2>10, <2>11
<1> QED BY <1>1, <1>2

(* In every reachable state the memory is good: the invariant the theorems  *)
(* below follow from.                                                       *)
THEOREM MemoryIsGood == Spec => []MemoryInv
BY InitMemoryInv, NextMemoryInv, PTL DEF Spec

-----------------------------------------------------------------------------
(* What is stored where. *)

(* begin_, size_ and capacity_ stay what their types say and no more        *)
(* elements are destroyed than were constructed.                            *)
THEOREM StorageTypeCorrect == Spec => []TypeOK
<1>1. MemoryInv => TypeOK
  BY FS_CardinalityType DEF MemoryInv, Good, Balanced, MemoryType, Memory, TypeOK
<1> QED BY <1>1, MemoryIsGood, PTL

(* Every vector's storage is its own inline storage or a heap block that is *)
(* its alone, and no block is leaked, after calls that throw as well        *)
(* (small_vector.h:349-356, 366-376, 402-408).                              *)
THEOREM StorageOwned == Spec => []Ownership
<1>1. MemoryInv => Ownership
  <2> SUFFICES ASSUME MemoryInv PROVE Ownership
    OBVIOUS
  <2>1. Layout(Memory) /\ Memory.vec = vec /\ Memory.cells = cells
    BY DEF MemoryInv, Good, Memory
  <2>2. \A v \in AllVectors :
          /\ vec[v].begin \in Heap \cup {v}
          /\ vec[v].capacity = Len(cells[vec[v].begin])
          /\ Len(cells[v]) = N[v]
    BY <2>1 DEF Layout, VectorOK
  <2> QED BY <2>1, <2>2 DEF Ownership, Layout
<1> QED BY <1>1, MemoryIsGood, PTL

(* The first size_ cells of a vector hold elements and no other cell does;  *)
(* destructions balance constructions to the element, whatever threw        *)
(* (small_vector.h:330-408).                                                *)
THEOREM ElementsLive == Spec => []Lifetimes
<1>1. MemoryInv => Lifetimes
  <2> SUFFICES ASSUME MemoryInv PROVE Lifetimes
    OBVIOUS
  <2>1. /\ Memory \in MemoryType /\ Layout(Memory) /\ Balanced(Memory) /\ Memory.vec = vec
        /\ Memory.cells = cells /\ Memory.alive = alive
    BY DEF MemoryInv, Good, Memory
  <2>2. ASSUME NEW v \in AllVectors
        PROVE  /\ vec[v].begin \in Heap \cup {v} /\ vec[v].size <= vec[v].capacity
               /\ Len(cells[vec[v].begin]) = vec[v].capacity
               /\ \A i \in 1 .. vec[v].capacity : cells[vec[v].begin][i] # Raw <=> i <= vec[v].size
               /\ Len(cells[v]) = N[v]
               /\ vec[v].begin # v => \A i \in 1 .. N[v] : cells[v][i] = Raw
    BY <2>1 DEF Layout, VectorOK
  <2>3. \A b \in Blocks : DOMAIN cells[b] = 1 .. Len(cells[b])
    BY <2>1, CellsType
  <2>4. ASSUME NEW b \in Blocks, NEW i \in DOMAIN cells[b]
        PROVE  cells[b][i] # Raw <=> \E v \in AllVectors : vec[v].begin = b /\ i <= vec[v].size
    <3>1. CASE \E v \in AllVectors : vec[v].begin = b
      <4>1. PICK v \in AllVectors : vec[v].begin = b
        BY <3>1
      <4>2. \A u \in AllVectors : vec[u].begin = b => u = v
        BY <2>1, <4>1 DEF Layout
      <4>3. cells[b][i] # Raw <=> i <= vec[v].size
        BY <2>2, <2>3, <2>4, <4>1
      <4> QED BY <4>1, <4>2, <4>3
    <3>2. CASE ~ \E v \in AllVectors : vec[v].begin = b
      <4>1. b \notin Heap
        <5>1. b \in Heap => cells[b] = <<>>
          BY <2>1, <3>2 DEF Layout
        <5> QED BY <2>3, <2>4, <5>1, EmptySeq
      <4>2. b \in AllVectors
        BY <4>1 DEF Blocks
      <4>3. cells[b][i] = Raw
        BY <2>2, <2>3, <2>4, <3>2, <4>2
      <4> QED BY <3>2, <4>3
    <3> QED BY <3>1, <3>2
  <2>5. alive = Cardinality(LiveCells(cells))
    BY <2>1 DEF Balanced
  <2> QED BY <2>2, <2>4, <2>5 DEF Lifetimes
<1> QED BY <1>1, MemoryIsGood, PTL

-----------------------------------------------------------------------------
(* The contract. *)

Contents == [v \in Vectors |-> Elements(Memory, v)]

LEMMA BecomingContents ==
  ASSUME NEW op, NEW v \in Vectors, NEW ok, NEW s, Becoming(op, v, ok, s)
  PROVE  Contract!Ends(op, ok) /\ Contract!Set(v, s)
<1>1. ASSUME NEW w \in Vectors PROVE Elements(Memory', w) = IF w = v THEN s ELSE Elements(Memory, w)
  BY DEF Becoming, Keeps, AllVectors
<1>2. [w \in Vectors |-> Elements(Memory', w)]
        = [[w \in Vectors |-> Elements(Memory, w)] EXCEPT ![v] = s]
  BY <1>1
<1> QED BY <1>2 DEF Contract!Ends, Contract!Set, Becoming

BothSet(v, u, s, t) == Contents' = [Contents EXCEPT ![v] = s, ![u] = t]

LEMMA BecomingBothContents ==
  ASSUME NEW op, NEW v \in Vectors, NEW u \in Vectors, v # u, NEW ok, NEW s, NEW t,
         BecomingBoth(op, v, u, ok, s, t)
  PROVE  Contract!Ends(op, ok) /\ BothSet(v, u, s, t)
<1>1. ASSUME NEW w \in Vectors
      PROVE  Elements(Memory', w) = IF w = v THEN s ELSE IF w = u THEN t
                                    ELSE Elements(Memory, w)
  BY DEF BecomingBoth, Keeps, AllVectors
<1>2. [w \in Vectors |-> Elements(Memory', w)]
        = [[w \in Vectors |-> Elements(Memory, w)] EXCEPT ![v] = s, ![u] = t]
  BY <1>1
<1> QED BY <1>2 DEF Contract!Ends, BecomingBoth, Contents, BothSet

(* Nothing happens to the contents. *)
LEMMA BecomingSame ==
  ASSUME NEW op, NEW v \in Vectors, NEW ok, Becoming(op, v, ok, Elements(Memory, v))
  PROVE  Contract!Ends(op, ok) /\ Contents' = Contents
<1>1. Contract!Ends(op, ok) /\ Contract!Set(v, Elements(Memory, v))
  BY BecomingContents
<1> QED BY <1>1 DEF Contract!Set, Contents

LEMMA GrowthMaps ==
  ASSUME MemoryInv, NEW op, NEW v \in Vectors, GrowthThrows(op, v)
  PROVE  Contract!Ends(op, FALSE) /\ Contract!GrowthFails(v)
<1> DEFINE s == Elements(Memory, v)
<1>1. PICK j \in 0 .. Len(s) - 1 : Becoming(op, v, FALSE, Kept(s, j))
  BY DEF GrowthThrows
<1>2. Contract!Ends(op, FALSE) /\ Contract!Set(v, Kept(s, j))
  BY <1>1, BecomingContents
<1>3. Contents[v] = s
  BY DEF Contents
<1>4. CASE GrowCopies
  <2>1. Becoming(op, v, FALSE, s)
    BY <1>1, <1>4 DEF Kept
  <2>2. Contents' = Contents
    BY <2>1, BecomingSame
  <2>3. MoveThrows /\ Copyable /\ CopyThrows
    BY <1>4 DEF GrowthThrows, GrowThrows, GrowCopies
  <2> QED BY <1>2, <2>2, <2>3
      DEF Contents, Contract!GrowthFails, MoveThrows, Copyable, CopyThrows,
          Contract!MoveThrows, Contract!Copyable, Contract!CopyThrows
<1>5. CASE ~GrowCopies
  <2>1. MoveThrows /\ ~Copyable
    BY <1>5 DEF GrowthThrows, GrowThrows, GrowCopies
  <2>2. Kept(s, j) = Contract!MovedPrefix(s, j)
    BY <1>5 DEF Kept, MovedFrom, Contract!MovedPrefix
  <2>3. \E k \in 0 .. Len(Contents[v]) - 1 : Contract!Set(v, Contract!MovedPrefix(Contents[v], k))
    <3> HIDE DEF s
    <3> QED BY <1>2, <1>3, <2>2
  <2> QED BY <1>2, <2>1, <2>3
      DEF Contents, Contract!GrowthFails, MoveThrows, Copyable,
          Contract!MoveThrows, Contract!Copyable
<1> QED BY <1>4, <1>5

LEMMA PushBackMaps ==
  ASSUME MemoryInv, NEW v \in Vectors, NEW x \in Values, PushBack(v, x)
  PROVE  Contract!PushBack(v, x)
<1> DEFINE s == Elements(Memory, v)
<1>1. CASE Becoming("push_back", v, TRUE, Append(s, x))
  <2>1. Contract!Ends("push_back", TRUE) /\ Contract!Set(v, Append(s, x))
    BY <1>1, BecomingContents
  <2> QED BY <2>1 DEF Contract!PushBack
<1>2. CASE GrowthThrows("push_back", v)
  BY <1>2, GrowthMaps DEF Contract!PushBack
<1>3. CASE (CopyThrows \/ MoveThrows) /\ Becoming("push_back", v, FALSE, s)
  BY <1>3, BecomingSame
  DEF Contract!PushBack, Contents, CopyThrows, MoveThrows, Contract!CopyThrows,
      Contract!MoveThrows
<1> QED BY <1>1, <1>2, <1>3, PushBackCall

LEMMA ReserveMaps ==
  ASSUME MemoryInv, NEW v \in Vectors, NEW n \in Nat, ReserveRoom(v, n)
  PROVE  Contract!Reserve(v)
<1>1. CASE Becoming("reserve", v, TRUE, Elements(Memory, v))
  BY <1>1, BecomingSame DEF Contract!Reserve, Contents
<1>2. CASE GrowthThrows("reserve", v)
  BY <1>2, GrowthMaps DEF Contract!Reserve
<1> QED BY <1>1, <1>2, ReserveCall

LEMMA ShrinkMaps ==
  ASSUME MemoryInv, NEW v \in Vectors, NEW n \in Nat, Shrink(v, n)
  PROVE  Contract!Resize(v, n)
<1> DEFINE s == Elements(Memory, v)
<1>1. n < Len(s) /\ Becoming("resize", v, TRUE, SubSeq(s, 1, n))
  BY ShrinkCall
<1>2. Contract!Ends("resize", TRUE) /\ Contract!Set(v, SubSeq(s, 1, n))
  BY <1>1, BecomingContents
<1>3. Contract!Resized(v, n, Zero) = SubSeq(s, 1, n)
  BY <1>1 DEF Contract!Resized
<1> QED BY <1>2, <1>3 DEF Contract!Resize

LEMMA ResizeMaps ==
  ASSUME MemoryInv, NEW v \in Vectors, NEW n \in Nat, Resize(v, n)
  PROVE  Contract!Resize(v, n)
<1> DEFINE s == Elements(Memory, v)
<1>0. Len(s) \in Nat /\ n >= Len(s)
  BY Called, ResizeCall
<1>r. ASSUME NEW k \in Nat, k >= Len(s)
      PROVE  Contract!Resized(v, k, Zero) = s \o [i \in 1 .. k - Len(s) |-> Zero]
  BY <1>0, <1>r DEF Contract!Resized
<1>1. CASE Becoming("resize", v, TRUE, s \o [i \in 1 .. n - Len(s) |-> Zero])
  <2>1. /\ Contract!Ends("resize", TRUE)
        /\ Contract!Set(v, s \o [i \in 1 .. n - Len(s) |-> Zero])
    BY <1>1, BecomingContents
  <2>2. Contract!Set(v, Contract!Resized(v, n, Zero))
    BY <1>0, <1>r, <2>1
  <2> QED BY <2>1, <2>2 DEF Contract!Resize
<1>2. CASE GrowthThrows("resize", v)
  BY <1>2, GrowthMaps DEF Contract!Resize
<1>3. CASE /\ CopyThrows
           /\ \E k \in Nat : /\ Len(s) + k < n
                             /\ Becoming("resize", v, FALSE, s \o [i \in 1 .. k |-> Zero])
  <2>1. PICK k \in Nat : /\ Len(s) + k < n
                         /\ Becoming("resize", v, FALSE, s \o [i \in 1 .. k |-> Zero])
    BY <1>3
  <2>2. /\ Contract!Ends("resize", FALSE)
        /\ Contract!Set(v, s \o [i \in 1 .. k |-> Zero])
    BY <2>1, BecomingContents
  <2> DEFINE all == Len(s) + k
  <2>3. all \in Nat /\ all >= Len(s) /\ all - Len(s) = k /\ all \in Len(s) .. n - 1
    <3> HIDE DEF s
    <3> QED BY <1>0, <2>1
  <2>4. Contract!Set(v, Contract!Resized(v, all, Zero))
    BY <1>r, <2>2, <2>3
  <2> QED BY <1>3, <2>2, <2>3, <2>4 DEF Contract!Resize, CopyThrows, Contract!CopyThrows
<1> QED BY <1>1, <1>2, <1>3, ResizeCall

LEMMA ResizeFillMaps ==
  ASSUME MemoryInv, NEW v \in Vectors, NEW n \in Nat, NEW x \in Values, ResizeFill(v, n, x)
  PROVE  Contract!ResizeFill(v, n, x)
<1> DEFINE s == Elements(Memory, v)
           t == s \o [i \in 1 .. n - Len(s) |-> x]
<1>0. Len(s) \in Nat /\ n >= Len(s)
  BY Called, ResizeFillCall
<1>1. CASE Becoming("resize_fill", v, TRUE, t)
  <2>1. Contract!Ends("resize_fill", TRUE) /\ Contract!Set(v, t)
    BY <1>1, BecomingContents
  <2>2. Contract!Resized(v, n, x) = t
    BY <1>0 DEF Contract!Resized
  <2> QED BY <1>0, <2>1, <2>2 DEF Contract!ResizeFill
<1>2. CASE GrowthThrows("resize_fill", v)
  BY <1>0, <1>2, GrowthMaps DEF Contract!ResizeFill
<1>3. CASE CopyThrows /\ Becoming("resize_fill", v, FALSE, <<>>)
  BY <1>0, <1>3, BecomingContents DEF Contract!ResizeFill, CopyThrows, Contract!CopyThrows
<1> QED BY <1>1, <1>2, <1>3, ResizeFillCall

LEMMA AssignMaps ==
  ASSUME MemoryInv, NEW v \in Vectors, NEW xs \in Lists, AssignList(v, xs)
  PROVE  Contract!Assign(v, xs)
<1>1. CASE Becoming("assign", v, TRUE, xs)
  BY <1>1, BecomingContents DEF Contract!Assign
<1>2. CASE CopyThrows /\ Becoming("assign", v, FALSE, <<>>)
  BY <1>2, BecomingContents DEF Contract!Assign, CopyThrows, Contract!CopyThrows
<1> QED BY <1>1, <1>2, AssignListCall

LEMMA CopyMaps ==
  ASSUME MemoryInv, NEW v \in Vectors, NEW u \in Vectors, AssignCopy(v, u)
  PROVE  Contract!Copy(v, u)
<1>1. CASE Becoming("copy", v, TRUE, Elements(Memory, u))
  BY <1>1, BecomingContents DEF Contract!Copy
<1>2. CASE v # u /\ CopyThrows /\ Becoming("copy", v, FALSE, <<>>)
  BY <1>2, BecomingContents DEF Contract!Copy, CopyThrows, Contract!CopyThrows
<1> QED BY <1>1, <1>2, AssignCopyCall

LEMMA MoveMaps ==
  ASSUME MemoryInv, NEW v \in Vectors, NEW u \in Vectors, AssignMove(v, u)
  PROVE  Contract!Move(v, u)
<1> DEFINE mine == Elements(Memory, v)
           theirs == Elements(Memory, u)
<1>1. CASE v = u
  <2>1. Contract!Ends("move", TRUE) /\ Contents' = Contents
    BY <1>1, AssignMoveCall, BecomingSame
  <2> QED BY <1>1, <2>1 DEF Contract!Move, Contents
<1>2. CASE v # u
  <2>1. CASE BecomingBoth("move", v, u, TRUE, theirs, <<>>)
    <3>1. Contract!Ends("move", TRUE) /\ BothSet(v, u, theirs, <<>>)
      <4> HIDE DEF mine, theirs
      <4> QED BY <1>2, <2>1, BecomingBothContents
    <3> QED BY <1>2, <3>1 DEF BothSet, Contract!Move, Contents
  <2>2. CASE /\ MoveThrows
             /\ \E k \in 0 .. Len(theirs) - 1 :
                  BecomingBoth("move", v, u, FALSE, <<>>, MovedFrom(theirs, k))
    <3>1. PICK k \in 0 .. Len(theirs) - 1 : BecomingBoth("move", v, u, FALSE, <<>>, MovedFrom(theirs, k))
      BY <2>2
    <3>2. Contract!Ends("move", FALSE) /\ BothSet(v, u, <<>>, MovedFrom(theirs, k))
      <4> HIDE DEF mine, theirs
      <4> QED BY <1>2, <3>1, BecomingBothContents
    <3>3. MovedFrom(theirs, k) = Contract!MovedPrefix(theirs, k)
      BY DEF MovedFrom, Contract!MovedPrefix
    <3>4. Contents[u] = theirs
      BY DEF Contents
    <3>5. \E i \in 0 .. Len(Contents[u]) - 1 :
            Contents' = [Contents EXCEPT ![v] = <<>>, ![u] = Contract!MovedPrefix(Contents[u], i)]
      <4> HIDE DEF theirs
      <4> QED BY <3>2, <3>3, <3>4 DEF BothSet
    <3> QED BY <1>2, <2>2, <3>2, <3>5
        DEF Contract!Move, Contents, MoveThrows, Contract!MoveThrows
  <2> QED BY <1>2, <2>1, <2>2, AssignMoveCall
<1> QED BY <1>1, <1>2

LEMMA SwapMaps ==
  ASSUME MemoryInv, NEW v \in Vectors, NEW u \in Vectors, Swap(v, u)
  PROVE  Contract!Swap(v, u)
<1> DEFINE mine == Elements(Memory, v)
           theirs == Elements(Memory, u)
<1>0. Contents[v] = mine /\ Contents[u] = theirs
  BY DEF Contents
<1>m. \A k : /\ MovedFrom(theirs, k) = Contract!MovedPrefix(theirs, k)
             /\ MovedFrom(mine, k) = Contract!MovedPrefix(mine, k)
  BY DEF MovedFrom, Contract!MovedPrefix
<1>1. CASE v = u
  <2>1. Contract!Ends("swap", TRUE) /\ Contents' = Contents
    BY <1>1, SwapCall, BecomingSame
  <2>2. Contents' = [Contents EXCEPT ![v] = Contents[u], ![u] = Contents[v]]
    BY <1>1, <2>1 DEF Contents
  <2> QED BY <2>1, <2>2 DEF Contract!Swap, Contents
<1>2. CASE v # u
  <2>1. CASE BecomingBoth("swap", v, u, TRUE, theirs, mine)
    <3>1. Contract!Ends("swap", TRUE) /\ BothSet(v, u, theirs, mine)
      <4> HIDE DEF mine, theirs
      <4> QED BY <1>2, <2>1, BecomingBothContents
    <3> QED BY <1>0, <3>1 DEF BothSet, Contract!Swap, Contents
  <2>2. CASE /\ MoveThrows
             /\ \E k \in 0 .. Len(theirs) - 1 : BecomingBoth("swap", v, u, FALSE, mine, MovedFrom(theirs, k))
    <3>1. PICK k \in 0 .. Len(theirs) - 1 : BecomingBoth("swap", v, u, FALSE, mine, MovedFrom(theirs, k))
      BY <2>2
    <3>2. Contract!Ends("swap", FALSE) /\ BothSet(v, u, mine, MovedFrom(theirs, k))
      <4> HIDE DEF mine, theirs
      <4> QED BY <1>2, <3>1, BecomingBothContents
    <3>3. Contents' = [Contents EXCEPT ![u] = MovedFrom(theirs, k)]
      BY <1>0, <3>2 DEF BothSet, Contents
    <3>4. \E i \in 0 .. Len(Contents[u]) - 1 :
            Contents' = [Contents EXCEPT ![u] = Contract!MovedPrefix(Contents[u], i)]
      <4> HIDE DEF mine, theirs
      <4> QED BY <1>0, <1>m, <3>3
    <3> QED BY <1>2, <2>2, <3>2, <3>4
        DEF Contract!Swap, Contract!Set, Contents, MoveThrows, Contract!MoveThrows
  <2>3. CASE /\ MoveThrows
             /\ \E k \in 0 .. Len(mine) - 1 : BecomingBoth("swap", v, u, FALSE, MovedFrom(mine, k), <<>>)
    <3>1. PICK k \in 0 .. Len(mine) - 1 : BecomingBoth("swap", v, u, FALSE, MovedFrom(mine, k), <<>>)
      BY <2>3
    <3>2. Contract!Ends("swap", FALSE) /\ BothSet(v, u, MovedFrom(mine, k), <<>>)
      <4> HIDE DEF mine, theirs
      <4> QED BY <1>2, <3>1, BecomingBothContents
    <3>3. \E i \in 0 .. Len(Contents[v]) - 1 :
            Contents' = [Contents EXCEPT ![v] = Contract!MovedPrefix(Contents[v], i), ![u] = <<>>]
      <4> HIDE DEF mine, theirs
      <4> QED BY <1>0, <1>m, <3>2 DEF BothSet
    <3> QED BY <1>2, <2>3, <3>2, <3>3
        DEF Contract!Swap, Contents, MoveThrows, Contract!MoveThrows
  <2>4. CASE MoveThrows /\ BecomingBoth("swap", v, u, FALSE, <<>>, mine)
    <3>1. Contract!Ends("swap", FALSE) /\ BothSet(v, u, <<>>, mine)
      <4> HIDE DEF mine, theirs
      <4> QED BY <1>2, <2>4, BecomingBothContents
    <3> QED BY <1>0, <1>2, <2>4, <3>1
        DEF BothSet, Contract!Swap, Contents, MoveThrows, Contract!MoveThrows
  <2> QED BY <1>2, <2>1, <2>2, <2>3, <2>4, SwapCall
<1> QED BY <1>1, <1>2

LEMMA VectorsStartEmpty == Init => Contract!Init
<1> SUFFICES ASSUME Init PROVE Contract!Init
  OBVIOUS
<1>1. MemoryInv
  BY InitMemoryInv
<1>2. ASSUME NEW v \in Vectors PROVE Elements(Memory, v) = <<>>
  <2>1. /\ Good(Memory) /\ v \in AllVectors /\ Memory.vec = vec
    BY <1>1, Called
  <2>2. vec[v] = [begin |-> v, size |-> 0, capacity |-> N[v]]
    BY <2>1 DEF Init
  <2>3. Memory.vec[v].size = 0
    BY <2>1, <2>2
  <2> QED BY <2>1, <2>3, EmptyElements
<1> QED BY <1>2 DEF Init, Contract!Init

LEMMA CallsMap ==
  ASSUME MemoryInv, [Next]_vars
  PROVE  [Contract!Next]_Contract!vars
<1>1. CASE UNCHANGED vars
  BY <1>1 DEF vars, Contract!vars, Memory
<1>2. CASE Next
  <2> PICK v \in Vectors :
        \/ \E x \in Values : PushBack(v, x)
        \/ ClearAll(v) \/ Destroy(v)
        \/ \E n \in 0 .. MaxLen + 1 : ReserveRoom(v, n)
        \/ \E n \in 0 .. MaxLen : Shrink(v, n) \/ Resize(v, n)
        \/ \E n \in 0 .. MaxLen, x \in Values : ResizeFill(v, n, x)
        \/ \E xs \in Lists : AssignList(v, xs)
        \/ \E u \in Vectors : AssignCopy(v, u) \/ AssignMove(v, u) \/ Swap(v, u)
    BY <1>2 DEF Next
  <2>0. 0 .. MaxLen \subseteq Nat /\ 0 .. MaxLen + 1 \subseteq Nat
    BY BoundAssumption
  <2>1. CASE \E x \in Values : PushBack(v, x)
    BY <2>1, PushBackMaps DEF Contract!Next
  <2>2. CASE ClearAll(v)
    <3>1. Contract!Clear(v)
      BY <2>2, ClearCall, BecomingContents DEF Contract!Clear
    <3> QED BY <3>1 DEF Contract!Next
  <2>3. CASE Destroy(v)
    <3>1. Contract!Destroy(v)
      BY <2>3, DestroyCall, BecomingContents DEF Contract!Destroy
    <3> QED BY <3>1 DEF Contract!Next
  <2>4. CASE \E n \in 0 .. MaxLen + 1 : ReserveRoom(v, n)
    BY <2>0, <2>4, ReserveMaps DEF Contract!Next
  <2>5. CASE \E n \in 0 .. MaxLen : Shrink(v, n) \/ Resize(v, n)
    BY <2>0, <2>5, ShrinkMaps, ResizeMaps DEF Contract!Next
  <2>6. CASE \E n \in 0 .. MaxLen, x \in Values : ResizeFill(v, n, x)
    BY <2>0, <2>6, ResizeFillMaps DEF Contract!Next
  <2>7. CASE \E xs \in Lists : AssignList(v, xs)
    BY <2>7, AssignMaps DEF Contract!Next
  <2>8. CASE \E u \in Vectors : AssignCopy(v, u) \/ AssignMove(v, u) \/ Swap(v, u)
    BY <2>8, CopyMaps, MoveMaps, SwapMaps DEF Contract!Next
  <2> QED BY <2>1, <2>2, <2>3, <2>4, <2>5, <2>6, <2>7, <2>8
<1> QED BY <1>1, <1>2

(* Every member function does to the elements what the contract says, with  *)
(* and without an exception, wherever the elements are stored               *)
(* (small_vector.h:205-310).                                                *)
THEOREM VectorsImplementContract == Spec => ImplementsContract
BY VectorsStartEmpty, CallsMap, MemoryIsGood, PTL
DEF Spec, ImplementsContract, Contract!Spec
=============================================================================
