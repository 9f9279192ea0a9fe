----------------------------- MODULE SmallVector -----------------------------
(***************************************************************************)
(* dxu::SmallVector<T, N> (include/dxu/small_vector.h): vectors that keep   *)
(* up to N elements inline and move to the heap when they grow.             *)
(*                                                                         *)
(* The state is the memory the code manages by hand: cells of raw storage   *)
(* in which elements are constructed and destroyed, heap blocks that are    *)
(* allocated and freed, and begin_, size_ and capacity_ of every vector.    *)
(* A member function is one action.  Constructing an element may throw; the *)
(* action then ends the way the code's handlers leave the memory.           *)
(*                                                                         *)
(* An operator that models a function takes the memory m it starts from and *)
(* gives [mem, ok], the memory it leaves and whether it returned.  Its      *)
(* parameter k is the number of constructions in it that succeed: when      *)
(* there are more to do the next one throws.                                *)
(***************************************************************************)
EXTENDS Integers, Sequences, FiniteSets

CONSTANTS
  Vectors,      \* the vectors, of one element type
  Tmp,          \* the local vector of swap()
  N,            \* N[v]: the inline capacity of vector v
  Heap,         \* the blocks the allocator can hand out
  Values,       \* the elements' values
  Zero,         \* the value of T()
  Raw,          \* a cell without an element
  Moved,        \* the value of an element that was moved from
  Types,        \* element types, described by what their operations do
  Lists,        \* what is assigned: initializer lists, ranges
  MaxLen        \* bound on sizes; room is reserved for one more

AllVectors == Vectors \cup {Tmp}
Blocks == AllVectors \cup Heap      \* v is also the inline storage of v
Cells == Values \cup {Raw, Moved}

ASSUME NamesAssumption ==
  /\ Tmp \notin Vectors /\ AllVectors \cap Heap = {}
  /\ Zero \in Values /\ Raw # Moved /\ Values \cap {Raw, Moved} = {}
ASSUME CapacityAssumption == N \in [AllVectors -> Nat \ {0}]
ASSUME HeapAssumption ==      \* the allocator does not run out of blocks
  /\ IsFiniteSet(Vectors) /\ IsFiniteSet(Heap)
  /\ Cardinality(Heap) > Cardinality(Vectors)
ASSUME TypesAssumption ==
  Types \subseteq [copyThrows : BOOLEAN, moveThrows : BOOLEAN, copyable : BOOLEAN]
ASSUME BoundAssumption == MaxLen \in Nat /\ Lists \subseteq Seq(Values)

VARIABLES
  type,     \* T, the element type of the vectors
  vec,      \* vec[v]: begin_ (the block it points to), size_ and capacity_
  cells,    \* cells[b]: the cells of block b, none when it is not allocated
  alive,    \* elements constructed so far less elements destroyed so far
  last      \* history: the latest call, and whether it returned

vars == <<type, vec, cells, alive, last>>

CopyThrows == type.copyThrows   \* constructing, other than by moving
MoveThrows == type.moveThrows   \* ~kNothrowMovable
Copyable == type.copyable

Memory == [vec |-> vec, cells |-> cells, alive |-> alive]
Returned(m) == [mem |-> m, ok |-> TRUE]
Threw(m) == [mem |-> m, ok |-> FALSE]

RawCells(n) == [i \in 1 .. n |-> Raw]

Init ==
  /\ type \in Types
  /\ vec = [v \in AllVectors |-> [begin |-> v, size |-> 0, capacity |-> N[v]]]
  /\ cells = [b \in Blocks |-> IF b \in AllVectors THEN RawCells(N[b]) ELSE <<>>]
  /\ alive = 0
  /\ last = [op |-> "none", ok |-> TRUE]

-----------------------------------------------------------------------------
(* Storage. *)

IsSmall(m, v) == m.vec[v].begin = v

Elements(m, v) == SubSeq(m.cells[m.vec[v].begin], 1, m.vec[v].size)

(* A block the allocator hands out next. *)
FreeBlock(m) == CHOOSE b \in Heap : m.cells[b] = <<>>

Alloc(m, b, n) == [m EXCEPT !.cells[b] = RawCells(n)]

Dealloc(m, b) == [m EXCEPT !.cells[b] = <<>>]

(* Elements xs are constructed in block b behind its first k cells. *)
Construct(m, b, k, xs) ==
  [m EXCEPT !.cells[b] = [i \in DOMAIN @ |-> IF i \in k + 1 .. k + Len(xs)
                                             THEN xs[i - k] ELSE @[i]],
            !.alive = @ + Len(xs)]

(* destroy_range(): n elements of block b behind its first k cells. *)
DestroyRange(m, b, k, n) ==
  [m EXCEPT !.cells[b] = [i \in DOMAIN @ |-> IF i \in k + 1 .. k + n
                                             THEN Raw ELSE @[i]],
            !.alive = @ - n]

(* The first n elements of block b are moved from. *)
MoveOut(m, b, n) ==
  [m EXCEPT !.cells[b] = [i \in DOMAIN @ |-> IF i <= n THEN Moved ELSE @[i]]]

Clear(m, v) ==
  LET d == DestroyRange(m, m.vec[v].begin, 0, m.vec[v].size)
  IN  [d EXCEPT !.vec[v].size = 0]

(* Faulty variant: the heap block is not freed. *)
ResetLeaking(m, v) ==
  LET c == Clear(m, v)
  IN  [c EXCEPT !.vec[v].begin = v, !.vec[v].capacity = N[v]]

Reset(m, v) ==
  LET c == Clear(m, v)
  IN  IF IsSmall(c, v) THEN c
      ELSE [Dealloc(c, c.vec[v].begin) EXCEPT !.vec[v].begin = v,
                                              !.vec[v].capacity = N[v]]

(* relocate_to_new_storage() *)
Relocate(m, v, b, n) ==
  LET d == IF IsSmall(m, v) THEN m ELSE Dealloc(m, m.vec[v].begin)
  IN  [d EXCEPT !.vec[v].begin = b, !.vec[v].capacity = n]

-----------------------------------------------------------------------------
(* Construction of several elements. *)

(* How many of n constructions may succeed. *)
Successes(n, throws) == IF throws THEN 0 .. n ELSE {n}

(* Growing copies the elements when moving them may throw and copying is    *)
(* possible (std::move_if_noexcept).                                        *)
GrowCopies == MoveThrows /\ Copyable
GrowThrows == IF GrowCopies THEN CopyThrows ELSE MoveThrows

(* Faulty variant: the new elements are not destroyed. *)
AbandonForgetful(m, b, k) == Dealloc(m, b)

(* Faulty variant: cells that were never filled are destroyed as well. *)
AbandonAll(m, b, k) == Dealloc(DestroyRange(m, b, 0, Len(m.cells[b])), b)

(* The exception handler of grow_to_capacity_by_move(). *)
Abandon(m, b, k) == Dealloc(DestroyRange(m, b, 0, k), b)

(* grow_to_capacity() *)
Grow(m, v, n, k) ==
  LET old   == m.vec[v].begin
      size  == m.vec[v].size
      new   == FreeBlock(m)
      built == Construct(Alloc(m, new, n), new, 0, SubSeq(Elements(m, v), 1, k))
      moved == IF GrowCopies THEN built ELSE MoveOut(built, old, k)
  IN  IF k < size
      THEN Threw(Abandon(moved, new, k))
      ELSE Returned(Relocate(DestroyRange(moved, old, 0, size), v, new, n))

Reserve(m, v, n, k) ==
  IF n > m.vec[v].capacity THEN Grow(m, v, n, k) ELSE Returned(m)

(* Elements xs are appended to v, size_ keeping pace; there is room. *)
Push(m, v, xs) ==
  LET c == Construct(m, m.vec[v].begin, m.vec[v].size, xs)
  IN  [c EXCEPT !.vec[v].size = @ + Len(xs)]

(* copy_into_uninitialized() and fill_into_uninitialized(): on an exception *)
(* the vector is reset.                                                     *)
CopyInto(m, v, xs, k) ==
  LET p == Push(m, v, SubSeq(xs, 1, k))
  IN  IF k < Len(xs) THEN Threw(Reset(p, v)) ELSE Returned(p)

(* clear(), reserve(), copy_into_uninitialized() *)
CopyAssign(m, v, xs, k) ==
  CopyInto(Reserve(Clear(m, v), v, Len(xs), 0).mem, v, xs, k)

(* Faulty variant: the source keeps its elements, moved from as they are. *)
MoveElementsKeeping(m, v, u, k) ==
  LET p == MoveOut(Push(m, v, SubSeq(Elements(m, u), 1, k)), u, k)
  IN  IF k < m.vec[u].size THEN Threw(Reset(p, v)) ELSE Returned(p)

(* move_into_uninitialized(): u is inline. *)
MoveElements(m, v, u, k) ==
  LET p == MoveOut(Push(m, v, SubSeq(Elements(m, u), 1, k)), u, k)
  IN  IF k < m.vec[u].size THEN Threw(Reset(p, v)) ELSE Returned(Clear(p, u))

(* Faulty variant: both vectors are left with the block. *)
StealSharing(m, v, u) == [m EXCEPT !.vec[v] = m.vec[u], !.vec[u].size = 0]

(* v takes over the heap block of u. *)
Steal(m, v, u) ==
  [m EXCEPT !.vec[v] = m.vec[u],
            !.vec[u] = [begin |-> u, size |-> 0, capacity |-> N[u]]]

(* move_from(): v is empty and inline. *)
MoveFrom(m, v, u, k) ==
  IF IsSmall(m, u)
  THEN MoveElements(Reserve(m, v, m.vec[u].size, 0).mem, v, u, k)
  ELSE Returned(Steal(m, v, u))

MoveAssign(m, v, u, k) ==
  IF v = u THEN Returned(m) ELSE MoveFrom(Reset(m, v), v, u, k)

-----------------------------------------------------------------------------
(* The member functions.  A constructor is a call of one of these on an     *)
(* empty vector, followed by Destroy if it throws; assign() from an input   *)
(* iterator is a ClearAll followed by PushBacks.                            *)

Call(op, r) ==
  /\ vec' = r.mem.vec
  /\ cells' = r.mem.cells
  /\ alive' = r.mem.alive
  /\ last' = [op |-> op, ok |-> r.ok]
  /\ UNCHANGED type

Moves(v) == Successes(vec[v].size, MoveThrows)

(* push_back() and emplace_back().  A push_back(T&&) constructs by moving.  *)
PushBack(v, x) ==
  \E j \in Successes(vec[v].size, GrowThrows),
     k \in Successes(1, CopyThrows \/ MoveThrows) :
    LET cap == vec[v].capacity
        r   == IF vec[v].size = cap THEN Grow(Memory, v, cap + cap \div 2 + 1, j)
               ELSE Returned(Memory)
    IN  /\ vec[v].size < MaxLen
        /\ Call("push_back", IF ~r.ok THEN r
                             ELSE IF k = 0 THEN Threw(r.mem)
                             ELSE Returned(Push(r.mem, v, <<x>>)))

ClearAll(v) == Call("clear", Returned(Clear(Memory, v)))

ReserveRoom(v, n) ==
  \E j \in Successes(vec[v].size, GrowThrows) :
    Call("reserve", Reserve(Memory, v, n, j))

(* Faulty variant: the first elements are destroyed, not the last. *)
ShrinkFront(v, n) ==
  LET d == DestroyRange(Memory, vec[v].begin, 0, vec[v].size - n)
  IN  /\ n < vec[v].size
      /\ Call("resize", Returned([d EXCEPT !.vec[v].size = n]))

(* resize() to a smaller size, with or without a value. *)
Shrink(v, n) ==
  LET d == DestroyRange(Memory, vec[v].begin, n, vec[v].size - n)
  IN  /\ n < vec[v].size
      /\ Call("resize", Returned([d EXCEPT !.vec[v].size = n]))

(* resize(new_size): what was constructed before an exception stays.        *)
Resize(v, n) ==
  /\ n >= vec[v].size
  /\ \E j \in Successes(vec[v].size, GrowThrows),
        k \in Successes(n - vec[v].size, CopyThrows) :
       LET r == Reserve(Memory, v, n, j)
           p == Push(r.mem, v, [i \in 1 .. k |-> Zero])
       IN  Call("resize", IF ~r.ok THEN r
                          ELSE IF vec[v].size + k < n THEN Threw(p)
                          ELSE Returned(p))

(* resize(new_size, value) *)
ResizeFill(v, n, x) ==
  /\ n >= vec[v].size
  /\ \E j \in Successes(vec[v].size, GrowThrows),
        k \in Successes(n - vec[v].size, CopyThrows) :
       LET r == Reserve(Memory, v, n, j)
       IN  Call("resize_fill",
                IF ~r.ok THEN r
                ELSE CopyInto(r.mem, v, [i \in 1 .. n - vec[v].size |-> x], k))

(* assign() from an initializer list, a forward range or count copies. *)
AssignList(v, xs) ==
  /\ Copyable
  /\ \E k \in Successes(Len(xs), CopyThrows) :
       Call("assign", CopyAssign(Memory, v, xs, k))

(* assign() and operator= from another vector. *)
AssignCopy(v, u) ==
  /\ Copyable
  /\ \E k \in Successes(vec[u].size, CopyThrows) :
       Call("copy", IF v = u THEN Returned(Memory)
                    ELSE CopyAssign(Memory, v, Elements(Memory, u), k))

AssignMove(v, u) ==
  \E k \in Moves(u) : Call("move", MoveAssign(Memory, v, u, k))

(* swap(), of vectors of one type.  An exception on the way destroys tmp. *)
Swap(v, u) ==
  /\ N[v] = N[u] /\ N[u] = N[Tmp]
  /\ \E i, k \in Moves(u), j \in Moves(v) :
       LET a == MoveFrom(Memory, Tmp, u, i)
           b == MoveAssign(a.mem, u, v, j)
           c == MoveAssign(b.mem, v, Tmp, k)
           end == IF ~a.ok THEN a ELSE IF ~b.ok THEN b ELSE c
       IN  Call("swap", IF v = u THEN Returned(Memory)
                        ELSE [end EXCEPT !.mem = Reset(end.mem, Tmp)])

(* The destructor; the storage is used for another vector of the type.      *)
Destroy(v) == Call("destroy", Returned(Reset(Memory, v)))

Next ==
  \E v \in Vectors :
    \/ \E x \in Values : PushBack(v, x)
    \/ ClearAll(v) \/ Destroy(v)
    \/ \E n \in 0 .. MaxLen + 1 : ReserveRoom(v, n)
    \/ \E n \in 0 .. MaxLen : Shrink(v, n) \/ Resize(v, n)
    \/ \E n \in 0 .. MaxLen, x \in Values : ResizeFill(v, n, x)
    \/ \E xs \in Lists : AssignList(v, xs)
    \/ \E u \in Vectors : AssignCopy(v, u) \/ AssignMove(v, u) \/ Swap(v, u)

Spec == Init /\ [][Next]_vars

-----------------------------------------------------------------------------
(* Properties. *)

TypeOK ==
  /\ type \in Types
  /\ vec \in [AllVectors -> [begin : Blocks, size : Nat, capacity : Nat]]
  /\ cells \in [Blocks -> Seq(Cells)]
  /\ alive \in Nat

(* Ownership of the storage: a vector's elements are in its own inline      *)
(* storage, with capacity N, or in a heap block of its capacity that no     *)
(* other vector uses; every other block has been freed                      *)
(* (small_vector.h:349-356, 366-376, 402-408).                              *)
Ownership ==
  /\ \A v \in AllVectors :
       /\ vec[v].begin \in Heap \cup {v}
       /\ vec[v].capacity = Len(cells[vec[v].begin])
       /\ Len(cells[v]) = N[v]
  /\ \A v, u \in AllVectors : vec[v].begin = vec[u].begin => v = u
  /\ \A b \in Heap : cells[b] # <<>> => \E v \in AllVectors : vec[v].begin = b

(* capacity_ "must >= N" (small_vector.h:542, 370-372). *)
CapacityAtLeastN == \A v \in Vectors : vec[v].capacity >= N[v]

(* The cells that hold elements. *)
LiveCells(c) == UNION {{b} \X {i \in DOMAIN c[b] : c[b][i] # Raw} : b \in Blocks}

(* Lifetimes of the elements: the first size_ cells of begin_ hold elements,*)
(* no other cell of any block does, and destructions balance constructions  *)
(* to the element, after an exception at any point as well.                 *)
Lifetimes ==
  /\ \A v \in AllVectors : vec[v].size <= vec[v].capacity
  /\ \A b \in Blocks : \A i \in DOMAIN cells[b] :
       cells[b][i] # Raw <=>
         \E v \in AllVectors : vec[v].begin = b /\ i <= vec[v].size
  /\ alive = Cardinality(LiveCells(cells))
=============================================================================
