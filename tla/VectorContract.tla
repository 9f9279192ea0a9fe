---------------------------- MODULE VectorContract ----------------------------
(***************************************************************************)
(* What dxu::SmallVector promises its callers: vectors are sequences, and   *)
(* what an exception of the element type leaves of them.  There is no       *)
(* storage here; SmallVector.tla is shown to implement this module.         *)
(***************************************************************************)
EXTENDS Integers, Sequences

CONSTANTS
  Vectors,      \* the vectors
  Values,       \* the elements' values
  Zero,         \* the value of T()
  Moved,        \* the value of an element that was moved from
  Types,        \* element types, described by what their operations do
  Lists,        \* what is assigned: initializer lists, ranges
  MaxLen        \* bound on sizes

VARIABLES
  type,         \* the element type of the vectors
  contents,     \* contents[v]: the elements of vector v
  last          \* the latest call, and whether it returned

vars == <<type, contents, last>>

CopyThrows == type.copyThrows   \* constructing, other than by moving
MoveThrows == type.moveThrows
Copyable == type.copyable

Init ==
  /\ type \in Types
  /\ contents = [v \in Vectors |-> <<>>]
  /\ last = [op |-> "none", ok |-> TRUE]

Ends(op, ok) == last' = [op |-> op, ok |-> ok] /\ UNCHANGED type

Set(v, s) == contents' = [contents EXCEPT ![v] = s]

(* The first k elements of s have been moved from. *)
MovedPrefix(s, k) == [i \in DOMAIN s |-> IF i <= k THEN Moved ELSE s[i]]

(* Growing throws: nothing has changed, unless the elements can only be     *)
(* moved and moving them throws.                                            *)
GrowthFails(v) ==
  \/ MoveThrows /\ Copyable /\ CopyThrows /\ UNCHANGED contents
  \/ /\ MoveThrows /\ ~Copyable
     /\ \E k \in 0 .. Len(contents[v]) - 1 : Set(v, MovedPrefix(contents[v], k))

PushBack(v, x) ==
  \/ Ends("push_back", TRUE) /\ Set(v, Append(contents[v], x))
  \/ Ends("push_back", FALSE) /\ GrowthFails(v)
  \/ /\ CopyThrows \/ MoveThrows
     /\ Ends("push_back", FALSE)
     /\ UNCHANGED contents

Clear(v) == Ends("clear", TRUE) /\ Set(v, <<>>)

Reserve(v) ==
  \/ Ends("reserve", TRUE) /\ UNCHANGED contents
  \/ Ends("reserve", FALSE) /\ GrowthFails(v)

Resized(v, n, x) ==
  IF n < Len(contents[v]) THEN SubSeq(contents[v], 1, n)
  ELSE contents[v] \o [i \in 1 .. n - Len(contents[v]) |-> x]

(* An exception leaves the elements there were and some of the new ones. *)
Resize(v, n) ==
  \/ Ends("resize", TRUE) /\ Set(v, Resized(v, n, Zero))
  \/ Ends("resize", FALSE) /\ GrowthFails(v)
  \/ /\ CopyThrows
     /\ Ends("resize", FALSE)
     /\ \E k \in Len(contents[v]) .. n - 1 : Set(v, Resized(v, k, Zero))

(* An exception while filling leaves nothing. *)
ResizeFill(v, n, x) ==
  /\ n >= Len(contents[v])
  /\ \/ Ends("resize_fill", TRUE) /\ Set(v, Resized(v, n, x))
     \/ Ends("resize_fill", FALSE) /\ GrowthFails(v)
     \/ CopyThrows /\ Ends("resize_fill", FALSE) /\ Set(v, <<>>)

Assign(v, xs) ==
  \/ Ends("assign", TRUE) /\ Set(v, xs)
  \/ CopyThrows /\ Ends("assign", FALSE) /\ Set(v, <<>>)

Copy(v, u) ==
  \/ Ends("copy", TRUE) /\ Set(v, contents[u])
  \/ v # u /\ CopyThrows /\ Ends("copy", FALSE) /\ Set(v, <<>>)

(* A source that was moved from is empty; one that could not be moved from  *)
(* keeps its size.                                                          *)
Move(v, u) ==
  \/ /\ Ends("move", TRUE)
     /\ contents' = IF v = u THEN contents
                    ELSE [contents EXCEPT ![v] = contents[u], ![u] = <<>>]
  \/ /\ v # u /\ MoveThrows
     /\ Ends("move", FALSE)
     /\ \E k \in 0 .. Len(contents[u]) - 1 :
          contents' = [contents EXCEPT ![v] = <<>>,
                                       ![u] = MovedPrefix(contents[u], k)]

(* Swapping elements whose moves throw may lose those of v or of u.         *)
Swap(v, u) ==
  \/ /\ Ends("swap", TRUE)
     /\ contents' = [contents EXCEPT ![v] = contents[u], ![u] = contents[v]]
  \/ /\ v # u /\ MoveThrows
     /\ Ends("swap", FALSE)
     /\ \/ \E k \in 0 .. Len(contents[u]) - 1 :
             Set(u, MovedPrefix(contents[u], k))
        \/ \E k \in 0 .. Len(contents[v]) - 1 :
             contents' = [contents EXCEPT ![v] = MovedPrefix(contents[v], k),
                                          ![u] = <<>>]
        \/ contents' = [contents EXCEPT ![v] = <<>>, ![u] = contents[v]]

Destroy(v) == Ends("destroy", TRUE) /\ Set(v, <<>>)

Next ==
  \E v \in Vectors :
    \/ \E x \in Values : PushBack(v, x)
    \/ Clear(v) \/ Reserve(v) \/ Destroy(v)
    \/ \E n \in 0 .. MaxLen : Resize(v, n)
    \/ \E n \in 0 .. MaxLen, x \in Values : ResizeFill(v, n, x)
    \/ \E xs \in Lists : Assign(v, xs)
    \/ \E u \in Vectors : Copy(v, u) \/ Move(v, u) \/ Swap(v, u)

Spec == Init /\ [][Next]_vars
=============================================================================
