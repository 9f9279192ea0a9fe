-------------------------------- MODULE Slice --------------------------------
(***************************************************************************)
(* dxu::Slice (include/dxu/slice.h): searching, comparing and cutting.  A   *)
(* slice is the sequence of characters it refers to, or Invalid; positions  *)
(* count from 0, as in the code, and NPos is behind all of them.  Searches  *)
(* begin at positions for which the additions in the code do not overflow.  *)
(***************************************************************************)
EXTENDS Integers, SequencesExt

CONSTANTS
  Spaces,     \* the characters std::isspace() accepts
  Invalid     \* the slice that refers to nullptr

NPos == -1

Valid(s) == s # Invalid

(* An invalid slice has size 0. *)
Chars(s) == IF Valid(s) THEN s ELSE <<>>

-----------------------------------------------------------------------------
(* Searching.  An invalid slice is neither searched nor searched for. *)

(* find(c, pos) *)
Find(s, c, pos) ==
  SelectInSubSeq(Chars(s), pos + 1, Len(Chars(s)), LAMBDA x : x = c) - 1

(* rfind(c, pos): the search begins at pos, or at the end, and goes back.   *)
RFind(s, c, pos) ==
  LET from == Min({pos + 1, Len(Chars(s))})
  IN  SelectLastInSubSeq(Chars(s), 1, from, LAMBDA x : x = c) - 1

(* Faulty variant: the last place where t fits is not tried. *)
FindSliceShort(s, t, pos) ==
  LET hits == {i \in pos .. Len(Chars(s)) - Len(Chars(t)) - 1 :
                 SubSeq(s, i + 1, i + Len(t)) = t}
  IN  IF ~Valid(s) \/ ~Valid(t) THEN NPos
      ELSE IF t = <<>> THEN 0
      ELSE IF hits = {} THEN NPos ELSE Min(hits)

(* find(t, pos): an empty slice is found at 0, wherever the search begins.  *)
FindSlice(s, t, pos) ==
  LET hits == {i \in pos .. Len(Chars(s)) - Len(Chars(t)) :
                 SubSeq(s, i + 1, i + Len(t)) = t}
  IN  IF ~Valid(s) \/ ~Valid(t) THEN NPos
      ELSE IF t = <<>> THEN 0
      ELSE IF hits = {} THEN NPos ELSE Min(hits)

(* contains(c) *)
Has(t, c) == Find(t, c, 0) # NPos

(* find_first_of(t), find_last_of(t) *)
FindFirstOf(s, t) == SelectInSeq(Chars(s), LAMBDA c : Has(t, c)) - 1
FindLastOf(s, t) == SelectLastInSeq(Chars(s), LAMBDA c : Has(t, c)) - 1

(* find_first_not_of(t), find_last_not_of(t) *)
FindFirstNotOf(s, t) ==
  IF Valid(t) THEN SelectInSeq(Chars(s), LAMBDA c : ~Has(t, c)) - 1 ELSE NPos
FindLastNotOf(s, t) ==
  IF Valid(t) THEN SelectLastInSeq(Chars(s), LAMBDA c : ~Has(t, c)) - 1 ELSE NPos

-----------------------------------------------------------------------------
(* Comparing, character by character as unsigned bytes. *)

Equals(s, t) == Chars(s) = Chars(t)
StartsWith(s, t) == IsPrefix(Chars(t), Chars(s))
EndsWith(s, t) == IsSuffix(Chars(t), Chars(s))

DifferenceOffset(s, t) ==
  LET len == Min({Len(s), Len(t)})
  IN  Min({len} \cup {i \in 0 .. len - 1 : s[i + 1] # t[i + 1]})

Sign(n) == IF n < 0 THEN -1 ELSE IF n > 0 THEN 1 ELSE 0

(* Faulty variant: of a slice and its beginning neither is the greater. *)
CompareCommon(s, t) ==
  LET off == DifferenceOffset(s, t)
  IN  IF off < Min({Len(s), Len(t)}) THEN Sign(s[off + 1] - t[off + 1]) ELSE 0

(* compare(t): memcmp() of the common length, then the lengths. *)
Compare(s, t) ==
  LET off == DifferenceOffset(s, t)
  IN  IF off < Min({Len(s), Len(t)}) THEN Sign(s[off + 1] - t[off + 1])
      ELSE Sign(Len(s) - Len(t))

-----------------------------------------------------------------------------
(* Cutting.  A cut of an invalid slice is invalid. *)

(* substr(0, n) *)
Before(s, n) == SubSeq(s, 1, n)

(* substr(n) and remove_prefix(n) *)
From(s, n) == SubSeq(s, n + 1, Len(s))

(* substr(pos, len) *)
Substr(s, pos, len) ==
  IF ~Valid(s) THEN s
  ELSE IF pos = NPos \/ pos >= Len(s) THEN <<>>
  ELSE IF len >= Len(s) - pos THEN From(s, pos)
  ELSE Before(From(s, pos), len)

(* remove_prefix_s(n), remove_suffix_s(n) *)
RemovePrefixS(s, n) == IF Valid(s) THEN From(s, n) ELSE s
RemoveSuffixS(s, n) == IF Valid(s) THEN Before(s, Len(s) - n) ELSE s

(* strip_start(t), strip_end(t), strip(t) *)
StripStart(s, t) == Substr(s, FindFirstNotOf(s, t), Len(Chars(s)))

(* Faulty variant: the last character that stays is cut off as well. *)
StripEndShort(s, t) ==
  IF Valid(s) THEN Before(s, FindLastNotOf(s, t)) ELSE s

StripEnd(s, t) ==
  IF Valid(s) THEN Before(s, FindLastNotOf(s, t) + 1) ELSE s

Strip(s, t) == StripEnd(StripStart(s, t), t)

(* How many characters of S the slice s starts with. *)
Leading(s, S) == Max({n \in 0 .. Len(s) : \A i \in 1 .. n : s[i] \in S})

TrimStart(s) == IF Valid(s) THEN From(s, Leading(s, Spaces)) ELSE s

TrimEnd(s) ==
  IF Valid(s) THEN Before(s, SelectLastInSeq(s, LAMBDA c : c \notin Spaces)) ELSE s

Trim(s) == TrimEnd(TrimStart(s))
=============================================================================
