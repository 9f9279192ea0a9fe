------------------------------ MODULE SliceCalls ------------------------------
(***************************************************************************)
(* Calls of the searching, comparing and cutting functions of Slice, each   *)
(* against the others: what one of them answers fixes what others have to   *)
(* answer for the same slices.                                              *)
(***************************************************************************)
EXTENDS Slice, Caller

CONSTANTS
  Slices,     \* the slices that are searched and cut, Invalid among them
  Targets,    \* the slices that are searched for, Invalid among them
  Positions   \* where searches begin and cuts are made

ASSUME SlicesAssumption ==
  /\ Slices \subseteq Seq(Int) \cup {Invalid}
  /\ Targets \subseteq Seq(Int) \cup {Invalid}
  /\ Positions \subseteq Nat
  /\ Spaces \subseteq Int /\ IsFiniteSet(Spaces)
  /\ Invalid \notin Seq(Int)

CallFind ==
  /\ Fresh
  /\ \E s \in Slices, t \in Targets, pos \in Positions :
       Calls("find", <<s, t, pos>>, FindSlice(s, t, pos))

CallFindChar ==
  /\ Fresh
  /\ \E s \in Slices, t \in Targets, pos \in Positions :
       /\ Len(Chars(t)) = 1
       /\ \/ Calls("find_char", <<s, t, pos>>, Find(s, t[1], pos))
          \/ Calls("rfind_char", <<s, t, pos>>, RFind(s, t[1], pos))

CallFindAny ==
  /\ Fresh
  /\ \E s \in Slices, t \in Targets :
       Calls("find_any", <<s, t, 0>>,
             [first |-> FindFirstOf(s, t), last |-> FindLastOf(s, t),
              firstNot |-> FindFirstNotOf(s, t), lastNot |-> FindLastNotOf(s, t)])

CallCompare ==
  /\ Fresh
  /\ \E s, t \in Slices : Valid(s) /\ Valid(t) /\ Calls("compare", <<s, t>>, Compare(s, t))

CallStrip ==
  /\ Fresh
  /\ \E s \in Slices, t \in Targets :
       Calls("strip", <<s, t>>, [start |-> StripStart(s, t), end |-> StripEnd(s, t),
                                 both |-> Strip(s, t), trimmed |-> Trim(s)])

CallCut ==
  /\ Fresh
  /\ \E s \in Slices, pos, len \in Positions :
       Calls("cut", <<s, pos, len>>,
             [front |-> Substr(s, 0, pos), middle |-> Substr(s, pos, len),
              rest |-> RemovePrefixS(s, pos), shorter |-> RemoveSuffixS(s, pos)])

SliceCall ==
  CallFind \/ CallFindChar \/ CallFindAny \/ CallCompare \/ CallStrip \/ CallCut

-----------------------------------------------------------------------------
Subject == call.args[1]
Target == call.args[2]

(* What is at pos begins with t, as starts_with() sees it. *)
At(pos, t) == StartsWith(Substr(Subject, pos, Len(Chars(Subject))), t)

(* Of the positions hits, the first or NPos; the last or NPos. *)
FirstOf(hits) == IF hits = {} THEN NPos ELSE Min(hits)
LastOf(hits) == IF hits = {} THEN NPos ELSE Max(hits)

(* find() answers the first place from pos on at which starts_with() holds, *)
(* and find() and rfind() of a character are find() of one as a slice; the  *)
(* find_*_of() functions find what the searches for the single characters   *)
(* find first and last, and find_*_not_of() the characters that are not     *)
(* found in the target (slice.h:159-238, 338-349).  An empty slice is found *)
(* at the start, and an invalid one neither finds nor is found.  Searches   *)
(* for an empty slice from further on are left to FindsLikeStrings.         *)
SearchesFind ==
  LET places == 0 .. Len(Chars(Subject)) - 1
      usable == Valid(Subject) /\ Valid(Target)
      singles == {<<c>> : c \in ToSet(Chars(Target))}
      misses == {i \in places : FindSlice(Target, <<Subject[i + 1]>>, 0) = NPos}
  IN  /\ call.name = "find" /\ usable /\ Target # <<>> =>
           out = FirstOf({i \in places : i >= call.args[3] /\ At(i, Target)})
      /\ call.name = "find" /\ usable /\ Target = <<>> /\ call.args[3] = 0 => out = 0
      /\ call.name = "find" /\ ~usable => out = NPos
      /\ call.name = "find_char" => out = FindSlice(Subject, Target, call.args[3])
      /\ call.name = "rfind_char" =>
           out = LastOf({i \in places : /\ i <= call.args[3]
                                        /\ FindSlice(Subject, Target, i) = i})
      /\ call.name = "find_any" =>
           /\ out.first = FirstOf({FindSlice(Subject, t, 0) : t \in singles} \ {NPos})
           /\ out.last = LastOf({RFind(Subject, t[1], Len(Chars(Subject))) : t \in singles})
           /\ out.firstNot = IF usable THEN FirstOf(misses) ELSE NPos
           /\ out.lastNot = IF usable THEN LastOf(misses) ELSE NPos

(* find() answers what std::string does: the first position from pos on at  *)
(* which the target stands, be it empty, or npos.  "try best to fit         *)
(* std::string behavior in corner cases" (test/slice_search_test.cc:13;     *)
(* slice.h:340-351).                                                        *)
FindsLikeStrings ==
  call.name = "find" /\ Valid(Subject) /\ Valid(Target) =>
    LET last == Len(Subject) - Len(Target)
    IN  out = FirstOf({i \in call.args[3] .. last :
                         SubSeq(Subject, i + 1, i + Len(Target)) = Target})

(* compare() is an order in which a slice comes after its beginnings: 0     *)
(* exactly for equal slices, mirrored when the arguments are swapped, and   *)
(* never in a circle; where neither starts with the other it is decided by  *)
(* the bytes at difference_offset() (slice.h:122-148, 310-336).             *)
ComparisonsAgree ==
  call.name = "compare" =>
    LET off == DifferenceOffset(Subject, Target)
    IN  /\ out = 0 <=> Equals(Subject, Target)
        /\ Compare(Target, Subject) = -out
        /\ \A r \in Slices : Valid(r) /\ Compare(Target, r) = out => Compare(Subject, r) = out
        /\ StartsWith(Subject, Target) => out >= 0
        /\ StartsWith(Subject, Target) \/ StartsWith(Target, Subject)
             <=> off = Min({Len(Subject), Len(Target)})
        /\ off < Min({Len(Subject), Len(Target)}) =>
             (out < 0 <=> Subject[off + 1] < Target[off + 1])
        /\ EndsWith(Subject, Target) <=> StartsWith(Reverse(Subject), Reverse(Target))

(* strip() and trim() take only target characters from the two ends, and    *)
(* all of them; what substr(), remove_prefix_s() and remove_suffix_s() take *)
(* and leave makes up the slice, at any position; a cut of an invalid slice *)
(* is invalid (slice.h:85-107, 240-256, 401-419).                           *)
CutsAgree ==
  LET white == SetToSeq(Spaces)
      ends(s) == IF s = <<>> THEN {} ELSE {s[1], s[Len(s)]}
      cut(part, t) ==
        LET gone == ToSet(Chars(t))
        IN  /\ ends(part) \cap gone = {}
            /\ \E m, n \in 0 .. Len(Subject) :
                 /\ part = SubSeq(Subject, m + 1, Len(Subject) - n)
                 /\ ToSet(Before(Subject, m)) \cup ToSet(From(Subject, Len(Subject) - n))
                      \subseteq gone
  IN  /\ call.name = "strip" /\ Valid(Subject) =>
           /\ Valid(Target) => cut(out.both, Target)
           /\ ~Valid(Target) => out.both = <<>>
           /\ cut(out.trimmed, white)
           /\ Valid(Target) => out.both = StripStart(out.end, Target)
      /\ call.name = "cut" /\ Valid(Subject) =>
           LET pos == call.args[2]
           IN  /\ out.front \o out.rest = Subject
               /\ pos <= Len(Subject) =>
                    out.shorter \o Substr(Subject, Len(Subject) - pos, pos) = Subject
               /\ IsPrefix(out.middle, out.rest)
               /\ Len(out.middle) = Min({call.args[3], Len(out.rest)})
      /\ call.name \in {"strip", "cut"} /\ ~Valid(Subject) => Range(out) = {Invalid}
=============================================================================
