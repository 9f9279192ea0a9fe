----------------------------- MODULE VectorParser -----------------------------
(***************************************************************************)
(* StringToVectorInt() (include/dxu/conversion.h:287-395): lists such as    *)
(* "1*3, 8, 2--1".  The loop over the parts of the text is the next-state   *)
(* relation; what the loop carries around is the state.                     *)
(***************************************************************************)
EXTENDS Conversion

CONSTANTS
  Texts,        \* the texts that are parsed, Invalid among them
  Options,      \* the separator and the marks callers choose: opts
  Blanks        \* kBlanks: the separators of which several are as good as one

(* All characters of the texts. *)
Alphabet == UNION {ToSet(t) : t \in Texts \ {Invalid}}

ASSUME TextsAssumption ==
  /\ Texts \subseteq Seq(Alphabet) \cup {Invalid}
  /\ Invalid \notin Seq(Alphabet) /\ Nul \notin Alphabet

(* What marks a repetition or a range is nothing that is in a number, but   *)
(* for the default mark of a range.                                         *)
ASSUME OptionsAssumption ==
  \A o \in Options : /\ o.repeat \notin Spaces \cup DOMAIN Digit \cup {Minus, Plus}
                     /\ o.range \notin Spaces \cup DOMAIN Digit \cup {Plus}

VARIABLES
  text, opts,   \* the arguments
  rest,         \* what the splitter has not handed out yet
  result,       \* the elements so far
  err,          \* the error code
  at,           \* "start", "loop" or "done"
  rounds        \* history: how often the loop has gone around

vars == <<text, opts, rest, result, err, at, rounds>>

Init ==
  /\ text \in Texts
  /\ opts \in Options
  /\ rest = <<>> /\ result = <<>> /\ err = "ok" /\ at = "start"
  /\ rounds = 0

(* The function returns what it has. *)
Return(code) ==
  /\ at' = "done"
  /\ err' = code
  /\ UNCHANGED <<text, opts, rest, result, rounds>>

ConfusingMarks ==
  opts.range = opts.repeat \/ opts.sep = opts.repeat \/ opts.range = opts.sep

StartNothing ==
  /\ at = "start"
  /\ \/ ~Valid(text) /\ Return("EADDRNOTAVAIL")
     \/ Valid(text) /\ ConfusingMarks /\ Return("EINVAL")
     \/ Valid(text) /\ ~ConfusingMarks /\ Trim(text) = <<>> /\ Return("ok")

(* One trailing separator is removed. *)
DropLastSep(s) == IF opts.sep \notin Blanks /\ Last(s) = opts.sep THEN Front(s) ELSE s

StartLoop ==
  /\ at = "start"
  /\ Valid(text) /\ ~ConfusingMarks /\ Trim(text) # <<>>
  /\ at' = "loop"
  /\ rest' = DropLastSep(Trim(text))
  /\ UNCHANGED <<text, opts, result, err, rounds>>

-----------------------------------------------------------------------------
(* SliceSplitter::Next(): the part before the next separator. *)

Cut == Find(rest, opts.sep, 0)
Part == IF Cut = NPos THEN rest ELSE Before(rest, Cut)
AfterPart == IF Cut = NPos THEN <<>> ELSE From(rest, Cut + 1)

(* Where the range mark is: a '-' in front is a sign. *)
RangeAt(s) ==
  LET first == Find(s, opts.range, 0)
  IN  IF opts.range = Minus /\ first = 0 THEN Find(s, opts.range, 1) ELSE first

(* The numbers on the two sides of a mark; the right one is parsed first.   *)
Left(s, pos) == Eat32(TrimEnd(Before(s, pos)))
Right(s, pos) == Eat32(TrimStart(From(s, pos + 1)))

Bad(code) == [err |-> code, items |-> <<>>]
Good(items) == [err |-> "ok", items |-> items]

(* Faulty variant: a count of zero is accepted. *)
RepeatedLax(num, count) ==
  IF count.err # "ok" THEN Bad(count.err)
  ELSE IF num.err # "ok" THEN Bad(num.err)
  ELSE Good([i \in 1 .. count.num |-> num.num])

Repeated(num, count) ==
  IF count.err # "ok" THEN Bad(count.err)
  ELSE IF count.num <= 0 THEN Bad("EINVAL")
  ELSE IF num.err # "ok" THEN Bad(num.err)
  ELSE Good([i \in 1 .. count.num |-> num.num])

(* Faulty variant: the end is not included. *)
RangedShort(num, end) ==
  IF end.err # "ok" THEN Bad(end.err)
  ELSE IF num.err # "ok" THEN Bad(num.err)
  ELSE LET step == IF num.num < end.num THEN 1 ELSE -1
       IN  Good([i \in 1 .. (end.num - num.num) * step |-> num.num + (i - 1) * step])

(* The loop of a range: from num to the number past end, in steps of 1.     *)
Ranged(num, end) ==
  IF end.err # "ok" THEN Bad(end.err)
  ELSE IF num.err # "ok" THEN Bad(num.err)
  ELSE LET step == IF num.num < end.num THEN 1 ELSE -1
           past == end.num + step
       IN  IF num.num = end.num THEN Good(<<num.num>>)
           ELSE Good([i \in 1 .. (past - num.num) * step |->
                        num.num + (i - 1) * step])

Single(num) == IF num.err # "ok" THEN Bad(num.err) ELSE Good(<<num.num>>)

(* What a part that is not empty gives. *)
Element(part) ==
  LET s == Trim(part)
      star == Find(s, opts.repeat, 0)
      dash == RangeAt(s)
  IN  CASE s = <<>> \/ (star # NPos /\ dash # NPos) -> Bad("EILSEQ")
        [] star # NPos /\ dash = NPos -> Repeated(Left(s, star), Right(s, star))
        [] star = NPos /\ dash # NPos -> Ranged(Left(s, dash), Right(s, dash))
        [] OTHER -> Single(Eat32(s))

-----------------------------------------------------------------------------
(* Faulty variant: only further blanks are skipped, not the separator.      *)
SkipBlanksOnly ==
  /\ at = "loop" /\ rest # <<>> /\ Part = <<>> /\ opts.sep \in Blanks
  /\ rest' = From(rest, Leading(AfterPart, {opts.sep}))
  /\ rounds' = rounds + 1
  /\ UNCHANGED <<text, opts, result, err, at>>

(* An empty part between blank separators: it is skipped with the blanks    *)
(* after it.                                                                *)
SkipBlanks ==
  /\ at = "loop" /\ rest # <<>> /\ Part = <<>> /\ opts.sep \in Blanks
  /\ rest' = From(AfterPart, Leading(AfterPart, {opts.sep}))
  /\ rounds' = rounds + 1
  /\ UNCHANGED <<text, opts, result, err, at>>

EmptyPart ==
  /\ at = "loop" /\ rest # <<>> /\ Part = <<>> /\ opts.sep \notin Blanks
  /\ Return("EILSEQ")

BadPart ==
  /\ at = "loop" /\ Part # <<>>
  /\ Element(Part).err # "ok"
  /\ Return(Element(Part).err)

GoodPart ==
  /\ at = "loop" /\ Part # <<>>
  /\ Element(Part).err = "ok"
  /\ result' = result \o Element(Part).items
  /\ rest' = AfterPart
  /\ rounds' = rounds + 1
  /\ UNCHANGED <<text, opts, err, at>>

Finish == at = "loop" /\ rest = <<>> /\ Return("ok")

Next ==
  StartNothing \/ StartLoop \/ SkipBlanks \/ EmptyPart \/ BadPart \/ GoodPart
    \/ Finish

Spec == Init /\ [][Next]_vars

-----------------------------------------------------------------------------
Readable ==
  Valid(text) /\ Cardinality({opts.sep, opts.repeat, opts.range}) = 3

(* The parts that stand for something, as the reference reads the text: of  *)
(* blank separators several in a row, or at the ends, count as one.         *)
Listed ==
  LET parts == Reference!Parts(Reference!Core(text), opts.sep)
  IN  IF opts.sep \in Blanks THEN Reference!NotEmpty(parts) ELSE parts

(* Two numbers around a mark, when long can hold them. *)
HeldPairs(part, mark) ==
  {p \in Reference!PairsAround(part, mark) : Fits(p[1], LongLimit) /\ Fits(p[2], LongLimit)}

(* What a part stands for: "1", "1*3", "0-9", of numbers that lose their    *)
(* high bits in an int32_t.  Where '-' marks a range a count has no sign.   *)
MeaningsOf(part) ==
  LET low(n) == Narrow(n, IntLimit)
      counts == {n \in Int : low(n) > 0 /\ (opts.range = Minus => n > 0)}
  IN  {<<low(n)>> : n \in {m \in Reference!Numbers(part) : Fits(m, LongLimit)}}
        \cup {[i \in 1 .. low(p[2]) |-> low(p[1])] :
                p \in {q \in HeldPairs(part, opts.repeat) : q[2] \in counts}}
        \cup {Reference!Interval(low(p[1]), low(p[2])) : p \in HeldPairs(part, opts.range)}

(* How many of them, from the first on, make sense. *)
Sound ==
  Max({n \in 0 .. Len(Listed) : \A k \in 1 .. n : MeaningsOf(Listed[k]) # {}})

(* The elements the sound parts stand for, one after the other. *)
Meant ==
  FlattenSeq([k \in 1 .. Sound |-> CHOOSE xs \in MeaningsOf(Listed[k]) : TRUE])

(* "Returns partial result if error" (conversion.h:71): what is returned    *)
(* are the elements of all parts up to the first that makes no sense, no    *)
(* more and no fewer, whether or not there is an error (296-385).           *)
ReturnsWhatIsMeant ==
  at = "done" => result = IF Readable THEN Meant ELSE <<>>

(* A text is accepted exactly when all its parts make sense, with up to     *)
(* two separators behind them: the one that is removed first and the one    *)
(* the splitter does not look behind (conversion.h:191, 308).               *)
AcceptsLists ==
  at = "done" =>
    (err = "ok" <=>
       /\ Readable
       /\ LET over == SubSeq(Listed, Sound + 1, Len(Listed))
          IN  Len(over) <= 2 /\ \A k \in DOMAIN over : over[k] = <<>>)

(* The loop ends, whatever the text and the options: every round takes at   *)
(* least one character off the text (conversion.h:313-385).                 *)
RoundsBounded == Valid(text) => rounds + Len(rest) <= Len(text)
=============================================================================
