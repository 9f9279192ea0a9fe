----------------------------- MODULE FormatCalls -----------------------------
(***************************************************************************)
(* Calls of the functions that write texts, whose results are read back by  *)
(* the rules of Numerals.tla.                                               *)
(***************************************************************************)
EXTENDS Formats, Conversion, Caller

CONSTANTS
  Sizes,      \* <<n, e>> for n * 1024 ^ e bytes
  Triples,    \* what WriteTripleDigit2() is called with
  Dates,      \* what localtime_r() makes of the times that are shown
  Vectors,    \* the vectors that are written as lists
  Strings     \* the byte strings that are quoted

Comma == 44
Blank == 32
Open == 91      \* '['
Close == 93     \* ']'

(* The texts are read as the parsers read them. *)
ASSUME AsciiAssumption ==
  Digit = [c \in 48 .. 57 |-> c - 48] /\ Minus = Hyphen /\ Blank \in Spaces

(* Sizes are at most 2^64 bytes, and no bytes are <<0, 0>>, ... *)
ASSUME SizesAssumption ==
  \A b \in Sizes :
    /\ b \in Nat \X (0 .. SizePB) /\ b[1] < 1073741824
    /\ b[2] > 0 => b[1] > 0
    /\ b[2] = 4 => b[1] <= 16777216
    /\ b[2] = 5 => b[1] <= 16384

(* ... times are those of years from 1900 on, vectors and strings any. *)
ASSUME FormatsAssumption ==
  /\ Triples \subseteq Nat \X Nat \X Nat
  /\ Dates \subseteq [year : Nat, mon : 0 .. 11, mday : 1 .. 31,
                      hour : 0 .. 23, min : 0 .. 59, sec : 0 .. 60]
  /\ Vectors \subseteq Seq(Int)
  /\ Strings \subseteq Seq(0 .. 255)

CallHumanReadableBytes ==
  /\ Fresh
  /\ \E b \in Sizes : Calls("bytes", b, HumanReadableBytes(b[1], b[2]))

CallWriteTripleDigit2 ==
  /\ Fresh
  /\ \E t \in Triples : Calls("triple", t, WriteTripleDigit2(t[1], t[2], t[3], TimeColon))

CallTimeToString ==
  /\ Fresh
  /\ \E t \in Dates : Calls("time", <<t>>, TimeToString(t))

CallVectorToString ==
  /\ Fresh
  /\ \E xs \in Vectors : Calls("list", <<xs>>,
               VectorToString(xs, <<Comma, Blank>>, <<Open>>, <<Close>>))

CallToDoubleQuotedString ==
  /\ Fresh
  /\ \E s \in Strings : Calls("quote", <<s>>, ToDoubleQuotedString(s))

FormatCall ==
  \/ CallHumanReadableBytes \/ CallWriteTripleDigit2 \/ CallTimeToString
  \/ CallVectorToString \/ CallToDoubleQuotedString

-----------------------------------------------------------------------------
(* The number a text of digits with at most one dot in it stands for, and   *)
(* its decimals.                                                            *)
Shown(text) ==
  LET parts == Reference!Parts(text, Dot)
  IN  [digits |-> FlattenSeq(parts),
       decimals |-> IF Len(parts) = 1 THEN 0 ELSE Len(parts[2])]

(* HumanReadableBytes() writes at most seven characters, and the Nul within *)
(* buf[8]; what it shows is the size in the largest unit of which there is  *)
(* one, or in PB, off by less than one in the last digit, with at least     *)
(* three digits when there are decimals to show (conversion.h:47, 261-285). *)
SizesShown ==
  call.name = "bytes" =>
    LET n == call.args[1]
        e == call.args[2]
        scale == Scale(out.unit - e)
        shown == Shown(Front(out.text))
        p == Ten[shown.decimals]
        exact == (n \div scale) * p + ((n % scale) * p) \div scale
    IN  IF out.unit = 0 THEN e = 0 /\ Reference!Numbers(out.text) = {n} /\ n < 1024
        ELSE /\ Len(out.text) <= 7 /\ out.nul = Len(out.text)
             /\ Last(out.text) = Units[out.unit]
             /\ n >= scale /\ (out.unit < SizePB => n \div 1024 < scale)
             /\ Reference!Numbers(shown.digits) \subseteq {exact, exact + 1}
             /\ Len(shown.digits) >= 3

(* Each of the numbers of a time is where "YYYY/mm/dd HH:MM:SS" has it, with *)
(* all its digits, whatever the others are; only the last two digits of     *)
(* larger numbers and the last four of the year are shown (chrono.h:33,     *)
(* 94-107, 158-177).  What parts the day from the hour is left to           *)
(* TimeLaidOut.                                                             *)
TimesShown ==
  LET number(first, last) == Reference!Numbers(SubSeq(out, first, last))
  IN  /\ call.name = "triple" =>
           /\ \A i \in 1 .. 3 : number(3 * i - 2, 3 * i - 1) = {call.args[i] % 100}
           /\ Len(out) = 8 /\ out[3] = TimeColon /\ out[6] = TimeColon
      /\ call.name = "time" =>
           LET t == call.args[1]
           IN  /\ number(1, 4) = {(t.year + 1900) % 10000}
               /\ number(6, 7) = {t.mon + 1} /\ number(9, 10) = {t.mday}
               /\ number(12, 13) = {t.hour} /\ number(15, 16) = {t.min}
               /\ number(18, 19) = {t.sec}
               /\ Len(out) = 19 /\ out[5] = Slash /\ out[8] = Slash
               /\ out[14] = TimeColon /\ out[17] = TimeColon

(* A time is laid out as "YYYY/mm/dd HH:MM:SS" (chrono.h:33, 162).          *)
TimeLaidOut ==
  call.name = "time" =>
    \A i \in DOMAIN out :
      out[i] \notin 48 .. 57 => out[i] = CASE i \in {5, 8} -> Slash
                                       [] i = 11 -> Blank
                                       [] i \in {14, 17} -> TimeColon

(* A list that was written, in its default form, is read back as the vector *)
(* (conversion.h:90-130).                                                   *)
ListsReadBack ==
  call.name = "list" =>
    LET inside == SubSeq(out, 2, Len(out) - 1)
        parts == Reference!Parts(inside, Comma)
    IN  /\ out[1] = Open /\ Last(out) = Close
        /\ IF call.args[1] = <<>> THEN inside = <<>>
           ELSE /\ Len(parts) = Len(call.args[1])
                /\ \A k \in DOMAIN parts : Reference!Numbers(parts[k]) = {call.args[1][k]}

QuotedStrings == [s \in Strings |-> ToDoubleQuotedString(s)]

(* Whether what stands at i is escaped: by an odd number of backslashes.    *)
Escaped(text, i) ==
  Max({n \in 0 .. i - 1 : \A k \in 1 .. n : text[i - k] = Backslash}) % 2 = 1

(* A quoted string consists of printable characters, ends at its first      *)
(* quote that is not escaped, and no other string is quoted in the same way *)
(* (format.h:70-120).                                                       *)
EscapesReadBack ==
  call.name = "quote" =>
    /\ ToSet(out) \subseteq 32 .. 126
    /\ {i \in 2 .. Len(out) : out[i] = Quote /\ ~Escaped(out, i)} = {Len(out)}
    /\ {s \in Strings : QuotedStrings[s] = out} = {call.args[1]}
=============================================================================
