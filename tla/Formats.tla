------------------------------- MODULE Formats -------------------------------
(***************************************************************************)
(* The functions that write texts: HumanReadableBytes(), VectorToString()   *)
(* and CArrayToString() (include/dxu/conversion.h), TimeToString()          *)
(* (include/dxu/chrono.h), ToEscapedString() and ToDoubleQuotedString()     *)
(* (include/dxu/format.h).  Characters are bytes, 0 to 255, and the         *)
(* constants below are their ASCII codes.                                   *)
(***************************************************************************)
EXTENDS PowersOfTen, SequencesExt

Zero == 48
Hyphen == 45
Dot == 46
Slash == 47
TimeColon == 58
Quote == 34
Apostrophe == 39
Backslash == 92

-----------------------------------------------------------------------------
(* Decimal numbers, as std::to_string() and printf() write them. *)

Abs(n) == IF n < 0 THEN -n ELSE n

(* The lowest k digits of n. *)
LowDigits(n, k) == [i \in 1 .. k |-> Zero + ((n \div Ten[k - i]) % 10)]

(* How many digits n has. *)
DigitsOf(n) == CHOOSE k \in 1 .. n + 1 : n < Ten[k] /\ (k > 1 => Ten[k - 1] <= n)

Decimal(n) ==
  (IF n < 0 THEN <<Hyphen>> ELSE <<>>) \o LowDigits(Abs(n), DigitsOf(Abs(n)))

(* Faulty variant: a separator behind every element, also the last. *)
JoinTrailing(xs, sep, start, end) ==
  start \o FlattenSeq([k \in DOMAIN xs |-> Decimal(xs[k]) \o sep]) \o end

(* VectorToString() and CArrayToString() *)
VectorToString(xs, sep, start, end) ==
  start \o FlattenSeq([k \in DOMAIN xs |->
                         (IF k > 1 THEN sep ELSE <<>>) \o Decimal(xs[k])]) \o end

-----------------------------------------------------------------------------
(* HumanReadableBytes() of n * 1024 ^ e bytes, for n below 1024 ^ 3.  Such  *)
(* numbers and their quotients by powers of 1024 are exact as doubles.      *)

SizePB == 5
Units == <<75, 77, 71, 84, 80>>     \* K, M, G, T, P

(* 1024 ^ k *)
Scale(k) == CASE k = 0 -> 1 [] k = 1 -> 1024 [] k = 2 -> 1048576

(* How often the number can be divided by 1024. *)
UnitOf(n, e) ==
  LET powers == Max({k \in 0 .. 2 : k = 0 \/ Scale(k) <= n})
  IN  Min({SizePB, e + powers})

(* n / scale in hundredths, to the nearest, to the even one from the middle *)
(* between two ("%.2lf").                                                   *)
Hundredths(n, scale) ==
  LET part == 100 * (n % scale)
      down == part \div scale
      rest == part % scale
      up   == 2 * rest > scale \/ (2 * rest = scale /\ down % 2 = 1)
  IN  100 * (n \div scale) + down + (IF up THEN 1 ELSE 0)

(* Faulty variant: never more than one decimal is cut off. *)
CutOne(whole, l) == IF whole >= 100 THEN l - 1 ELSE l

(* Where the text ends, which is l characters long with two decimals. *)
Cut(whole, l) == IF whole >= 1000 THEN l - 3 ELSE IF whole >= 100 THEN l - 1 ELSE l

(* snprintf() keeps seven characters in buf[8]; the unit replaces the last  *)
(* one that stays, and buf[nul] becomes the Nul behind it.                  *)
HumanReadableBytes(n, e) ==
  LET unit  == UnitOf(n, e)
      scale == Scale(unit - e)
      cents == Hundredths(n, scale)
      text  == Decimal(cents \div 100) \o <<Dot>> \o LowDigits(cents % 100, 2)
                 \o <<Units[unit]>>
      nul   == Cut(n \div scale, Len(text))
  IN  IF e = 0 /\ n < 1024
      THEN [text |-> Decimal(n), unit |-> 0, nul |-> Len(Decimal(n))]
      ELSE [text |-> SubSeq(text, 1, Min({Len(text), 7, nul - 1})) \o <<Units[unit]>>,
            unit |-> unit, nul |-> nul]

-----------------------------------------------------------------------------
(* TimeToString().  A 64-bit word is a tuple of two fields of 24 bits and   *)
(* one of 16, the lowest first; a product carries from field to field.      *)

Bits24 == 16777216
Bits16 == 65536

Times(w, k) ==
  LET low == k * w[1]
      mid == k * w[2] + low \div Bits24
  IN  <<low % Bits24, mid % Bits24, (k * w[3] + mid \div Bits24) % Bits16>>

(* Faulty variant: an eighth of the precision, too little for multiples of  *)
(* ten.                                                                     *)
TensRough(w) == [i \in 1 .. 3 |-> (Times(w, 51)[i] \div 512) % 16]

(* (digits * 205) >> 11, the lowest four bits of each field. *)
Tens(w) == [i \in 1 .. 3 |-> (Times(w, 205)[i] \div 2048) % 16]

(* Write3Digit2(): each field becomes two digits, high nibble first, and    *)
(* the separator goes where the next byte of the field is.                  *)
Write3Digit2(a, b, c, sep) ==
  LET w == <<a, b, c>>
      bcd == [i \in 1 .. 3 |-> w[i] + 6 * Tens(w)[i]]
      two(i) == <<Zero + ((bcd[i] \div 16) % 16), Zero + (bcd[i] % 16)>>
  IN  two(1) \o <<sep>> \o two(2) \o <<sep>> \o two(3)

WriteTripleDigit2(a, b, c, sep) == Write3Digit2(a % 100, b % 100, c % 100, sep)

(* WriteDigit2(): the table of format.h. *)
WriteDigit2(value) == LowDigits(value, 2)

(* What localtime_r() makes of a time is t; years count from 1900, months   *)
(* from 0.                                                                  *)
TimeToString(t) ==
  WriteDigit2((t.year \div 100 + 19) % 100)
    \o Write3Digit2(t.year % 100, t.mon + 1, t.mday, Slash) \o <<Hyphen>>
    \o Write3Digit2(t.hour, t.min, t.sec, TimeColon)

-----------------------------------------------------------------------------
(* ToDoubleQuotedString() *)

NumToHex(v) == IF v < 10 THEN Zero + v ELSE 97 + v - 10

(* "\xhh" *)
CharToHex(c) == <<Backslash, 120, NumToHex(c \div 16), NumToHex(c % 16)>>

(* '\0', '\a' to '\r' and '\e': the letters they are written with. *)
Letters ==
  [c \in {0, 27} \cup (7 .. 13) |->
     CASE c = 0 -> 48 [] c = 7 -> 97 [] c = 8 -> 98 [] c = 9 -> 116 [] c = 10 -> 110
       [] c = 11 -> 118 [] c = 12 -> 102 [] c = 13 -> 114 [] c = 27 -> 101]

(* Faulty variant: a backslash is printable, and written as it is. *)
EscapeQuotesOnly(c, quotes) ==
  IF c \in 32 .. 126 THEN (IF c \in quotes THEN <<Backslash>> ELSE <<>>) \o <<c>>
  ELSE IF c \in DOMAIN Letters THEN <<Backslash, Letters[c]>>
  ELSE CharToHex(c)

(* What ToEscapedString() appends for c, with the quotes it has to escape.  *)
ToEscapedString(c, quotes) ==
  IF c \in 32 .. 126
  THEN (IF c \in quotes \cup {Backslash} THEN <<Backslash>> ELSE <<>>) \o <<c>>
  ELSE IF c \in DOMAIN Letters THEN <<Backslash, Letters[c]>>
  ELSE CharToHex(c)

ToDoubleQuotedString(s) ==
  <<Quote>> \o FlattenSeq([k \in DOMAIN s |-> ToEscapedString(s[k], {Quote})])
    \o <<Quote>>
=============================================================================
