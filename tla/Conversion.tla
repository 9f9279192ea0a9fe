------------------------------ MODULE Conversion ------------------------------
(***************************************************************************)
(* StrToInt(), StrToInt64() and StrToIntPair() (include/dxu/conversion.h).  *)
(*                                                                         *)
(* The integers of a width reach from -limit to limit - 1.  They are        *)
(* decimal: the base is 10, or 0 for texts without a leading zero.  An      *)
(* error code is its name, and "ok" is 0.                                   *)
(***************************************************************************)
EXTENDS Slice

CONSTANTS
  Digit,      \* Digit[c]: the value of the digit c
  Minus,      \* '-'
  Plus,       \* '+'
  Nul,        \* '\0', which a slice may contain
  IntLimit,   \* how far int32_t reaches: 2^31
  LongLimit   \* how far what strtol() returns reaches

ASSUME LimitsAssumption ==
  IntLimit \in Nat \ {0} /\ LongLimit \in Nat /\ IntLimit <= LongLimit

ASSUME CharactersAssumption ==
  /\ \A c \in DOMAIN Digit :
       Digit[c] \in 0 .. 9 /\ c \notin Spaces \cup {Minus, Plus, Nul}
  /\ {Minus, Plus, Nul} \cap Spaces = {}
  /\ Minus # Plus /\ Nul \notin {Minus, Plus}

Reference == INSTANCE Numerals

Fits(i, limit) == i \in -limit .. limit - 1

(* static_cast<int32_t>() and static_cast<int64_t>(): the low bits. *)
Narrow(i, limit) == ((i + limit) % (2 * limit)) - limit

Failed(err) == [err |-> err, num |-> 0]
Parsed(n) == [err |-> "ok", num |-> n]

(* std::strtol(): blanks, a sign, and as many digits as there are; end is   *)
(* where it stopped, 0 when there was no number.                            *)
Strtol(s) ==
  LET blanks == Leading(s, Spaces)
      sign == IF blanks < Len(s) /\ s[blanks + 1] \in {Minus, Plus}
              THEN <<s[blanks + 1]>> ELSE <<>>
      rest == From(s, blanks + Len(sign))
      digits == Before(rest, Leading(rest, DOMAIN Digit))
      value == FoldLeft(LAMBDA n, c : 10 * n + Digit[c], 0, digits)
  IN  [num |-> IF sign = <<Minus>> THEN -value ELSE value,
       end |-> IF digits = <<>> THEN 0
               ELSE blanks + Len(sign) + Len(digits)]

(* Faulty variant: what follows the number is never looked at. *)
EatLax(s, strict, limit) ==
  LET r == Strtol(s)
  IN  IF ~Fits(r.num, LongLimit) THEN Failed("ERANGE")
      ELSE IF r.end = 0 THEN Failed("EINVAL")
      ELSE Parsed(Narrow(r.num, limit))

(* StrToIntEat32() and StrToIntEat64(), with StrToIntPostCheck(): the text  *)
(* is a C string to strtol(), and *end is Nul behind its last character.    *)
Eat(s, strict, limit) ==
  LET r == Strtol(s)
  IN  IF ~Fits(r.num, LongLimit) THEN Failed("ERANGE")
      ELSE IF r.end = 0 THEN Failed("EINVAL")
      ELSE IF strict /\ r.end < Len(s) /\ s[r.end + 1] # Nul
           THEN Failed("EILSEQ")
      ELSE Parsed(Narrow(r.num, limit))

Eat32(s) == Eat(s, TRUE, IntLimit)

(* StrToIntPreCheck() and the rest of StrToInt() and StrToInt64(). *)
Convert(s, trim, strict, limit) ==
  IF ~Valid(s) THEN Failed("EADDRNOTAVAIL")
  ELSE LET t == IF trim THEN Trim(s) ELSE s
       IN  IF t = <<>> THEN Failed("EINVAL") ELSE Eat(t, strict, limit)

StrToInt(s, trim, strict) == Convert(s, trim, strict, IntLimit)
StrToInt64(s, trim, strict) == Convert(s, trim, strict, LongLimit)

(* Faulty variant: n1 survives a failure of n2. *)
BothOrFirst(p1, p2) ==
  [err |-> IF p1.err = "ok" THEN p2.err ELSE p1.err,
   nums |-> <<p1.num, p2.num>>]

(* The outcome of a pair, its parts parsed in order. *)
Both(p1, p2) ==
  LET err == IF p1.err = "ok" THEN p2.err ELSE p1.err
  IN  [err |-> err, nums |-> IF err = "ok" THEN <<p1.num, p2.num>> ELSE <<0, 0>>]

StrToIntPair(s, sep) ==
  IF ~Valid(s) THEN Both(Failed("EADDRNOTAVAIL"), Failed("EADDRNOTAVAIL"))
  ELSE LET t == Trim(s)
           pos == Find(t, sep, 0)
       IN  IF pos \in {NPos, 0, Len(t) - 1}
           THEN Both(Failed("EILSEQ"), Failed("EILSEQ"))
           ELSE Both(Eat32(TrimEnd(Before(t, pos))),
                     Eat32(TrimStart(From(t, pos + 1))))
=============================================================================
