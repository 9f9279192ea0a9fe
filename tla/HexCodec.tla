------------------------------- MODULE HexCodec -------------------------------
(***************************************************************************)
(* Slice::ToString(true) and Slice::DecodeHex() (include/dxu/slice.h).      *)
(* Characters are bytes, 0 to 255; where char is signed the code computes   *)
(* with the byte less 256 from 128 on.                                      *)
(***************************************************************************)
EXTENDS Slice

CONSTANT SignedChar   \* TRUE where char is a signed type

ASSUME SignAssumption == SignedChar \in BOOLEAN

AsChar(b) == IF SignedChar /\ b > 127 THEN b - 256 ELSE b
AsByte(c) == c % 256

(* toHex(): '0' is 48 and 'A' is 65. *)
toHex(v) == AsByte(IF v <= 9 THEN 48 + v ELSE 65 + v - 10)

(* Faulty variant: the low digit comes first. *)
HexOfSwapped(b) == <<toHex(b % 16), toHex(AsChar(b) \div 16)>>

(* c >> 4 keeps the sign; c & 0xf does not. *)
HexOf(b) == <<toHex(AsChar(b) \div 16), toHex(b % 16)>>

ToHexString(d) ==
  [i \in 1 .. 2 * Len(d) |-> HexOf(d[(i + 1) \div 2])[IF i % 2 = 1 THEN 1 ELSE 2]]

fromHex(c) ==
  IF c \in 48 .. 57 THEN c - 48
  ELSE IF c \in 65 .. 70 THEN c - 65 + 10
  ELSE IF c \in 97 .. 102 THEN c - 97 + 10
  ELSE -1

(* The byte of the k-th pair of digits, and whether they are digits. *)
PairOk(s, k) == fromHex(s[2 * k - 1]) >= 0 /\ fromHex(s[2 * k]) >= 0
PairByte(s, k) == AsByte(16 * fromHex(s[2 * k - 1]) + fromHex(s[2 * k]))

(* How many pairs are decoded before the first that is not one. *)
PairsDecoded(s) ==
  Max({n \in 0 .. Len(s) \div 2 : \A k \in 1 .. n : PairOk(s, k)})

(* Faulty variant: what was decoded so far counts as success. *)
DecodeHexLax(s, before) ==
  IF ~Valid(s) \/ Len(s) % 2 = 1 THEN [ok |-> FALSE, bytes |-> before]
  ELSE [ok |-> TRUE, bytes |-> [k \in 1 .. PairsDecoded(s) |-> PairByte(s, k)]]

(* The result holds "before" when the function is called: it is cleared     *)
(* only once the length has been checked.                                   *)
DecodeHex(s, before) ==
  IF ~Valid(s) \/ Len(s) % 2 = 1 THEN [ok |-> FALSE, bytes |-> before]
  ELSE [ok |-> PairsDecoded(s) = Len(s) \div 2,
        bytes |-> [k \in 1 .. PairsDecoded(s) |-> PairByte(s, k)]]
=============================================================================
