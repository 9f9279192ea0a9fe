------------------------------ MODULE TextCalls ------------------------------
(***************************************************************************)
(* A program that calls the functions of Slice, conversion.h, chrono.h,     *)
(* format.h and env_var.h that work on texts.  Conversions to numbers are   *)
(* compared with Numerals.tla, ToString(true) and DecodeHex() with each     *)
(* other and with what hexadecimal digits are.                              *)
(***************************************************************************)
EXTENDS EnvVar, HexCodec, SliceCalls, FormatCalls

CONSTANTS
  Texts,      \* the texts that are converted to numbers, Invalid among them
  Colon,      \* the separator of a pair
  Datas,      \* the byte strings that are encoded
  HexTexts,   \* the texts that are decoded, Invalid among them
  EnvTexts,   \* the values an environment variable is set to
  Default     \* what is returned where the variable has no proper value

ASSUME BytesAssumption ==
  /\ Datas \subseteq Seq(0 .. 255)
  /\ HexTexts \subseteq Seq(0 .. 255) \cup {Invalid}

ASSUME TextsAssumption ==
  /\ Texts \subseteq Seq(Int) \cup {Invalid}
  /\ \A t \in EnvTexts : t \in Seq(Int) /\ \A i \in DOMAIN t : t[i] # Nul
  /\ Colon \notin Spaces \cup DOMAIN Digit \cup {Minus, Plus, Nul}

VARIABLE env  \* the value of an environment variable, Invalid while not set

vars == <<call, out, env>>

Init ==
  /\ call = NoCall
  /\ out = Parsed(0)
  /\ env = Invalid

CallStrToInt ==
  /\ Fresh
  /\ \E text \in Texts, trim, strict \in BOOLEAN :
       \/ Calls("int", <<text, trim, strict>>, StrToInt(text, trim, strict))
       \/ Calls("int64", <<text, trim, strict>>, StrToInt64(text, trim, strict))

CallStrToIntPair ==
  /\ Fresh
  /\ \E text \in Texts : Calls("pair", <<text>>, StrToIntPair(text, Colon))

CallToHexString ==
  /\ Fresh
  /\ \E data \in Datas : Calls("encode", <<data>>, ToHexString(data))

(* A text from elsewhere, or the one that was just encoded, is decoded into *)
(* a string that holds something already.                                   *)
CallDecodeHex ==
  \/ /\ Fresh
     /\ \E text \in HexTexts : Calls("decode", <<text>>, DecodeHex(text, <<0>>))
  \/ /\ call.name = "encode"
     /\ Calls("decode_encoded", call.args, DecodeHex(out, <<0>>))

(* Set(), once more after the variable has been set, or in a program that   *)
(* was started with it.                                                     *)
CallSet ==
  /\ call.name \in {"none", "set"}
  /\ \E value \in EnvTexts :
       /\ Calls("set", <<IF call.name = "set" THEN call.args[1] ELSE value>>, 0)
       /\ env' = Set(env, value)

(* What *error_value holds before GetBool() is called: "!". *)
Unreported == <<33>>

CallGet ==
  /\ call.name \in {"none", "set"}
  /\ \E default \in BOOLEAN :
       Calls("get", <<IF call.name = "set" THEN call.args[1] ELSE Invalid, default>>,
             [string |-> GetString(env, <<>>), bool |-> GetBool(env, default, Unreported),
              int |-> GetInt32(env, Default), int64 |-> GetInt64(env, Default)])
  /\ UNCHANGED env

Next ==
  \/ CallSet \/ CallGet
  \/ /\ \/ CallStrToInt \/ CallStrToIntPair \/ CallToHexString \/ CallDecodeHex
        \/ SliceCall \/ FormatCall
     /\ UNCHANGED env

Spec == Init /\ [][Next]_vars

-----------------------------------------------------------------------------
Text == call.args[1]

(* The lengths of the prefixes that are a number, blanks before it allowed. *)
NumberEnds ==
  IF ~Valid(Text) THEN {}
  ELSE {n \in DOMAIN Text : /\ Text[n] \notin Spaces
                            /\ Reference!Numbers(Before(Text, n)) # {}}

Written == CHOOSE n \in Reference!Numbers(Before(Text, Max(NumberEnds))) : TRUE

(* Nothing follows the number but blanks that are trimmed, if it matters.   *)
EndsWell(trim, strict) ==
  LET tail == From(Text, Max(NumberEnds))
  IN  ~strict \/ tail = <<>> \/ (trim /\ Reference!IsBlank(tail))

(* The text is one number, or starts with one and need not be strict.       *)
Acceptable == NumberEnds # {} /\ EndsWell(call.args[2], call.args[3])

(* StrToInt() and StrToInt64() give the number of an acceptable text, the   *)
(* longest it starts with, when their type holds it, and 0 with an error    *)
(* for every other text and for what is out of range of long                *)
(* (conversion.h:24-28, 143-183).  Two cases are left to the properties     *)
(* after this one: strict texts with a Nul in them, and for StrToInt() the  *)
(* numbers that long holds and int32_t does not.                            *)
IntegersAgree ==
  /\ call.name \in {"int", "int64"}
  /\ call.args[3] /\ Valid(Text) => \A i \in DOMAIN Text : Text[i] # Nul
  =>
    LET limit == IF call.name = "int" THEN IntLimit ELSE LongLimit
    IN  /\ Acceptable /\ Fits(Written, limit) => out = Parsed(Written)
        /\ ~Acceptable \/ ~Fits(Written, LongLimit) => out.err # "ok" /\ out.num = 0

(* A strict conversion that succeeds has used the whole text: "no trailing  *)
(* content, etc." (conversion.h:16, 153).                                   *)
NoTrailingContent ==
  call.name \in {"int", "int64"} /\ call.args[3] /\ out.err = "ok" => Acceptable

(* What StrToInt() returns without an error is the number in the text, as   *)
(* strtol() reads it: "wrapper for std::strtol, return 0 if error"          *)
(* (conversion.h:24, 165).                                                  *)
ReturnsNumberRead ==
  call.name = "int" /\ out.err = "ok" => out.num = Written

(* A strict StrToInt() that reports no error keeps one of these two         *)
(* promises at least: it has used the whole text, "no trailing content,     *)
(* etc.", or it returns what strtol() has read, "wrapper for std::strtol,   *)
(* return 0 if error".  A call that keeps neither refutes both comments     *)
(* (conversion.h:16, 24, 153, 165).                                         *)
ReadsStrictly == NoTrailingContent \/ ReturnsNumberRead

(* StrToIntPair() accepts exactly the texts of two numbers around a         *)
(* separator, and returns both or {0, 0} (conversion.h:41, 229-259).  Texts *)
(* with a Nul in them are left out.                                         *)
PairsAgree ==
  call.name = "pair" /\ (Valid(Text) => \A i \in DOMAIN Text : Text[i] # Nul) =>
    LET pairs == IF Valid(Text) THEN Reference!PairsAround(Text, Colon) ELSE {}
        fit(limit) == {p \in pairs : Fits(p[1], limit) /\ Fits(p[2], limit)}
    IN  /\ out.err = "ok" <=> fit(LongLimit) # {}
        /\ out.err # "ok" => out.nums = <<0, 0>>
        /\ fit(IntLimit) # {} => out.nums \in fit(IntLimit)

(* '0' .. '9', 'A' .. 'F' and 'a' .. 'f' *)
UpperDigits == (48 .. 57) \cup (65 .. 70)
HexDigits == UpperDigits \cup (97 .. 102)

(* DecodeHex() succeeds exactly on texts of an even number of hexadecimal   *)
(* digits of either case (slice.h:129-134, 385-399).                        *)
AcceptsHexOnly ==
  call.name = "decode" =>
    (out.ok <=> /\ Valid(Text)
                /\ Len(Text) % 2 = 0
                /\ \A k \in DOMAIN Text : Text[k] \in HexDigits)

(* What was encoded is decoded to the same bytes: where char is unsigned,   *)
(* and of bytes below 128 everywhere (slice.h:372-399).                     *)
RoundTrip ==
  call.name = "decode_encoded"
    /\ (~SignedChar \/ \A k \in DOMAIN Text : Text[k] < 128)
  => out = [ok |-> TRUE, bytes |-> Text]

(* "returns a string of twice the length hex encoded (0-9A-F)"              *)
(* (slice.h:115).                                                           *)
EncodesInHex ==
  call.name = "encode" =>
    /\ Len(out) = 2 * Len(Text)
    /\ \A k \in DOMAIN out : out[k] \in UpperDigits

(* The text is one of the words, in letters of either case. *)
IsOneOf(text, words) ==
  \E w \in words :
    /\ Len(w) = Len(text)
    /\ \A i \in DOMAIN w : text[i] = w[i] \/ (w[i] \in 97 .. 122 /\ text[i] = w[i] - 32)

(* The value that was set first is the one that is read, whatever was set   *)
(* later: as it is; as a truth value when it is one of the words, in either *)
(* case and with blanks around it; as a number when it is one of the width  *)
(* of long, less what GetInt32() cuts off.  Everything else gives the       *)
(* default, and only what is no truth value is reported as an error, never  *)
(* a variable that is not set (env_var.h:10-74).                            *)
EnvironmentAnswers ==
  call.name = "get" =>
    LET set == Valid(Text)
        word == Reference!Core(Text)
        numbers == IF set THEN {n \in Reference!Numbers(Text) : Fits(n, LongLimit)} ELSE {}
    IN  /\ out.string = IF set THEN Text ELSE <<>>
        /\ out.bool.is = IF set /\ IsOneOf(word, Truthy) THEN TRUE
                         ELSE IF set /\ IsOneOf(word, Falsy) THEN FALSE ELSE call.args[2]
        /\ out.bool.error = IF set /\ ~IsOneOf(word, Truthy \cup Falsy) THEN Text
                            ELSE Unreported
        /\ out.int64 \in IF numbers = {} THEN {Default} ELSE numbers
        /\ out.int \in IF numbers = {} THEN {Default}
                       ELSE {Narrow(n, IntLimit) : n \in numbers}
=============================================================================
