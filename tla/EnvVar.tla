-------------------------------- MODULE EnvVar --------------------------------
(***************************************************************************)
(* dxu::EnvVarManager (include/dxu/env_var.h): the value of an environment  *)
(* variable, Invalid while it is not set, as a string, a truth value or an  *)
(* integer.  Characters are ASCII codes.                                    *)
(***************************************************************************)
EXTENDS Conversion

(* Slice::to_lower_string() *)
ToLower(s) == [i \in DOMAIN s |-> IF s[i] \in 65 .. 90 THEN s[i] + 32 ELSE s[i]]

(* "1", "true", "on", "y", "yes" *)
Truthy == {<<49>>, <<116, 114, 117, 101>>, <<111, 110>>, <<121>>, <<121, 101, 115>>}

(* "0", "false", "off", "n", "no" *)
Falsy == {<<48>>, <<102, 97, 108, 115, 101>>, <<111, 102, 102>>, <<110>>, <<110, 111>>}

GetString(value, default) == IF Valid(value) THEN value ELSE default

(* Faulty variant: an unset variable is reported as an error. *)
GetBoolReporting(value, default, error) ==
  LET word == ToLower(Trim(Chars(value)))
  IN  IF word \in Truthy THEN [is |-> TRUE, error |-> error]
      ELSE IF word \in Falsy THEN [is |-> FALSE, error |-> error]
      ELSE [is |-> default, error |-> value]

(* The result, and what *error_value holds, which held "error" before.      *)
GetBool(value, default, error) ==
  LET word == ToLower(Trim(value))
  IN  IF ~Valid(value) THEN [is |-> default, error |-> error]
      ELSE IF word \in Truthy THEN [is |-> TRUE, error |-> error]
      ELSE IF word \in Falsy THEN [is |-> FALSE, error |-> error]
      ELSE [is |-> default, error |-> value]

(* GetInt32() and GetInt64(), where r is what StrToInt() or StrToInt64()    *)
(* makes of the value.                                                      *)
NumberOr(value, r, default) ==
  IF Valid(value) /\ r.err = "ok" THEN r.num ELSE default

GetInt32(value, default) == NumberOr(value, StrToInt(value, TRUE, TRUE), default)
GetInt64(value, default) == NumberOr(value, StrToInt64(value, TRUE, TRUE), default)

(* setenv() without overwriting *)
Set(value, new) == IF Valid(value) THEN value ELSE new
=============================================================================
