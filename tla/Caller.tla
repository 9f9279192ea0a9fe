-------------------------------- MODULE Caller --------------------------------
(***************************************************************************)
(* A program that makes one call after the other of functions without a     *)
(* state of their own: the latest call, with its arguments, and what it     *)
(* returned.                                                                *)
(***************************************************************************)
VARIABLES
  call,       \* the function that was called and its arguments
  out         \* what it returned

NoCall == [name |-> "none", args |-> <<>>]

Fresh == call.name = "none"

Calls(name, args, result) ==
  /\ call' = [name |-> name, args |-> args]
  /\ out' = result
=============================================================================
