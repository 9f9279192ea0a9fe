---------------------------- MODULE MCVectorParser ----------------------------
(* StringToVectorInt() on all short texts over a few characters, for TLC. *)
EXTENDS VectorParser

CONSTANTS Characters, MaxLength

DigitValues == ("0" :> 0) @@ ("2" :> 2)
AllBlanks == {" ", "tab"}

(* The defaults, separating blanks, another range mark, marks that clash. *)
Defaults == [sep |-> ",", repeat |-> "*", range |-> "-"]
OnlyDefaults == {Defaults}
SomeOptions == {Defaults, [Defaults EXCEPT !.sep = " "],
                [sep |-> " ", repeat |-> "*", range |-> ","],
                [Defaults EXCEPT !.repeat = ","]}

AllTexts == UNION {[1 .. n -> Characters] : n \in 0 .. MaxLength} \cup {Invalid}
=============================================================================
