----------------------------- MODULE MCLogQuery -----------------------------
(* Instances of LogQuery for TLC.                                             *)
EXTENDS LogQuery

\* A letter, a newline, a character of two bytes.
Characters == {<<"letter">>, <<"newline">>, <<"first", "more">>}
TwoLetters == <<"letter", "letter">>
=============================================================================
