---------------------------- MODULE MCLineEditor ----------------------------
(***************************************************************************)
(* Keyboards for TLC: one with a character of each kind, and the smallest  *)
(* one that has characters of several bytes.                               *)
(***************************************************************************)
EXTENDS LineEditor

EveryKind == {"a", " ", "L", "M"}
TwoKinds  == {"a", "L"}

\* A list with lines of both widths, and one with a line that has no room.
SomeOffers == {<< <<"a", "a">>, <<"L", "T", "T">> >>, << <<"a", "a", "a", "a">> >>}
=============================================================================
