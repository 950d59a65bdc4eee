----------------------------- MODULE MCMultiLine -----------------------------
(***************************************************************************)
(* Texts for TLC: all of up to four characters of one or two columns, and  *)
(* some with combining marks, on rows of three columns.                    *)
(***************************************************************************)
EXTENDS MultiLine

MCTexts ==
  UNION {[1 .. n -> {"a", "W"}] : n \in 0 .. 4}
  \cup {<<"M">>, <<"a", "M">>, <<"a", "a", "M">>, <<"W", "M", "a", "M", "W">>}
=============================================================================
