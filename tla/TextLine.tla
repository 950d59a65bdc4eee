------------------------------ MODULE TextLine ------------------------------
(***************************************************************************)
(* What a line editor promises: a text of characters with a cursor between *)
(* two of them, and other texts it remembers and can bring back.  It says  *)
(* nothing of bytes, of the screen or of which texts are forgotten.        *)
(***************************************************************************)
EXTENDS Integers, Sequences

CONSTANTS
  Char,
  Completions   \* texts that may be offered in place of the one being edited

VARIABLES
  text,        \* a sequence of characters
  cursor,      \* number of characters to the left of the cursor
  remembered   \* a set of texts

vars == <<text, cursor, remembered>>

Left(n)  == SubSeq(text, 1, n)
Right(n) == SubSeq(text, n + 1, Len(text))

Init == text = <<>> /\ cursor = 0 /\ remembered = {}

\* No text is remembered that was not edited or remembered before.
Keeps == remembered' \subseteq remembered \cup {text, <<>>}

Insert(c) ==
  /\ text' = Append(Left(cursor), c) \o Right(cursor)
  /\ cursor' = cursor + 1
  /\ UNCHANGED remembered

Move ==
  /\ cursor' \in 0 .. Len(text)
  /\ UNCHANGED <<text, remembered>>

\* A piece of the text that touches the cursor goes, and the cursor is where
\* it was.
Cut ==
  \E i \in 0 .. cursor, j \in cursor .. Len(text) :
    /\ text' = Left(i) \o Right(j)
    /\ cursor' = i
    /\ UNCHANGED remembered

\* The characters on both sides of the cursor change places.
Swap ==
  /\ 0 < cursor /\ cursor < Len(text)
  /\ text' = [text EXCEPT ![cursor] = text[cursor + 1], ![cursor + 1] = text[cursor]]
  /\ cursor' \in {cursor, cursor + 1}
  /\ UNCHANGED remembered

Complete ==
  /\ text' \in Completions
  /\ cursor' = Len(text')
  /\ UNCHANGED remembered

Recall ==
  /\ text' \in remembered
  /\ cursor' = Len(text')
  /\ Keeps

NewLine ==
  /\ text' = <<>> /\ cursor' = 0
  /\ Keeps

Forget == UNCHANGED <<text, cursor>> /\ Keeps

Next == (\E c \in Char : Insert(c)) \/ Move \/ Cut \/ Swap \/ Complete \/ Recall \/ NewLine \/ Forget

Spec == Init /\ [][Next]_vars
=============================================================================
