------------------------------ MODULE MultiLine ------------------------------
(***************************************************************************)
(* The multi-line mode of linenoise.hpp: a line of text wider than the     *)
(* terminal goes on in the rows below.  refreshMultiLine computes rows and *)
(* columns from widths alone, writes text and escape sequences, and never  *)
(* sees what the terminal makes of them.  The terminal is a module of its  *)
(* own here, so that what it shows can be compared with the line.          *)
(*                                                                         *)
(* A text is a sequence of characters of no, one or two columns.  What     *)
(* edits it is in LineEditor; any text may come with any cursor here.      *)
(***************************************************************************)
EXTENDS VtScreen, SequencesExt

CONSTANTS
  Prompt,    \* columns of the prompt
  Texts,     \* texts being edited, shown as completions or fetched from the history
  MaxTop     \* bound (for TLC) on the row a line starts in

VARIABLES
  text, pos,      \* the line and the number of characters in front of the cursor
  oldcolpos,      \* columns from the prompt to the cursor, as the last refresh saw it
  maxrows,        \* most rows the line has had
  screen,         \* what the terminal shows
  top             \* history variable: row the prompt is in

vars == <<text, pos, oldcolpos, maxrows, screen, top>>

ASSUME MultiLineAssumption ==
  /\ Prompt \in Nat /\ Prompt < Columns
  /\ Texts \subseteq Seq(Char)
  /\ MaxTop \in 0 .. Rows - 1

(***************************************************************************)
(* unicodeColumnPosForMultiLine: columns of the first p characters of t,   *)
(* with the columns that are left out at the end of a row because a wide   *)
(* character does not fit, also the one at the cursor.                     *)
(***************************************************************************)
Passed(s, c) ==
  LET w   == WidthOf(c)
      dif == s.colwid + w - Columns
  IN  [ret    |-> s.ret + (IF dif > 0 THEN dif ELSE 0),
       colwid |-> IF dif > 0 THEN w ELSE IF dif = 0 THEN 0 ELSE s.colwid + w]

Advanced(s, c) == LET q == Passed(s, c) IN [q EXCEPT !.ret = @ + WidthOf(c)]
Before(t, p)   == FoldLeft(Advanced, [ret |-> 0, colwid |-> Prompt], SubSeq(t, 1, p))

\* (Mutant.  The character at the cursor is not looked at.)
ColumnPosBefore(t, p) == Before(t, p).ret

ColumnPos(t, p) == IF p < Len(t) THEN Passed(Before(t, p), t[p + 1]).ret ELSE Before(t, p).ret

Larger(m, n) == IF m < n THEN n ELSE m

\* What goes out when n > 0.
Up(n)    == IF n > 0 THEN <<[op |-> "up", n |-> n]>> ELSE <<>>
Down(n)  == IF n > 0 THEN <<[op |-> "down", n |-> n]>> ELSE <<>>
Right(n) == IF n > 0 THEN <<[op |-> "right", n |-> n]>> ELSE <<>>
Return   == [op |-> "return"]
Feed     == [op |-> "feed"]
EraseRow == <<Return, [op |-> "erase"]>>
Put(c)   == [op |-> "put", c |-> c]
PromptText == [i \in 1 .. Prompt |-> Put("p")]
Written(t) == [i \in DOMAIN t |-> Put(t[i])]

\* The row, counted from 1, and the column of a position.
RowOf(colpos) == (Prompt + colpos + Columns) \div Columns
ColOf(colpos) == (Prompt + colpos) % Columns

\* At the end of a full row the cursor is put in the next one.
AtRowEnd(t, p) == p # 0 /\ p = Len(t) /\ ColOf(ColumnPos(t, p)) = 0

\* Rows of t alone, and with the row the cursor is put in.  (Mutant: without it.)
RowsOf(t)             == (Prompt + ColumnPos(t, Len(t)) + Columns - 1) \div Columns
RowsOfTextAlone(t, p) == RowsOf(t)
RowsWithCursor(t, p)  == RowsOf(t) + (IF AtRowEnd(t, p) THEN 1 ELSE 0)

\* All the rows the line has had are cleared, from the last one up.
Clearing ==
  Down(maxrows - RowOf(oldcolpos))
  \o FlattenSeq([j \in 1 .. Larger(maxrows - 1, 0) |-> EraseRow \o Up(1)])
  \o EraseRow

Output(t, p) ==
  LET colpos2 == ColumnPos(t, p) IN
  Clearing \o PromptText \o Written(t)
  \o (IF AtRowEnd(t, p) THEN <<Feed, Return>> ELSE <<>>)
  \o Up(RowsWithCursor(t, p) - RowOf(colpos2))
  \o <<Return>> \o Right(ColOf(colpos2))

\* refreshMultiLine, on a terminal that shows s
refreshMultiLine(s, t, p) ==
  /\ oldcolpos' = ColumnPos(t, p)
  /\ maxrows' = Larger(maxrows, RowsWithCursor(t, p))
  /\ screen' = FoldLeft(Exec, s, Output(t, p))

-----------------------------------------------------------------------------
Init ==
  /\ text = <<>> /\ pos = 0
  /\ oldcolpos = 0 /\ maxrows = 0
  /\ top \in 0 .. MaxTop
  /\ screen = FoldLeft(Exec, Above(Cleared([row |-> top]), top), PromptText)

\* Where LineEditor leaves a cursor: in front of no combining mark but a first one.
Between(t) == {p \in 0 .. Len(t) : p \in {0, Len(t)} \/ WidthOf(t[p + 1]) > 0}

\* The screen has room for every text, and for the row its cursor may be put in.
ASSUME RoomAssumption ==
  \A t \in Texts : \A p \in Between(t) : MaxTop + RowsWithCursor(t, p) <= Rows

\* A key leaves text t with p characters in front of the cursor.
Edit(t, p) ==
  /\ text' = t /\ pos' = p
  /\ refreshMultiLine(screen, t, p)
  /\ UNCHANGED top

\* Ctrl-l: linenoiseClearScreen, then a refresh.
ClearScreen ==
  /\ refreshMultiLine(Cleared([row |-> 0]), text, pos)
  /\ top' = 0
  /\ UNCHANGED <<text, pos>>

\* Enter, from wherever the cursor is: linenoiseEditMoveEnd; linenoiseRaw writes
\* a newline and the next linenoiseEdit the prompt.
AtEnd == pos = Len(text)
Ended == IF AtEnd THEN screen ELSE FoldLeft(Exec, screen, Output(text, Len(text)))

Enter ==
  /\ LET s == Exec(Ended, Feed) IN
       /\ s.row <= MaxTop
       /\ top' = s.row
       /\ screen' = FoldLeft(Exec, Above(s, s.row), PromptText)
  /\ text' = <<>> /\ pos' = 0
  /\ oldcolpos' = 0 /\ maxrows' = 0

Next ==
  \/ \E t \in Texts : \E p \in Between(t) : Edit(t, p)
  \/ ClearScreen \/ Enter

Spec == Init /\ [][Next]_vars

-----------------------------------------------------------------------------
(***************************************************************************)
(* Whatever line was shown before and wherever the cursor was: the screen  *)
(* is what a blank terminal makes of the prompt and the line, with nothing *)
(* left of an older line and nothing lost above.                           *)
(***************************************************************************)
Fresh(t) == FoldLeft(Exec, Above(Cleared([row |-> top]), top), PromptText \o Written(t))
LineShown == screen.cells = Fresh(text).cells

(***************************************************************************)
(* The cursor is where the terminal put the character it is on, or where   *)
(* the next one will go at the end of the line.                            *)
(***************************************************************************)
Wraps(s, w) == s.pending \/ s.col + w > Columns
CursorShown ==
  LET s == Fresh(SubSeq(text, 1, pos))
      w == IF pos < Len(text) THEN WidthOf(text[pos + 1]) ELSE 0
  IN  <<screen.row, screen.col>> = IF Wraps(s, w) THEN <<s.row + 1, 0>> ELSE <<s.row, s.col>>
=============================================================================
