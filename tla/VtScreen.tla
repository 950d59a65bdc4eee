------------------------------ MODULE VtScreen ------------------------------
(***************************************************************************)
(* A terminal as linenoise.hpp expects one: after a character in the last  *)
(* column the cursor stays there, and goes to the next row only with the   *)
(* next character.  The screen has room for all that is written to it.     *)
(***************************************************************************)
EXTENDS Integers, Sequences

CONSTANTS Columns, Rows

ASSUME VtAssumption == {Columns, Rows} \subseteq Nat \ {0, 1}

\* Characters of two columns, one and none; those of the prompt have one.
Char == {"W", "a", "M", "p"}
WidthOf(c) == CASE c = "W" -> 2 [] c = "M" -> 0 [] OTHER -> 1

Cell == (0 .. Rows - 1) \X (0 .. Columns - 1)

\* An empty screen with the cursor at the left of a row.
Cleared(at) == [cells |-> [c \in Cell |-> " "], row |-> at.row, col |-> 0, pending |-> FALSE]

\* The screen s with something else in all rows above row r.
Above(s, r) == [s EXCEPT !.cells = [c \in Cell |-> IF c[1] < r THEN "x" ELSE s.cells[c]]]

Down1(s) == [s EXCEPT !.row = s.row + 1, !.col = 0, !.pending = FALSE]

\* A character of w columns that fits in the row.
Placed(s, c, w) ==
  LET last == s.col + w = Columns IN
  [s EXCEPT !.cells = [x \in Cell |->
                         IF x = <<s.row, s.col>> THEN c
                         ELSE IF w = 2 /\ x = <<s.row, s.col + 1>> THEN "<" ELSE s.cells[x]],
            !.col = IF last THEN Columns - 1 ELSE s.col + w,
            !.pending = last]

Putting(s, c) ==
  LET w == WidthOf(c)
      t == IF s.pending \/ s.col + w > Columns THEN Down1(s) ELSE s
  IN  IF w = 0 THEN s ELSE Placed(t, c, w)

Moved(s, row, col) == [s EXCEPT !.row = row, !.col = col, !.pending = FALSE]

Lesser(m, n) == IF m < n THEN m ELSE n

\* What the terminal makes of one character or escape sequence.
Exec(s, x) ==
  CASE x.op = "put"    -> Putting(s, x.c)
    [] x.op = "return" -> Moved(s, s.row, 0)
    [] x.op = "feed"   -> Down1(s)
    [] x.op = "up"     -> Moved(s, IF s.row < x.n THEN 0 ELSE s.row - x.n, s.col)
    [] x.op = "down"   -> Moved(s, Lesser(s.row + x.n, Rows - 1), s.col)
    [] x.op = "right"  -> Moved(s, s.row, Lesser(s.col + x.n, Columns - 1))
    [] x.op = "erase"  ->
         [s EXCEPT !.cells = [c \in Cell |-> IF c[1] = s.row /\ c[2] >= s.col THEN " " ELSE s.cells[c]]]
=============================================================================
