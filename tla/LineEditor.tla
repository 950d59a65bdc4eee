----------------------------- MODULE LineEditor -----------------------------
(***************************************************************************)
(* linenoiseEdit and the history of linenoise.hpp, called in a loop by     *)
(* debugger::run, in single-line mode: one action per key.  The line is a  *)
(* sequence of bytes, the cursor an offset in bytes, and the screen what   *)
(* refreshSingleLine leaves on it.                                         *)
(*                                                                         *)
(* Characters are "a" and " " (one byte, one column), "L" (a wide one:     *)
(* three bytes, two columns) and "M" (a combining mark: two bytes, no      *)
(* column).  The bytes of "L" are L T T, those of "M" are M T.             *)
(***************************************************************************)
EXTENDS Integers, Sequences, FiniteSetsExt

CONSTANTS
  Typed,        \* characters the user types
  MaxLine,      \* buflen of linenoiseEdit: the buffer has one byte more
  MaxHistory,   \* history_max_len
  MaxGiven,     \* bound (for TLC) on the number of lines given,
  MaxKept,      \* and on the bytes of a line that is given or left for another
  Offers,       \* lists the completion callback may return; {} if none is set
  Prompt,       \* columns of the prompt
  Columns       \* columns of the terminal

VARIABLES
  buf, pos,        \* line being edited and cursor (linenoiseState)
  history_index,   \* how far back in the history the line is
  history,         \* oldest line first
  screen,          \* part of the line that is shown, and column of the cursor
  offer,           \* completeLine: the list lc and the index i of the line shown
  at,              \* "command" (between two lines), "editing", "completing",
                   \* "quit"; "stuck" in a loop that does not end; "undefined"
  given,           \* history variable: lines given, repetitions left out
  altered          \* history variable: has a line of the history been edited,
                   \* or one been given without Enter?  (given then ends)

lineVars    == <<buf, pos, screen>>
historyVars == <<history, history_index, given, altered>>
vars        == <<lineVars, historyVars, offer, at>>

Ascii == {"a", " "}
Byte  == Ascii \cup {"L", "M", "T"}
Bytes(c) == CASE c = "L" -> <<"L", "T", "T">> [] c = "M" -> <<"M", "T">> [] OTHER -> <<c>>

\* Is s UTF-8: as many continuation bytes behind each first byte as it announces?
WellFormed(s) ==
  \A i \in 1 .. Len(s) :
    /\ s[i] = "L" => i + 2 <= Len(s) /\ s[i + 1] = "T" /\ s[i + 2] = "T"
    /\ s[i] = "M" => i + 1 <= Len(s) /\ s[i + 1] = "T"
    /\ s[i] = "T" => \/ i > 1 /\ s[i - 1] \in {"L", "M"}
                     \/ i > 2 /\ s[i - 1] = "T" /\ s[i - 2] = "L"

ASSUME LineEditorAssumption ==
  /\ Typed \subseteq Ascii \cup {"L", "M"}
  /\ Offers \subseteq Seq(Seq(Byte)) \ {<<>>}
  /\ \A lc \in Offers : \A i \in DOMAIN lc : WellFormed(lc[i])
  /\ {MaxLine, MaxHistory} \subseteq Nat \ {0}
  /\ {Prompt, Columns, MaxGiven, MaxKept} \subseteq Nat
  /\ Prompt < Columns   \* otherwise refreshSingleLine loops for ever

-----------------------------------------------------------------------------
(* Bytes and characters.  The lengths are those of well-formed text.       *)

\* The bytes of s from offset i up to offset j.
Piece(s, i, j) == SubSeq(s, i + 1, j)

\* unicodeCombiningCharTable and unicodeWideCharTable, by first bytes.
Combining == {"M"}
Wide      == {"L"}

\* Offsets of s where a grapheme starts or the text ends: in front of
\* anything but a combining mark or a byte that continues a character.
Starts(s) == {i \in 0 .. Len(s) : i = Len(s) \/ s[i + 1] \notin Combining \cup {"T"}}

GraphemeLen(s, p) == IF p = Len(s) THEN 0 ELSE Min({i \in Starts(s) : i > p}) - p

\* (Mutant.  The cursor goes back one byte.)
PrevByteLen(s, p) == IF p = 0 THEN 0 ELSE 1

\* 0 if there is nothing but marks in front of p.
PrevGraphemeLen(s, p) ==
  LET before == {i \in Starts(s) : i < p}
  IN  IF before = {} THEN 0 ELSE p - Max(before)

Count(s, S) == Cardinality({i \in DOMAIN s : s[i] \in S})
Width(s)    == Count(s, Ascii) + 2 * Count(s, Wide)

-----------------------------------------------------------------------------
(* refreshSingleLine: graphemes are dropped from the left until the cursor *)
(* fits, then from the right until the text fits.                          *)

Shown(s, p) ==
  LET from == Min({i \in Starts(s) \cup {0} : Prompt + Width(Piece(s, i, p)) < Columns})
      to   == Max({i \in Starts(s) \cup {from} :
                     i >= from /\ Prompt + Width(Piece(s, from, i)) <= Columns})
  IN  [text |-> Piece(s, from, to), col |-> Prompt + Width(Piece(s, from, p))]

Refresh == screen' = Shown(buf', pos')

\* While completions are offered one of them may be shown in place of the line.
NoOffer == [lc |-> <<>>, i |-> 0]
Offered == offer.i < Len(offer.lc)
Line    == IF Offered THEN offer.lc[offer.i + 1] ELSE buf
Cursor  == IF Offered THEN Len(Line) ELSE pos

ShowOffer == screen' = Shown(Line', Cursor')

-----------------------------------------------------------------------------
(* The history.                                                            *)

\* (Mutant.  AddHistory makes no room.)
AddedToAll(h, line) == IF h # <<>> /\ h[Len(h)] = line THEN h ELSE Append(h, line)

\* AddHistory
Added(h, line) ==
  IF h # <<>> /\ h[Len(h)] = line THEN h
  ELSE Append(IF Len(h) = MaxHistory THEN Tail(h) ELSE h, line)

\* (Mutant.  The entry of the line being edited is not removed.)
PoppedNot(h) == h
Popped(h)    == SubSeq(h, 1, Len(h) - 1)

-----------------------------------------------------------------------------
(* Keys.                                                                   *)

Editing == at = "editing"

\* The line becomes s with the cursor at p.
Becomes(s, p) == buf' = s /\ pos' = p

\* A key that edits the line and does no more than show the result.
Edits(s, p) ==
  /\ Editing
  /\ Becomes(s, p)
  /\ Refresh
  /\ UNCHANGED <<historyVars, offer, at>>

\* The line with the bytes between offsets i and j left out.
Without(i, j) == Piece(buf, 0, i) \o Piece(buf, j, Len(buf))

\* Is all of s on the screen, without scrolling?  (Mutant: off by one.)
FitsExactly(s) == Prompt + Width(s) <= Columns
Fits(s)        == Prompt + Width(s) < Columns

\* The line with bs at the cursor.  (Mutant: at the end.)
WithAtEnd(bs) == buf \o bs
With(bs)      == Piece(buf, 0, pos) \o bs \o Piece(buf, pos, Len(buf))

\* linenoiseEditInsert looks for room for one byte and writes all of c; a
\* character at the end of a line that fits is written to the screen alone.
Insert(c) ==
  /\ Editing
  /\ Len(buf) < MaxLine
  /\ LET bs == Bytes(c)
         s  == With(bs)
     IN  /\ Becomes(s, pos + Len(bs))
         /\ IF pos = Len(buf) /\ Fits(s)
            THEN screen' = [text |-> screen.text \o bs, col |-> screen.col + Width(bs)]
            ELSE Refresh
         /\ at' = IF Len(s) <= MaxLine THEN at ELSE "undefined"
  /\ UNCHANGED <<historyVars, offer>>

MoveLeft  == pos > 0 /\ Edits(buf, pos - PrevGraphemeLen(buf, pos))
MoveRight == pos # Len(buf) /\ Edits(buf, pos + GraphemeLen(buf, pos))
MoveHome  == pos # 0 /\ Edits(buf, 0)
MoveEnd   == pos # Len(buf) /\ Edits(buf, Len(buf))

Delete    == pos < Len(buf) /\ Edits(Without(pos, pos + GraphemeLen(buf, pos)), pos)
Backspace ==
  /\ pos > 0
  /\ LET p == pos - PrevGraphemeLen(buf, pos) IN Edits(Without(p, pos), p)

DeleteLine == Edits(<<>>, 0)
DeleteEnd  == Edits(Piece(buf, 0, pos), pos)

\* The offset where the word before the cursor starts: back over blanks, then
\* over anything else.
WordStart ==
  LET end == Max({i \in 0 .. pos : i = 0 \/ buf[i] # " "})
  IN  Max({i \in 0 .. end : i = 0 \/ buf[i] = " "})
DeletePrevWord == Edits(Without(WordStart, pos), WordStart)

\* Ctrl-t swaps two bytes.  If they are not characters the text is no longer
\* UTF-8, and unicodeColumnPos, called to refresh the line, stays for ever at
\* the first byte it cannot decode.
Transpose ==
  /\ Editing
  /\ pos > 0 /\ pos < Len(buf)
  /\ Becomes([buf EXCEPT ![pos] = buf[pos + 1], ![pos + 1] = buf[pos]],
             IF pos # Len(buf) - 1 THEN pos + 1 ELSE pos)
  /\ IF {buf[pos], buf[pos + 1]} \subseteq Ascii
     THEN Refresh /\ at' = at
     ELSE at' = "stuck" /\ screen' = screen
  /\ UNCHANGED <<historyVars, offer>>

\* What becomes of an index beyond the history.  (Mutant: it stays.)
Unclamped(i) == i
Clamped(i)   == IF i < 0 THEN 0 ELSE Len(history) - 1

Altered == altered' = TRUE /\ given' = <<>>

\* linenoiseEditHistoryNext: the line is put back where it came from in the
\* history, then the next (d = -1) or previous (d = 1) one is fetched.
HistoryNext(d) ==
  /\ Editing
  /\ Len(history) > 1
  /\ Len(buf) <= MaxKept
  /\ LET here == Len(history) - history_index
         i    == history_index + d
     IN  /\ history' = [history EXCEPT ![here] = buf]
         /\ IF history_index > 0 /\ history[here] # buf THEN Altered
            ELSE UNCHANGED <<given, altered>>
         /\ IF i \in 0 .. Len(history) - 1
            THEN /\ history_index' = i
                 /\ LET line == history[Len(history) - i] IN Becomes(line, Len(line))
                 /\ Refresh
            ELSE history_index' = Clamped(i) /\ UNCHANGED lineVars
  /\ UNCHANGED <<offer, at>>

\* Ctrl-l
ClearScreen == Edits(buf, pos)

-----------------------------------------------------------------------------
(* completeLine: each Tab shows the next completion, and after the last    *)
(* one the line itself.                                                    *)

Completing == at = "completing"

Complete(lc) ==
  /\ Editing
  /\ at' = "completing"
  /\ offer' = [lc |-> lc, i |-> 0]
  /\ UNCHANGED <<buf, pos, historyVars>>
  /\ ShowOffer

NextOffer ==
  /\ Completing
  /\ offer' = [offer EXCEPT !.i = (offer.i + 1) % (Len(offer.lc) + 1)]
  /\ UNCHANGED <<buf, pos, historyVars, at>>
  /\ ShowOffer

\* Escape, which is then handled as the first byte of a sequence (see Keys).
Cancel ==
  /\ Completing
  /\ at' = "editing"
  /\ offer' = NoOffer
  /\ UNCHANGED <<buf, pos, historyVars>>
  /\ IF Offered THEN Refresh ELSE screen' = screen

\* Any other key takes what is shown, and is handled next.  snprintf leaves out
\* what the buffer has no room for, but the length is that of the completion:
\* bytes behind the end become part of the line.
Accept ==
  /\ Completing
  /\ Becomes(Line, Cursor)
  /\ at' = IF Offered /\ Len(Line) >= MaxLine THEN "undefined" ELSE "editing"
  /\ offer' = NoOffer
  /\ UNCHANGED <<screen, historyVars>>

-----------------------------------------------------------------------------
(* The loop of debugger::run: a line is read, run and added to the history.*)
(* An empty line has no first word, which run reads all the same.          *)

\* linenoiseEdit up to the first key: the line being edited is the last entry
\* of the history.
NewLine ==
  /\ at = "command" /\ at' = "editing"
  /\ Len(given) < MaxGiven
  /\ history' = Added(history, <<>>)
  /\ UNCHANGED <<lineVars, history_index, given, altered, offer>>

\* The line and all that linenoiseEdit knows of it is gone.
Blank  == [text |-> <<>>, col |-> Prompt]
Leaves == Becomes(<<>>, 0) /\ screen' = Blank /\ history_index' = 0 /\ offer' = NoOffer

Gives(h) ==
  /\ Len(buf) <= MaxKept
  /\ Leaves
  /\ at' = IF buf = <<>> THEN "undefined" ELSE "command"
  /\ history' = Added(h, buf)

Enter ==
  /\ Editing
  /\ Gives(Popped(history))
  /\ given' = IF altered \/ (given # <<>> /\ given[Len(given)] = buf) THEN given
              ELSE Append(given, buf)
  /\ altered' = altered

\* The end of the input, a read error or a byte that starts no character gives
\* the line as Enter does, but leaves the entry of the line in the history.
InputFails ==
  /\ Editing \/ Completing
  /\ Gives(history)
  /\ Altered

CtrlC ==
  /\ Editing
  /\ at' = "quit"
  /\ Leaves
  /\ UNCHANGED <<history, given, altered>>

\* Ctrl-d on an empty line.
EndOfFile ==
  /\ Editing
  /\ buf = <<>>
  /\ at' = "quit"
  /\ Leaves
  /\ history' = Popped(history)
  /\ UNCHANGED <<given, altered>>

-----------------------------------------------------------------------------
Init ==
  /\ at = "command"
  /\ buf = <<>> /\ pos = 0 /\ screen = Blank
  /\ history = <<>> /\ history_index = 0
  /\ given = <<>> /\ altered = FALSE
  /\ offer = NoOffer

Key ==
  \/ \E c \in Typed : Insert(c)
  \/ MoveLeft \/ MoveRight \/ MoveHome \/ MoveEnd
  \/ Delete \/ Backspace \/ DeleteLine \/ DeleteEnd \/ DeletePrevWord
  \/ Transpose \/ ClearScreen
  \/ \E d \in {-1, 1} : HistoryNext(d)

Completion == (\E lc \in Offers : Complete(lc)) \/ NextOffer \/ Cancel \/ Accept

Next == Key \/ Completion \/ NewLine \/ Enter \/ InputFails \/ CtrlC \/ EndOfFile

Spec == Init /\ [][Next]_vars

-----------------------------------------------------------------------------
(* Properties.                                                             *)

\* Is there a whole number of characters on both sides of offset p?
Between(s, p) == WellFormed(Piece(s, 0, p)) /\ WellFormed(Piece(s, p, Len(s)))

(***************************************************************************)
(* The bytes on both sides of the cursor are characters: no key puts the   *)
(* cursor inside one or removes part of one.                               *)
(***************************************************************************)
CursorBetweenCharacters ==
  Editing => pos \in 0 .. Len(buf) /\ Between(buf, pos)

(***************************************************************************)
(* Whatever keys led there, and whether the screen was refreshed or only   *)
(* written to: the cursor is on the screen, at the column of the character *)
(* it is on, and what is shown is a piece of the line, or of the           *)
(* completion offered for it, that fits.  A completion that is accepted is *)
(* the one that was shown.                                                 *)
(***************************************************************************)
CursorOnScreen ==
  Editing \/ Completing =>
    /\ screen.col \in Prompt .. Columns - 1
    /\ Prompt + Width(screen.text) <= Columns
    /\ \E i \in 0 .. Len(Line) :
         /\ screen.text = Piece(Line, i, i + Len(screen.text))
         /\ screen.col = Prompt + Width(Piece(Line, i, Cursor))

(***************************************************************************)
(* The line being edited is an entry of the history, and every entry fits  *)
(* the buffer it is copied to.                                             *)
(***************************************************************************)
RecallFits ==
  Editing =>
    /\ history_index \in 0 .. Len(history) - 1
    /\ \A i \in DOMAIN history : Len(history[i]) <= MaxLine

(***************************************************************************)
(* Types, and what keeps RecallFits: between two lines, too, the entries   *)
(* fit, and the index is where a new line starts.  The history never has   *)
(* more entries than its limit.                                            *)
(***************************************************************************)
LineInv ==
  /\ buf \in Seq(Byte) /\ pos \in 0 .. Len(buf)
  /\ at # "undefined" => Len(buf) <= MaxLine
  /\ history \in Seq(Seq(Byte)) /\ Len(history) <= MaxHistory
  /\ \A i \in 1 .. Len(history) : Len(history[i]) <= MaxLine
  /\ history_index \in Nat
  /\ Editing \/ Completing => history_index < Len(history)
  /\ at = "command" => history_index = 0
  /\ offer \in [lc : Seq(Seq(Byte)), i : Nat]

\* h is the latest lines given: all but one of those there is room for, or all.
IsLatest(h) ==
  \E n \in 0 .. Len(given) :
    /\ h = SubSeq(given, n + 1, Len(given))
    /\ n = 0 \/ Len(h) >= MaxHistory - 1

(***************************************************************************)
(* Between two lines the history is the latest lines given, without        *)
(* repetitions: all but one of those it has room for, or more.  That is so *)
(* although each line being edited takes an entry meanwhile.               *)
(***************************************************************************)
HistoryLatest == at = "command" /\ ~altered => IsLatest(history)

(***************************************************************************)
(* What keeps the other properties, as well.  All lines are well formed:   *)
(* the one being edited, those of the history, and completions.  While a   *)
(* line is edited the history without its entry is the latest lines, and   *)
(* no line that was given is empty.  And the screen is at any time what a  *)
(* refresh would show.                                                     *)
(***************************************************************************)
Awake == at \in {"command", "editing", "completing"}
TextInv ==
  Awake =>
    /\ Between(buf, pos)
    /\ \A i \in DOMAIN history : WellFormed(history[i])
    /\ \A i \in DOMAIN offer.lc : WellFormed(offer.lc[i])
    /\ at # "completing" => offer = NoOffer
    /\ at = "command" => buf = <<>> /\ screen = Blank
HistoryInv ==
  /\ given \in Seq(Seq(Byte))
  /\ Awake => \A i \in DOMAIN given : given[i] # <<>>
  /\ Awake /\ ~altered => IsLatest(IF at = "command" THEN history ELSE Popped(history))
ScreenInv == Awake => screen = Shown(Line, Cursor)
EditorInv == LineInv /\ TextInv /\ HistoryInv /\ ScreenInv

(***************************************************************************)
(* Every key is answered.                                                  *)
(***************************************************************************)
KeysAnswered == at # "stuck"

\* The characters of s, named by their first byte.  Ordinal(s, i) is the number
\* of the one that the byte at i belongs to.
First         == Byte \ {"T"}
Ordinal(s, i) == Count(Piece(s, 0, i), First)
Decoded(s) ==
  LET At(n) == CHOOSE i \in 1 .. Len(s) : s[i] \in First /\ Ordinal(s, i) = n
  IN  [n \in 1 .. Count(s, First) |-> s[At(n)]]

(***************************************************************************)
(* On bytes, each key does what TextLine says of characters.               *)
(***************************************************************************)
Text == INSTANCE TextLine WITH
  Char <- Typed, text <- Decoded(buf), cursor <- Len(Decoded(Piece(buf, 0, pos))),
  remembered <- {Decoded(history[i]) : i \in DOMAIN history},
  Completions <- UNION {{Decoded(lc[i]) : i \in DOMAIN lc} : lc \in Offers}
EditsText == Text!Spec
=============================================================================
