-------------------------------- MODULE Keys --------------------------------
(***************************************************************************)
(* How linenoise.hpp gets keys from a terminal in raw mode.  A key is one  *)
(* or more bytes, which may arrive one by one or many at once, before or   *)
(* after they are asked for; unicodeReadUTF8Char reads the first byte of a *)
(* character and then the rest in one call, linenoiseEdit reads escape     *)
(* sequences byte by byte, and changing the settings of the terminal at    *)
(* the end of a line drops what has arrived and is not read.  A terminal   *)
(* that does not tell how many columns it has is asked for the place of    *)
(* its cursor, and answers among the keys.                                 *)
(***************************************************************************)
EXTENDS Naturals, FiniteSets, SequencesExt

CONSTANTS
  Typed,      \* keys the user types
  MaxKeys,    \* bound (for TLC) on their number
  AnswerRoom  \* bytes read of an answer of the terminal: sizeof(buf) - 1

VARIABLES
  sized,      \* does TIOCGWINSZ tell the columns of the terminal?
  from,       \* start of getColumns: where the cursor was when asked
  column,     \* where the cursor is, at the latest at the prompt
  columns,    \* the columns the line is edited with
  sent,       \* history variable: keys typed, and answers of the terminal
  coming,     \* bytes that have not arrived, each with the index of its key and
              \* (history variable) its own in the bytes of that key
  queue,      \* bytes that have arrived and are not read
  got,        \* bytes read of the present key
  at,         \* the read that comes next ("from" and "to" are those of answers),
              \* "given" between two lines, or "closed"
  open,       \* FALSE when the terminal was hung up
  done,       \* history variable: what was done, for which key
  lost,       \* history variable: keys that were dropped
  cut         \* history variable: were bytes of one key separated by a call,
              \* or was an answer not waited for?

width == <<sized, from, column, columns>>
vars  == <<width, sent, coming, queue, got, at, open, done, lost, cut>>

\* Bytes: "lead2" to "lead4" start characters of so many bytes, "more" continues
\* one; "tab" stands for all keys of one byte with a meaning of their own.
Bytes(k) ==
  CASE k = "wide"   -> <<"lead3", "more", "more">>
    [] k = "accent" -> <<"lead2", "more">>
    [] k = "emoji"  -> <<"lead4", "more", "more", "more">>
    [] k = "left"   -> <<"esc", "[", "D">>
    [] k = "home"   -> <<"esc", "O", "H">>
    [] k = "delete" -> <<"esc", "[", "digit3", "~">>
    [] k = "pageup" -> <<"esc", "[", "digit5", "~">>
    [] k = "atStart"  -> <<"esc", "[", "digit5", ";", "column1", "R">>
    [] k = "atMargin" -> <<"esc", "[", "digit5", ";", "column2", "R">>
    [] OTHER        -> <<k>>

Simple == {"letter", "tab", "enter", "R"}
Known  == Simple \cup {"accent", "wide", "emoji", "left", "home", "delete", "pageup"}

Answers == {"atStart", "atMargin"}

ASSUME KeysAssumption ==
  /\ Typed \subseteq Known
  /\ MaxKeys \in Nat
  /\ AnswerRoom \in Nat /\ \A k \in Answers : Len(Bytes(k)) <= AnswerRoom

\* Columns: the one the cursor is in when a line begins, the last one, and what
\* is assumed of a terminal that cannot tell.
Start == 1
Margin == 2
Assumed == 80

\* What a key is for.  The editor has no use for PageUp.
Meaning(k) == IF k = "pageup" THEN "nothing" ELSE k

-----------------------------------------------------------------------------
Init ==
  /\ sized \in BOOLEAN
  /\ from = Start /\ column = Start /\ columns = Assumed
  /\ sent = <<>> /\ coming = <<>> /\ queue = <<>> /\ got = <<>>
  /\ at = "given" /\ open = TRUE
  /\ done = <<>> /\ lost = {} /\ cut = FALSE

KeysOf(bytes) == {bytes[i].key : i \in DOMAIN bytes}

Sends(k) ==
  /\ sent' = Append(sent, k)
  /\ coming' = coming \o [i \in DOMAIN Bytes(k) |-> [key |-> Len(sent'), nth |-> i, byte |-> Bytes(k)[i]]]

TypedKeys == {i \in DOMAIN sent : sent[i] \notin Answers}

Type(k) ==
  /\ open /\ Cardinality(TypedKeys) < MaxKeys
  /\ Sends(k)
  /\ UNCHANGED <<width, queue, got, at, open, done, lost, cut>>

Arrive(n) ==
  /\ queue' = queue \o SubSeq(coming, 1, n)
  /\ coming' = SubSeq(coming, n + 1, Len(coming))
  /\ UNCHANGED <<width, sent, got, at, open, done, lost, cut>>

\* The terminal is closed; what has not arrived is lost.
HangUp ==
  /\ open /\ open' = FALSE
  /\ coming' = <<>> /\ lost' = lost \cup KeysOf(coming)
  /\ cut' = (cut \/ KeysOf(coming) \cap (KeysOf(queue) \cup KeysOf(got)) # {})
  /\ UNCHANGED <<width, sent, queue, got, at, done>>

-----------------------------------------------------------------------------
(* Reading.  A read waits for at least one byte, or for the terminal to be *)
(* closed.                                                                 *)

Does(what, key) == done' = Append(done, [key |-> key, what |-> what])

\* The next byte is read, and the read of place follows.
Reads(place) ==
  /\ queue # <<>>
  /\ queue' = Tail(queue)
  /\ got' = Append(got, Head(queue))
  /\ at' = place
  /\ UNCHANGED <<width, sent, coming, open, done, lost, cut>>

\* The next byte is read, and is the last one of what means something.
Ends(what, place) ==
  /\ queue # <<>>
  /\ queue' = Tail(queue)
  /\ Does(what, Head(queue).key)
  /\ got' = <<>>
  /\ at' = place
  /\ UNCHANGED <<width, sent, coming, open, lost, cut>>

\* The first byte of a key.  One that starts no character ends the line.
First ==
  /\ at = "first" /\ queue # <<>>
  /\ LET b == Head(queue).byte IN
       \/ b \in {"lead2", "lead3", "lead4"} /\ Reads("rest")
       \/ b = "esc" /\ Reads("second")
       \/ b = "enter" /\ Ends("enter", "given")
       \/ b = "more" /\ Ends("failure", "given")
       \/ b \notin {"lead2", "lead3", "lead4", "esc", "enter", "more"}
          /\ Ends(IF b \in Simple THEN b ELSE "letter", "first")

\* Bytes after the first one.  (Mutant: as if all characters had two.)
MissingOne(b) == 1
Missing(b)    == CASE b = "lead2" -> 1 [] b = "lead3" -> 2 [] b = "lead4" -> 3

Lesser(m, n) == IF m < n THEN m ELSE n

\* One call reads what is missing of a character or what there is of it, and
\* whatever was read counts as the character; the bytes may be anything.
Rest ==
  /\ at = "rest" /\ queue # <<>>
  /\ LET missing == Missing(got[1].byte)
         n       == Lesser(missing, Len(queue))
         read    == got \o SubSeq(queue, 1, n)
         k       == got[1].key
     IN  /\ queue' = SubSeq(queue, n + 1, Len(queue))
         /\ Does(IF [i \in DOMAIN read |-> read[i].byte] = Bytes(sent[k]) THEN sent[k] ELSE "garbage", k)
         /\ cut' = (cut \/ k \in KeysOf(coming))
  /\ got' = <<>> /\ at' = "first"
  /\ UNCHANGED <<width, sent, coming, open, lost>>

\* Both bytes behind an escape are read before one is looked at.
Second == at = "second" /\ Reads("third")

\* Does another byte belong to the sequence?  (Mutant: after "[" always.)
ExtendedAlways(second, third) == second = "["
Extended(second, third)       == second = "[" /\ third \in {"digit3", "digit5"}

Third ==
  /\ at = "third" /\ queue # <<>>
  /\ LET second == got[2].byte
         third  == Head(queue).byte
     IN  IF Extended(second, third) THEN Reads("fourth")
         ELSE Ends(CASE <<second, third>> = <<"[", "D">> -> "left"
                     [] <<second, third>> = <<"O", "H">> -> "home"
                     [] OTHER -> "nothing", "first")

Fourth ==
  /\ at = "fourth" /\ queue # <<>>
  /\ Ends(IF Head(queue).byte = "~" /\ got[3].byte = "digit3" THEN "delete" ELSE "nothing", "first")

Closed == ~open /\ queue = <<>>

\* A character is given up at the end of the input, and the line is given.
EndOfInput ==
  /\ at \in {"first", "rest"} /\ Closed
  /\ got' = <<>> /\ at' = "closed"
  /\ UNCHANGED <<width, sent, coming, queue, open, done, lost, cut>>

\* In an escape sequence the end is taken for a byte, whatever there was in seq;
\* the next key finds the end again.
EndInEscape ==
  /\ at \in {"second", "third", "fourth"} /\ Closed
  /\ \E what \in {"nothing", "left", "home", "delete"} : Does(what, got[1].key)
  /\ got' = <<>> /\ at' = "first"
  /\ UNCHANGED <<width, sent, coming, queue, open, lost, cut>>

-----------------------------------------------------------------------------
(* Between two lines, and the width of the terminal.                       *)

\* getCursorPosition asks; the terminal answers behind what was typed.
Ask(k, place) ==
  /\ at' = place
  /\ IF open THEN Sends(k) ELSE UNCHANGED <<sent, coming>>

\* The line ran; disableRawMode, and enableRawMode for the next line, drop what
\* has arrived (TCSAFLUSH).
NextLine ==
  /\ at = "given"
  /\ queue' = <<>> /\ lost' = lost \cup KeysOf(queue)
  /\ cut' = (cut \/ KeysOf(queue) \cap KeysOf(coming) # {})
  /\ column' = Start
  /\ \/ sized /\ columns' = Margin /\ at' = "first" /\ UNCHANGED <<sent, coming>>
     \/ ~sized /\ Ask("atStart", "from") /\ UNCHANGED columns
  /\ UNCHANGED <<sized, from, got, open, done>>

\* What stands in buf starts as an answer; the R may be missing.
IsAnswer(bytes, k) ==
  LET Numbers == SubSeq(Bytes(k), 1, 5) IN
    Len(bytes) >= 5 /\ [i \in 1 .. 5 |-> bytes[i].byte] = Numbers

\* How far the cursor goes back from the margin.  (Mutant: too far.)
BackToZero(start, cols) == cols
Back(start, cols)       == cols - start

\* There is no (right) answer in what was read, the keys in it are gone.  An
\* answer that was not read is going to be taken for keys.
NoAnswer(bytes) ==
  /\ columns' = Assumed /\ at' = "first"
  /\ lost' = lost \cup KeysOf(bytes)
  /\ cut' = (cut \/ \E k \in KeysOf(coming) \cup KeysOf(queue') :
                      sent[k] \in Answers \/ k \in KeysOf(bytes))
  /\ UNCHANGED <<sized, from, column, sent, coming, done>>

\* The cursor goes to the margin, and the terminal is asked again.
AtStart(bytes, start) ==
  /\ from' = start /\ column' = Margin
  /\ Ask("atMargin", "to")
  /\ Does(sent[bytes[1].key], bytes[1].key)
  /\ UNCHANGED <<sized, columns, lost, cut>>

AtMargin(bytes, cols) ==
  /\ columns' = cols /\ at' = "first"
  /\ column' = IF cols > from THEN column - Back(from, cols) ELSE column
  /\ Does(sent[bytes[1].key], bytes[1].key)
  /\ UNCHANGED <<sized, from, sent, coming, lost, cut>>

Parse(bytes) ==
  /\ got' = <<>>
  /\ IF \E k \in Answers : IsAnswer(bytes, k)
     THEN LET c == IF IsAnswer(bytes, "atStart") THEN Start ELSE Margin IN
            IF at = "from" THEN AtStart(bytes, c) ELSE AtMargin(bytes, c)
     ELSE NoAnswer(bytes)

\* The loop of getCursorPosition: up to an R, or as much as there is room for.
ReadAnswer ==
  /\ at \in {"from", "to"} /\ queue # <<>>
  /\ LET read == Append(got, Head(queue)) IN
       IF Head(queue).byte = "R" \/ Len(read) = AnswerRoom
       THEN queue' = Tail(queue) /\ Parse(read) /\ UNCHANGED open
       ELSE Reads(at)

EndInAnswer ==
  /\ at \in {"from", "to"} /\ Closed
  /\ UNCHANGED <<queue, open>>
  /\ Parse(got)

Reader == First \/ Rest \/ Second \/ Third \/ Fourth \/ EndOfInput \/ EndInEscape

Next ==
  \/ \E k \in Typed : Type(k)
  \/ \E n \in 1 .. Len(coming) : Arrive(n)
  \/ HangUp \/ Reader \/ NextLine \/ ReadAnswer \/ EndInAnswer

Spec == Init /\ [][Next]_vars

-----------------------------------------------------------------------------
(***************************************************************************)
(* However the bytes arrive, as long as no call comes between the bytes of *)
(* a key: each key does what it is for, in the order typed, and no key but *)
(* those dropped between two lines is left out.                            *)
(***************************************************************************)
KeysDecoded ==
  ~cut =>
    /\ \A i \in DOMAIN done : done[i].what = Meaning(sent[done[i].key])
    /\ \A i, j \in DOMAIN done : i < j => done[i].key < done[j].key
    /\ coming = <<>> /\ queue = <<>> /\ got = <<>> =>
         DOMAIN sent = lost \cup {done[i].key : i \in DOMAIN done}

(***************************************************************************)
(* A read waits only for the start of a key or for bytes of one that are   *)
(* on their way: when all that was typed has arrived and is read, the next *)
(* key is understood on its own.  And while an answer is read, it is going *)
(* to come.                                                                *)
(***************************************************************************)
WaitsForItsBytes ==
  LET pending == KeysOf(coming) \cup KeysOf(queue) IN
  ~cut /\ open =>
    /\ at \in {"rest", "second", "third", "fourth"} => got[1].key \in pending
    /\ at \in {"from", "to"} => \E k \in pending : sent[k] \in Answers

(***************************************************************************)
(* A line is edited with the columns the terminal has, and begins where    *)
(* the last command left the cursor; unless a key came between the         *)
(* question and the answer, or the terminal was closed.                    *)
(***************************************************************************)
WidthAsked ==
  ~cut /\ open /\ at \notin {"given", "from", "to"} =>
    \/ columns = Margin /\ column = Start
    \/ /\ ~sized /\ columns = Assumed
       /\ \E k \in lost : /\ sent[k] \in Answers /\ k - 1 \in lost \cap TypedKeys
                         /\ DOMAIN sent \ TypedKeys \subseteq 1 .. k
=============================================================================
