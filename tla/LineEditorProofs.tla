-------------------------- MODULE LineEditorProofs --------------------------
(***************************************************************************)
(* Proofs about the line editor, for every set of characters, every size   *)
(* of the buffer and of the history, and every terminal.                   *)
(***************************************************************************)
EXTENDS LineEditor, SequenceTheorems, WellFoundedInduction, TLAPS

-----------------------------------------------------------------------------
(* What the helpers return.                                                *)

\* A set of naturals has a smallest element, and one with a bound a largest.
LEMMA Smallest ==
  ASSUME NEW S, S \subseteq Nat, S # {}
  PROVE  \E x \in S : \A y \in S : x <= y
<1>1. PICK x \in S : \A y \in S : ~(<<y, x>> \in OpToRel(<, Nat))
  BY WFMin, NatLessThanWellFounded
<1>2. ASSUME NEW y \in S PROVE x <= y
  <2>1. y < x => <<y, x>> \in OpToRel(<, Nat)
    <3>1. <<y, x>> \in Nat \X Nat
      OBVIOUS
    <3> QED BY <3>1 DEF OpToRel
  <2>2. ~(y < x)
    BY <1>1, <2>1
  <2>3. x \in Nat /\ y \in Nat
    OBVIOUS
  <2> QED BY <2>2, <2>3
<1> QED BY <1>2

LEMMA MinIn ==
  ASSUME NEW S, S \subseteq Nat, S # {}
  PROVE  Min(S) \in S
BY Smallest DEF Min

LEMMA MaxIn ==
  ASSUME NEW n \in Nat, NEW S, S \subseteq 0 .. n, S # {}
  PROVE  Max(S) \in S
<1> DEFINE T == {n - i : i \in S}
<1>1. \A i \in S : i \in 0 .. n /\ n - i \in Nat
  OBVIOUS
<1>2. T \subseteq Nat /\ T # {}
  BY <1>1
<1>3. PICK x \in T : \A y \in T : x <= y
  BY <1>2, Smallest
<1>4. PICK i \in S : x = n - i
  BY <1>3
<1>5. \A j \in S : n - i <= n - j
  BY <1>3, <1>4
<1>6. \A j \in S : i >= j
  BY <1>1, <1>5
<1> QED BY <1>6 DEF Max

LEMMA PieceType ==
  ASSUME NEW s \in Seq(Byte), NEW i \in Nat, NEW j \in Nat, i <= j, j <= Len(s)
  PROVE  Piece(s, i, j) \in Seq(Byte) /\ Len(Piece(s, i, j)) = j - i
BY DEF Piece

LEMMA WithoutType ==
  ASSUME buf \in Seq(Byte), NEW i \in Nat, NEW j \in Nat, i <= j, j <= Len(buf)
  PROVE  Without(i, j) \in Seq(Byte) /\ Len(Without(i, j)) = Len(buf) - (j - i)
<1> DEFINE n == Len(buf)
<1>1. n \in Nat /\ i <= n /\ j <= n /\ 0 <= i /\ 0 \in Nat /\ n = Len(buf) /\ n <= Len(buf)
  OBVIOUS
<1> HIDE DEF n
<1>2. Piece(buf, 0, i) \in Seq(Byte) /\ Len(Piece(buf, 0, i)) = i - 0
  BY <1>1, PieceType
<1>3. Piece(buf, j, n) \in Seq(Byte) /\ Len(Piece(buf, j, n)) = n - j
  BY <1>1, PieceType
<1>4. Without(i, j) = Piece(buf, 0, i) \o Piece(buf, j, n)
  BY <1>1 DEF Without
<1>5. /\ Without(i, j) \in Seq(Byte)
      /\ Len(Without(i, j)) = Len(Piece(buf, 0, i)) + Len(Piece(buf, j, n))
  BY <1>2, <1>3, <1>4, ConcatProperties
<1> QED BY <1>1, <1>2, <1>3, <1>5

\* Going a grapheme to the right or to the left stays in the line.
LEMMA GraphemeLenBound ==
  ASSUME NEW s \in Seq(Byte), NEW p \in 0 .. Len(s)
  PROVE  GraphemeLen(s, p) \in 0 .. Len(s) - p
<1>1. CASE p = Len(s)
  BY <1>1 DEF GraphemeLen
<1>2. CASE p # Len(s)
  <2> DEFINE S == {i \in Starts(s) : i > p}
  <2>1. S \subseteq Nat /\ S \subseteq 0 .. Len(s) /\ Len(s) \in S
    BY <1>2 DEF Starts
  <2>2. Min(S) \in S
    BY <2>1, MinIn
  <2>3. Min(S) > p /\ Min(S) \in 0 .. Len(s)
    BY <2>1, <2>2
  <2>4. GraphemeLen(s, p) = Min(S) - p
    BY <1>2 DEF GraphemeLen
  <2> QED BY <2>3, <2>4
<1> QED BY <1>1, <1>2

LEMMA PrevGraphemeLenBound ==
  ASSUME NEW s \in Seq(Byte), NEW p \in 0 .. Len(s)
  PROVE  PrevGraphemeLen(s, p) \in 0 .. p
<1> DEFINE S == {i \in Starts(s) : i < p}
<1>1. CASE S = {}
  BY <1>1 DEF PrevGraphemeLen
<1>2. CASE S # {}
  <2>1. S \subseteq 0 .. p /\ p \in Nat /\ p \in Int
    <3>1. Len(s) \in Nat
      OBVIOUS
    <3>2. p \in Nat
      BY <3>1
    <3>3. \A i \in S : i \in 0 .. Len(s) /\ i < p
      BY DEF Starts
    <3> HIDE DEF S
    <3> QED BY <3>1, <3>2, <3>3
  <2>2. PrevGraphemeLen(s, p) = p - Max(S)
    BY <1>2 DEF PrevGraphemeLen
  <2> HIDE DEF S
  <2>3. Max(S) \in S
    BY <1>2, <2>1, MaxIn
  <2>4. Max(S) \in 0 .. p
    BY <2>1, <2>3
  <2> QED BY <2>1, <2>2, <2>4
<1> QED BY <1>1, <1>2

LEMMA WordStartBound ==
  ASSUME buf \in Seq(Byte), pos \in 0 .. Len(buf)
  PROVE  WordStart \in 0 .. pos
<1> DEFINE S == {i \in 0 .. pos : i = 0 \/ buf[i] # " "}
           end == Max(S)
           T == {i \in 0 .. end : i = 0 \/ buf[i] = " "}
<1>1. pos \in Nat
  <2>1. Len(buf) \in Nat
    OBVIOUS
  <2> QED BY <2>1
<1>2. 0 \in S /\ S \subseteq 0 .. pos
  <2>1. 0 \in 0 .. pos
    BY <1>1
  <2> QED BY <2>1
<1>3. end \in 0 .. pos
  <2> HIDE DEF S
  <2>1. Max(S) \in S
    BY <1>1, <1>2, MaxIn
  <2> QED BY <1>2, <2>1
<1>4. WordStart = Max(T)
  BY DEF WordStart
<1> HIDE DEF S, end
<1>5. end \in Nat
  BY ONLY <1>1, <1>3
<1>6. 0 \in T /\ T \subseteq 0 .. end
  <2>1. 0 \in 0 .. end
    BY ONLY <1>5
  <2> QED BY <2>1
<1> HIDE DEF T
<1>7. Max(T) \in 0 .. end
  BY <1>5, <1>6, MaxIn
<1> QED BY ONLY <1>1, <1>3, <1>4, <1>5, <1>7

\* A history of lines that fit is one after AddHistory and after pop_back.
LEMMA AddedType ==
  ASSUME NEW h \in Seq(Seq(Byte)), Len(h) <= MaxHistory, NEW line \in Seq(Byte),
         \A i \in 1 .. Len(h) : Len(h[i]) <= MaxLine, Len(line) <= MaxLine
  PROVE  /\ Added(h, line) \in Seq(Seq(Byte)) /\ Len(Added(h, line)) <= MaxHistory
         /\ \A i \in 1 .. Len(Added(h, line)) : Len(Added(h, line)[i]) <= MaxLine
         /\ Len(Added(h, line)) > 0
<1> USE LineEditorAssumption
<1>1. MaxHistory \in Nat \ {0} /\ MaxLine \in Nat \ {0}
  OBVIOUS
<1>2. CASE h # <<>> /\ h[Len(h)] = line
  BY <1>2 DEF Added
<1>3. CASE ~(h # <<>> /\ h[Len(h)] = line) /\ Len(h) = MaxHistory
  <2>1. Added(h, line) = Append(Tail(h), line)
    BY <1>3 DEF Added
  <2>2. /\ Tail(h) \in Seq(Seq(Byte)) /\ Len(Tail(h)) = MaxHistory - 1
        /\ \A i \in 1 .. MaxHistory - 1 : Tail(h)[i] = h[i + 1]
    BY <1>1, <1>3
  <2> QED BY <1>1, <1>3, <2>1, <2>2
<1>4. CASE ~(h # <<>> /\ h[Len(h)] = line) /\ Len(h) # MaxHistory
  <2>1. Added(h, line) = Append(h, line)
    BY <1>4 DEF Added
  <2> QED BY <1>1, <1>4, <2>1
<1> QED BY <1>2, <1>3, <1>4

LEMMA PoppedType ==
  ASSUME NEW h \in Seq(Seq(Byte)), Len(h) <= MaxHistory, Len(h) > 0,
         \A i \in 1 .. Len(h) : Len(h[i]) <= MaxLine
  PROVE  /\ Popped(h) \in Seq(Seq(Byte)) /\ Len(Popped(h)) <= MaxHistory
         /\ \A i \in 1 .. Len(Popped(h)) : Len(Popped(h)[i]) <= MaxLine
<1>1. MaxHistory \in Nat /\ Len(h) \in Nat
  BY LineEditorAssumption
<1> DEFINE n == Len(h) - 1
<1>2. n \in 0 .. Len(h) /\ n \in Nat
  BY <1>1
<1>3. Popped(h) = SubSeq(h, 1, n)
  BY DEF Popped
<1> HIDE DEF n
<1>4. Popped(h) \in Seq(Seq(Byte)) /\ Len(Popped(h)) = n
  BY <1>1, <1>2, <1>3
<1>5. \A i \in 1 .. n : i \in 1 .. Len(h) /\ Popped(h)[i] = h[i]
  BY <1>1, <1>2, <1>3
<1>6. n <= MaxHistory
  BY <1>1, <1>2
<1> QED BY <1>4, <1>5, <1>6

-----------------------------------------------------------------------------
(* The invariant: one lemma per way a step changes the line.               *)

\* A key that leaves a line that fits, with the cursor in it.
LEMMA EditsKeep ==
  ASSUME LineInv, NEW s \in Seq(Byte), NEW p \in 0 .. Len(s), Len(s) <= MaxLine,
         Edits(s, p)
  PROVE  LineInv'
BY DEF LineInv, Edits, Editing, Completing, Becomes, historyVars

\* Every other key than a character, ctrl-t and the arrows up and down.
LEMMA EditingKeys ==
  ASSUME LineInv,
         \/ MoveLeft \/ MoveRight \/ MoveHome \/ MoveEnd
         \/ Delete \/ Backspace \/ DeleteLine \/ DeleteEnd \/ DeletePrevWord \/ ClearScreen
  PROVE  LineInv'
<1> DEFINE n == Len(buf)
<1>1. /\ buf \in Seq(Byte) /\ n \in Nat /\ pos \in 0 .. Len(buf) /\ pos \in Nat
      /\ Len(buf) <= MaxLine /\ MaxLine \in Nat
      /\ pos <= Len(buf) /\ n = Len(buf)
  <2>1. Editing
    BY DEF MoveLeft, MoveRight, MoveHome, MoveEnd, Delete, Backspace, DeleteLine,
           DeleteEnd, DeletePrevWord, ClearScreen, Edits
  <2>2. buf \in Seq(Byte) /\ pos \in 0 .. Len(buf) /\ Len(buf) <= MaxLine
    BY <2>1 DEF LineInv, Editing, Completing
  <2>3. Len(buf) \in Nat /\ MaxLine \in Nat
    BY <2>2, LineEditorAssumption
  <2>4. pos \in Nat /\ pos <= Len(buf)
    BY <2>2, <2>3
  <2> QED BY <2>2, <2>3, <2>4
<1> HIDE DEF n
\* An edit that keeps a piece of the line.
<1>2. ASSUME NEW i \in 0 .. n, NEW j \in 0 .. n, i <= j
      PROVE  /\ Without(i, j) \in Seq(Byte) /\ Len(Without(i, j)) <= MaxLine
             /\ i \in 0 .. Len(Without(i, j))
  <2>1. i \in Nat /\ j \in Nat /\ j <= Len(buf)
    BY <1>1
  <2>2. Without(i, j) \in Seq(Byte) /\ Len(Without(i, j)) = Len(buf) - (j - i)
    BY <1>1, <1>2, <2>1, WithoutType
  <2> QED BY <1>1, <1>2, <2>1, <2>2
<1>3. CASE MoveLeft
  <2>1. PrevGraphemeLen(buf, pos) \in 0 .. pos
    BY <1>1, PrevGraphemeLenBound
  <2>2. pos - PrevGraphemeLen(buf, pos) \in 0 .. Len(buf)
    BY <1>1, <2>1
  <2> QED BY <1>1, <1>3, <2>2, EditsKeep DEF MoveLeft
<1>4. CASE MoveRight
  <2>1. GraphemeLen(buf, pos) \in 0 .. Len(buf) - pos
    BY <1>1, GraphemeLenBound
  <2>2. pos + GraphemeLen(buf, pos) \in 0 .. Len(buf)
    BY <1>1, <2>1
  <2> QED BY <1>1, <1>4, <2>2, EditsKeep DEF MoveRight
<1>5. CASE MoveHome
  <2>1. 0 \in 0 .. Len(buf)
    BY <1>1
  <2> QED BY <1>1, <1>5, <2>1, EditsKeep DEF MoveHome
<1>6. CASE MoveEnd
  <2>1. Len(buf) \in 0 .. Len(buf)
    BY <1>1
  <2> QED BY <1>1, <1>6, <2>1, EditsKeep DEF MoveEnd
<1>7. CASE Delete
  <2>1. GraphemeLen(buf, pos) \in 0 .. Len(buf) - pos
    BY <1>1, GraphemeLenBound
  <2> DEFINE q == pos + GraphemeLen(buf, pos)
  <2>2. q \in 0 .. n /\ pos \in 0 .. n /\ pos <= q
    BY <1>1, <2>1
  <2>3. Edits(Without(pos, q), pos)
    BY <1>7 DEF Delete
  <2> HIDE DEF q
  <2> QED BY <1>2, <2>2, <2>3, EditsKeep
<1>8. CASE Backspace
  <2>1. PrevGraphemeLen(buf, pos) \in 0 .. pos
    BY <1>1, PrevGraphemeLenBound
  <2> DEFINE p == pos - PrevGraphemeLen(buf, pos)
  <2>2. p \in 0 .. n /\ pos \in 0 .. n /\ p <= pos
    BY <1>1, <2>1
  <2>3. Edits(Without(p, pos), p)
    BY <1>8 DEF Backspace
  <2> HIDE DEF p
  <2> QED BY <1>2, <2>2, <2>3, EditsKeep
<1>9. CASE DeleteLine
  <2>1. <<>> \in Seq(Byte) /\ Len(<<>>) = 0 /\ 0 \in 0 .. 0 /\ 0 <= MaxLine
    BY <1>1
  <2>2. Edits(<<>>, 0)
    BY <1>9 DEF DeleteLine
  <2> QED BY <2>1, <2>2, EditsKeep
<1>10. CASE DeleteEnd
  <2>1. 0 \in Nat /\ 0 <= pos /\ pos - 0 = pos
    BY <1>1
  <2>2. Piece(buf, 0, pos) \in Seq(Byte) /\ Len(Piece(buf, 0, pos)) = pos
    <3>1. Piece(buf, 0, pos) \in Seq(Byte) /\ Len(Piece(buf, 0, pos)) = pos - 0
      BY <1>1, <2>1, PieceType
    <3> QED BY <2>1, <3>1
  <2>3. pos \in 0 .. pos /\ pos <= MaxLine
    BY <1>1
  <2>4. Edits(Piece(buf, 0, pos), pos)
    BY <1>10 DEF DeleteEnd
  <2> QED BY <2>2, <2>3, <2>4, EditsKeep
<1>11. CASE DeletePrevWord
  <2>1. WordStart \in 0 .. pos
    BY <1>1, WordStartBound
  <2>2. WordStart \in 0 .. n /\ pos \in 0 .. n /\ WordStart <= pos
    BY <1>1, <2>1
  <2>3. Edits(Without(WordStart, pos), WordStart)
    BY <1>11 DEF DeletePrevWord
  <2> HIDE DEF WordStart
  <2> QED BY <1>2, <2>2, <2>3, EditsKeep
<1>12. CASE ClearScreen
  <2>1. pos \in 0 .. Len(buf)
    BY <1>1
  <2> QED BY <1>1, <1>12, <2>1, EditsKeep DEF ClearScreen
<1> QED BY <1>3, <1>4, <1>5, <1>6, <1>7, <1>8, <1>9, <1>10, <1>11, <1>12

\* A character: the one key that may leave a line that does not fit.
LEMMA InsertKeeps ==
  ASSUME LineInv, NEW c \in Typed, Insert(c)
  PROVE  LineInv'
<1> DEFINE n == Len(buf)
           bs == Bytes(c)
<1>1. /\ buf \in Seq(Byte) /\ n \in Nat /\ pos \in 0 .. n /\ pos \in Nat
      /\ MaxLine \in Nat /\ n = Len(buf) /\ n <= Len(buf)
  <2>1. buf \in Seq(Byte) /\ pos \in 0 .. Len(buf)
    BY DEF LineInv
  <2>2. Len(buf) \in Nat /\ MaxLine \in Nat
    BY <2>1, LineEditorAssumption
  <2> QED BY <2>1, <2>2
<1>2. bs \in Seq(Byte)
  <2>1. c \in {"a", " ", "L", "M"}
    BY LineEditorAssumption DEF Ascii
  <2>2. c = "L" => bs = <<"L", "T", "T">>
    BY DEF Bytes
  <2>3. c = "M" => bs = <<"M", "T">>
    BY DEF Bytes
  <2>4. c \in Ascii => bs = <<c>>
    BY DEF Bytes, Ascii
  <2>5. "L" \in Byte /\ "M" \in Byte /\ "T" \in Byte /\ Ascii \subseteq Byte
    BY DEF Byte
  <2> HIDE DEF bs
  <2>6. CASE c = "L"
    <3>1. <<"L", "T", "T">> \in Seq(Byte)
      BY ONLY <2>5
    <3> QED BY <2>2, <2>6, <3>1
  <2>7. CASE c = "M"
    <3>1. <<"M", "T">> \in Seq(Byte)
      BY ONLY <2>5
    <3> QED BY <2>3, <2>7, <3>1
  <2>8. CASE c \in Ascii
    BY <2>4, <2>5, <2>8
  <2> QED BY <2>1, <2>6, <2>7, <2>8 DEF Ascii
<1>3. Editing /\ Becomes(With(bs), pos + Len(bs)) /\ UNCHANGED <<historyVars, offer>>
      /\ at' = IF Len(With(bs)) <= MaxLine THEN at ELSE "undefined"
  BY DEF Insert
<1> HIDE DEF n, bs
<1>4. With(bs) \in Seq(Byte) /\ pos + Len(bs) \in 0 .. Len(With(bs))
  <2>1. 0 \in Nat /\ 0 <= pos /\ pos <= n /\ pos <= Len(buf) /\ pos - 0 = pos
    BY <1>1
  <2>2. Piece(buf, 0, pos) \in Seq(Byte) /\ Len(Piece(buf, 0, pos)) = pos - 0
    BY <1>1, <2>1, PieceType
  <2>3. Piece(buf, pos, n) \in Seq(Byte) /\ Len(Piece(buf, pos, n)) = n - pos
    BY <1>1, <2>1, PieceType
  <2>4. With(bs) = Piece(buf, 0, pos) \o bs \o Piece(buf, pos, n)
    BY <1>1 DEF With
  <2>5. /\ Piece(buf, 0, pos) \o bs \in Seq(Byte)
        /\ Len(Piece(buf, 0, pos) \o bs) = Len(Piece(buf, 0, pos)) + Len(bs)
    BY <1>2, <2>2, ConcatProperties
  <2>6. /\ With(bs) \in Seq(Byte)
        /\ Len(With(bs)) = Len(Piece(buf, 0, pos) \o bs) + Len(Piece(buf, pos, n))
    BY <2>3, <2>4, <2>5, ConcatProperties
  <2>7. Len(bs) \in Nat
    BY <1>2
  <2> QED BY <1>1, <2>1, <2>2, <2>3, <2>5, <2>6, <2>7
<1>5. buf' \in Seq(Byte) /\ pos' \in 0 .. Len(buf')
  BY <1>3, <1>4 DEF Becomes
<1>6. at' # "undefined" => Len(buf') <= MaxLine
  BY <1>3 DEF Becomes
<1>7. /\ history' = history /\ history_index' = history_index
      /\ at' \in {at, "undefined"} /\ at = "editing" /\ offer' = offer
  BY <1>3 DEF historyVars, Editing
<1> QED BY <1>5, <1>6, <1>7 DEF LineInv, Editing, Completing

LEMMA TransposeKeeps ==
  ASSUME LineInv, Transpose
  PROVE  LineInv'
<1>1. /\ buf \in Seq(Byte) /\ pos \in 0 .. Len(buf) /\ Len(buf) \in Nat
      /\ Editing /\ pos > 0 /\ pos < Len(buf) /\ Len(buf) <= MaxLine
  <2>1. Editing /\ pos > 0 /\ pos < Len(buf)
    BY DEF Transpose
  <2>2. buf \in Seq(Byte) /\ pos \in 0 .. Len(buf) /\ Len(buf) <= MaxLine
    BY <2>1 DEF LineInv, Editing, Completing
  <2> QED BY <2>1, <2>2
<1>2. pos \in 1 .. Len(buf) /\ pos + 1 \in 1 .. Len(buf)
  BY <1>1
<1>3. buf' \in Seq(Byte) /\ Len(buf') = Len(buf)
  <2>1. buf' = [buf EXCEPT ![pos] = buf[pos + 1], ![pos + 1] = buf[pos]]
    BY DEF Transpose, Becomes
  <2>2. buf[pos] \in Byte /\ buf[pos + 1] \in Byte
    BY <1>1, <1>2
  <2> QED BY <1>1, <1>2, <2>1, <2>2
<1>4. pos' \in 0 .. Len(buf')
  <2>1. pos' = pos + 1 \/ pos' = pos
    BY DEF Transpose, Becomes
  <2> QED BY <1>1, <1>3, <2>1
<1>5. /\ history' = history /\ history_index' = history_index
      /\ at' \in {at, "stuck"} /\ at = "editing" /\ offer' = offer
  BY DEF Transpose, historyVars, Editing
<1> QED BY <1>1, <1>3, <1>4, <1>5 DEF LineInv, Editing, Completing

\* Up and down: the line that is put back fits, so does the one fetched.
LEMMA HistoryNextKeeps ==
  ASSUME LineInv, NEW d \in {-1, 1}, HistoryNext(d)
  PROVE  LineInv'
<1> DEFINE n    == Len(history)
           here == n - history_index
           i    == history_index + d
<1>1. /\ buf \in Seq(Byte) /\ pos \in 0 .. Len(buf) /\ Len(buf) <= MaxLine
      /\ history \in Seq(Seq(Byte)) /\ n <= MaxHistory
      /\ \A k \in 1 .. n : Len(history[k]) <= MaxLine
      /\ history_index \in Nat /\ history_index < n
      /\ at = "editing"
  BY DEF LineInv, HistoryNext, Editing
<1>2. n \in Nat /\ n > 1 /\ here \in 1 .. n
  <2>1. n \in Nat /\ n > 1
    BY <1>1 DEF HistoryNext
  <2> QED BY <1>1, <2>1
<1>3. history' = [history EXCEPT ![here] = buf] /\ at' = "editing" /\ offer' = offer
  BY <1>1 DEF HistoryNext
<1>4. \/ /\ i \in 0 .. n - 1 /\ history_index' = i
         /\ Becomes(history[n - i], Len(history[n - i]))
      \/ /\ i \notin 0 .. n - 1 /\ history_index' = Clamped(i)
         /\ buf' = buf /\ pos' = pos
  BY DEF HistoryNext, lineVars
<1>5. /\ history' \in Seq(Seq(Byte)) /\ Len(history') = n
      /\ \A k \in 1 .. n : Len(history'[k]) <= MaxLine
  <2> HIDE DEF here
  <2> QED BY <1>1, <1>2, <1>3
<1>6. history_index' \in 0 .. n - 1
  <2>1. Clamped(i) \in {0, n - 1}
    BY DEF Clamped
  <2> HIDE DEF i, Clamped
  <2> QED BY <1>2, <1>4, <2>1
<1>7. buf' \in Seq(Byte) /\ pos' \in 0 .. Len(buf') /\ Len(buf') <= MaxLine
  <2>1. CASE buf' = buf /\ pos' = pos
    BY <1>1, <2>1
  <2>2. CASE i \in 0 .. n - 1 /\ Becomes(history[n - i], Len(history[n - i]))
    <3> HIDE DEF i
    <3>1. n - i \in 1 .. n
      BY <1>2, <2>2
    <3>2. history[n - i] \in Seq(Byte) /\ Len(history[n - i]) <= MaxLine
      BY <1>1, <1>2, <3>1
    <3>3. buf' = history[n - i] /\ pos' = Len(history[n - i])
      BY <2>2 DEF Becomes
    <3>4. Len(history[n - i]) \in 0 .. Len(history[n - i])
      BY <3>2
    <3> QED BY <3>2, <3>3, <3>4
  <2> QED BY <1>4, <2>1, <2>2
<1>8. history_index' \in Nat /\ history_index' < n
  BY <1>2, <1>6
<1> HIDE DEF n
<1>9. Len(history') <= MaxHistory
  BY <1>1, <1>5
<1> QED BY <1>3, <1>5, <1>7, <1>8, <1>9 DEF LineInv, Editing, Completing

LEMMA NoOfferType == NoOffer \in [lc : Seq(Seq(Byte)), i : Nat]
BY EmptySeq DEF NoOffer

\* Completions: the line that is accepted fits unless what follows is undefined.
LEMMA CompletionKeeps ==
  ASSUME LineInv, Completion
  PROVE  LineInv'
<1>1. /\ buf \in Seq(Byte) /\ pos \in 0 .. Len(buf) /\ offer \in [lc : Seq(Seq(Byte)), i : Nat]
      /\ (Editing \/ Completing) /\ history_index < Len(history) /\ Len(buf) <= MaxLine
      /\ history' = history /\ history_index' = history_index
  BY DEF LineInv, Completion, Complete, NextOffer, Cancel, Accept, historyVars, Editing, Completing
<1>2. CASE \E lc \in Offers : Complete(lc)
  <2>1. PICK lc \in Offers : Complete(lc)
    BY <1>2
  <2>2. offer' = [lc |-> lc, i |-> 0] /\ buf' = buf /\ pos' = pos /\ at' = "completing"
    BY <2>1 DEF Complete
  <2>3. offer' \in [lc : Seq(Seq(Byte)), i : Nat]
    BY <2>2, LineEditorAssumption
  <2> QED BY <1>1, <2>2, <2>3 DEF LineInv, Editing, Completing
<1>3. CASE NextOffer
  <2>1. offer' = [offer EXCEPT !.i = (offer.i + 1) % (Len(offer.lc) + 1)]
        /\ buf' = buf /\ pos' = pos /\ at' = "completing"
    BY <1>3 DEF NextOffer, Completing
  <2>2. (offer.i + 1) % (Len(offer.lc) + 1) \in Nat
    <3>1. offer.i \in Nat /\ Len(offer.lc) \in Nat
      BY <1>1
    <3> QED BY <3>1
  <2>3. offer' \in [lc : Seq(Seq(Byte)), i : Nat]
    BY <1>1, <2>1, <2>2
  <2> QED BY <1>1, <2>1, <2>3 DEF LineInv, Editing, Completing
<1>4. CASE Cancel
  <2>1. offer' = NoOffer /\ buf' = buf /\ pos' = pos /\ at' = "editing"
    BY <1>4 DEF Cancel
  <2>2. NoOffer \in [lc : Seq(Seq(Byte)), i : Nat]
    BY NoOfferType
  <2> HIDE DEF NoOffer
  <2> QED BY <1>1, <2>1, <2>2 DEF LineInv, Editing, Completing
<1>5. CASE Accept
  <2>1. offer' = NoOffer /\ buf' = Line /\ pos' = Cursor
        /\ at' = IF Offered /\ Len(Line) >= MaxLine THEN "undefined" ELSE "editing"
    BY <1>5 DEF Accept, Becomes
  <2>2. NoOffer \in [lc : Seq(Seq(Byte)), i : Nat]
    BY NoOfferType
  <2>3. Line \in Seq(Byte) /\ Cursor \in 0 .. Len(Line) /\ (~Offered => Line = buf)
    <3>1. CASE Offered
      <4>1. offer.lc \in Seq(Seq(Byte)) /\ offer.i + 1 \in 1 .. Len(offer.lc)
        BY <1>1, <3>1 DEF Offered
      <4>2. Line = offer.lc[offer.i + 1] /\ Cursor = Len(Line)
        BY <3>1 DEF Line, Cursor
      <4>3. Line \in Seq(Byte)
        BY <4>1, <4>2
      <4> HIDE DEF Line
      <4>4. Len(Line) \in 0 .. Len(Line)
        BY <4>3
      <4> QED BY <3>1, <4>2, <4>3, <4>4
    <3>2. CASE ~Offered
      BY <1>1, <3>2 DEF Line, Cursor
    <3> QED BY <3>1, <3>2
  <2>4. at' # "undefined" => Len(Line) <= MaxLine
    <3> HIDE DEF Line
    <3>1. Len(Line) \in Nat /\ MaxLine \in Nat
      BY <2>3, LineEditorAssumption
    <3> QED BY <1>1, <2>1, <2>3, <3>1
  <2> HIDE DEF NoOffer, Line, Cursor
  <2>5. at' \in {"undefined", "editing"}
    BY <2>1
  <2> QED BY <1>1, <2>1, <2>2, <2>3, <2>4, <2>5 DEF LineInv, Editing, Completing
<1> QED BY <1>2, <1>3, <1>4, <1>5 DEF Completion

\* A line that is given: the history it is added to may have lost the entry
\* the line was edited in.
LEMMA GivesKeeps ==
  ASSUME LineInv, NEW h \in {history, Popped(history)}, Editing \/ Completing, Gives(h)
  PROVE  LineInv'
<1>1. /\ buf \in Seq(Byte) /\ Len(buf) <= MaxLine
      /\ history \in Seq(Seq(Byte)) /\ Len(history) <= MaxHistory
      /\ \A i \in 1 .. Len(history) : Len(history[i]) <= MaxLine
      /\ history_index \in Nat /\ history_index < Len(history)
  BY DEF LineInv, Gives, Editing, Completing
<1>2. Len(history) > 0
  <2>1. Len(history) \in Nat
    BY <1>1
  <2> QED BY <1>1, <2>1
<1>3. /\ h \in Seq(Seq(Byte)) /\ Len(h) <= MaxHistory
      /\ \A i \in 1 .. Len(h) : Len(h[i]) <= MaxLine
  BY <1>1, <1>2, PoppedType
<1>4. /\ history' \in Seq(Seq(Byte)) /\ Len(history') <= MaxHistory
      /\ \A i \in 1 .. Len(history') : Len(history'[i]) <= MaxLine
  <2>1. history' = Added(h, buf)
    BY DEF Gives
  <2> HIDE DEF Added
  <2> QED BY <1>1, <1>3, <2>1, AddedType
<1>5. /\ buf' = <<>> /\ pos' = 0 /\ history_index' = 0
      /\ at' \in {"undefined", "command"} /\ offer' = NoOffer
  BY DEF Gives, Leaves, Becomes
<1>6. <<>> \in Seq(Byte) /\ Len(<<>>) = 0 /\ 0 \in 0 .. 0 /\ 0 <= MaxLine
  BY LineEditorAssumption
<1>7. NoOffer \in [lc : Seq(Seq(Byte)), i : Nat]
  BY NoOfferType
<1> HIDE DEF NoOffer
<1> QED BY <1>4, <1>5, <1>6, <1>7 DEF LineInv, Editing, Completing

LEMMA NewLineKeeps ==
  ASSUME LineInv, NewLine
  PROVE  LineInv'
<1>1. /\ buf \in Seq(Byte) /\ pos \in 0 .. Len(buf) /\ Len(buf) <= MaxLine
      /\ history \in Seq(Seq(Byte)) /\ Len(history) <= MaxHistory
      /\ \A i \in 1 .. Len(history) : Len(history[i]) <= MaxLine
      /\ history_index = 0
  BY DEF LineInv, NewLine
<1>2. <<>> \in Seq(Byte) /\ Len(<<>>) <= MaxLine
  BY LineEditorAssumption
<1>3. /\ history' \in Seq(Seq(Byte)) /\ Len(history') <= MaxHistory
      /\ \A i \in 1 .. Len(history') : Len(history'[i]) <= MaxLine
      /\ Len(history') > 0
  <2>1. history' = Added(history, <<>>)
    BY DEF NewLine
  <2> HIDE DEF Added
  <2> QED BY <1>1, <1>2, <2>1, AddedType
<1>4. /\ buf' = buf /\ pos' = pos /\ history_index' = 0 /\ at' = "editing"
      /\ offer' = offer
  BY <1>1 DEF NewLine, lineVars
<1> QED BY <1>1, <1>3, <1>4 DEF LineInv, Editing, Completing

\* Ctrl-c and ctrl-d.
LEMMA QuitsKeep ==
  ASSUME LineInv, CtrlC \/ EndOfFile
  PROVE  LineInv'
<1>1. /\ history \in Seq(Seq(Byte)) /\ Len(history) <= MaxHistory
      /\ \A i \in 1 .. Len(history) : Len(history[i]) <= MaxLine
      /\ history_index \in Nat /\ history_index < Len(history)
  BY DEF LineInv, CtrlC, EndOfFile, Editing
<1>2. Len(history) > 0
  <2>1. Len(history) \in Nat
    BY <1>1
  <2> QED BY <1>1, <2>1
<1>3. history' = history \/ history' = Popped(history)
  BY DEF CtrlC, EndOfFile
<1>4. /\ history' \in Seq(Seq(Byte)) /\ Len(history') <= MaxHistory
      /\ \A i \in 1 .. Len(history') : Len(history'[i]) <= MaxLine
  <2> HIDE DEF Popped
  <2> QED BY <1>1, <1>2, <1>3, PoppedType
<1>5. buf' = <<>> /\ pos' = 0 /\ history_index' = 0 /\ at' = "quit" /\ offer' = NoOffer
  BY DEF CtrlC, EndOfFile, Leaves, Becomes
<1>6. <<>> \in Seq(Byte) /\ Len(<<>>) = 0 /\ 0 \in 0 .. 0 /\ 0 <= MaxLine
  BY LineEditorAssumption
<1>7. NoOffer \in [lc : Seq(Seq(Byte)), i : Nat]
  BY NoOfferType
<1> HIDE DEF NoOffer
<1> QED BY <1>4, <1>5, <1>6, <1>7 DEF LineInv, Editing, Completing

-----------------------------------------------------------------------------
(***************************************************************************)
(* The invariant holds: the line and every entry of the history fit the    *)
(* buffer, the cursor is in the line, the history is within its limit, and *)
(* while a line is edited its index is that of an entry.                   *)
(***************************************************************************)
THEOREM LineInvariance == Spec => []LineInv
<1>1. Init => LineInv
  <2> SUFFICES ASSUME Init PROVE LineInv
    OBVIOUS
  <2>1. <<>> \in Seq(Byte) /\ <<>> \in Seq(Seq(Byte)) /\ Len(<<>>) = 0 /\ 0 \in 0 .. 0
    OBVIOUS
  <2>2. 0 <= MaxLine /\ 0 <= MaxHistory
    BY LineEditorAssumption
  <2>3. NoOffer \in [lc : Seq(Seq(Byte)), i : Nat]
    BY NoOfferType
  <2> HIDE DEF NoOffer
  <2> QED BY <2>1, <2>2, <2>3 DEF Init, LineInv, Editing, Completing
<1>2. LineInv /\ [Next]_vars => LineInv'
  <2> SUFFICES ASSUME LineInv, [Next]_vars PROVE LineInv'
    OBVIOUS
  <2>1. CASE \E c \in Typed : Insert(c)
    BY <2>1, InsertKeeps
  <2>2. CASE \/ MoveLeft \/ MoveRight \/ MoveHome \/ MoveEnd
             \/ Delete \/ Backspace \/ DeleteLine \/ DeleteEnd \/ DeletePrevWord \/ ClearScreen
    BY <2>2, EditingKeys
  <2>3. CASE Transpose
    BY <2>3, TransposeKeeps
  <2>4. CASE \E d \in {-1, 1} : HistoryNext(d)
    BY <2>4, HistoryNextKeeps
  <2>5. CASE NewLine
    BY <2>5, NewLineKeeps
  <2>6. CASE Enter \/ InputFails
    BY <2>6, GivesKeeps DEF Enter, InputFails
  <2>7. CASE CtrlC \/ EndOfFile
    BY <2>7, QuitsKeep
  <2>8. CASE UNCHANGED vars
    BY <2>8 DEF vars, lineVars, historyVars, LineInv, Editing, Completing
  <2>9. CASE Completion
    BY <2>9, CompletionKeeps
  <2> QED BY <2>1, <2>2, <2>3, <2>4, <2>5, <2>6, <2>7, <2>8, <2>9 DEF Next, Key
<1> QED BY <1>1, <1>2, PTL DEF Spec

(***************************************************************************)
(* Up and down never fetch from outside the history, nor a line that the   *)
(* buffer has no room for.                                                 *)
(***************************************************************************)
THEOREM RecallIsSafe == Spec => []RecallFits
<1>1. LineInv => RecallFits
  <2> SUFFICES ASSUME LineInv, Editing PROVE RecallFits
    BY DEF RecallFits
  <2>1. /\ history \in Seq(Seq(Byte))
        /\ \A i \in 1 .. Len(history) : Len(history[i]) <= MaxLine
        /\ history_index \in Nat /\ history_index < Len(history)
    BY DEF LineInv
  <2>2. Len(history) \in Nat /\ DOMAIN history = 1 .. Len(history)
    BY <2>1
  <2>3. history_index \in 0 .. Len(history) - 1
    BY <2>1, <2>2
  <2> QED BY <2>1, <2>2, <2>3 DEF RecallFits
<1> QED BY <1>1, LineInvariance, PTL
=============================================================================
