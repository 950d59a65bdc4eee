---------------------------- MODULE EditorProofs ----------------------------
(***************************************************************************)
(* More proofs about the line editor: what is on both sides of the cursor, *)
(* what the screen shows, and what the history keeps.                      *)
(***************************************************************************)
EXTENDS LineEditorProofs, FiniteSetTheorems

-----------------------------------------------------------------------------
(* Characters.                                                             *)

\* Does a character start at offset p, or the text end?
Edge(s, p) == p = Len(s) \/ s[p + 1] # "T"

LEMMA Pieces ==
  ASSUME NEW s \in Seq(Byte), NEW p \in 0 .. Len(s)
  PROVE  LET l == Piece(s, 0, p)
             r == Piece(s, p, Len(s))
         IN  /\ l \in Seq(Byte) /\ Len(l) = p /\ \A i \in 1 .. p : l[i] = s[i]
             /\ r \in Seq(Byte) /\ Len(r) = Len(s) - p /\ \A i \in 1 .. Len(s) - p : r[i] = s[p + i]
BY DEF Piece

LEMMA JoinedText ==
  ASSUME NEW s \in Seq(Byte), NEW t \in Seq(Byte)
  PROVE  /\ s \o t \in Seq(Byte) /\ Len(s \o t) = Len(s) + Len(t)
         /\ \A i \in 1 .. Len(s) : (s \o t)[i] = s[i]
         /\ \A i \in 1 .. Len(t) : (s \o t)[Len(s) + i] = t[i]
OBVIOUS

\* What WellFormed says of one byte.
FormedAt(s, i) ==
  /\ s[i] = "L" => i + 2 <= Len(s) /\ s[i + 1] = "T" /\ s[i + 2] = "T"
  /\ s[i] = "M" => i + 1 <= Len(s) /\ s[i + 1] = "T"
  /\ s[i] = "T" => \/ i > 1 /\ s[i - 1] \in {"L", "M"}
                   \/ i > 2 /\ s[i - 1] = "T" /\ s[i - 2] = "L"

LEMMA FormedEverywhere ==
  ASSUME NEW s
  PROVE  WellFormed(s) <=> \A i \in 1 .. Len(s) : FormedAt(s, i)
BY DEF WellFormed, FormedAt

\* The bytes around offset i of s, as far as they matter, are around j of u.
LEMMA Carried ==
  ASSUME NEW s, NEW u, NEW i, NEW j, FormedAt(s, i), u[j] = s[i],
         s[i] = "L" => j + 2 <= Len(u) /\ u[j + 1] = s[i + 1] /\ u[j + 2] = s[i + 2],
         s[i] = "M" => j + 1 <= Len(u) /\ u[j + 1] = s[i + 1],
         s[i] = "T" => j > 1 /\ u[j - 1] = s[i - 1],
         s[i] = "T" /\ s[i - 1] = "T" => j > 2 /\ u[j - 2] = s[i - 2]
  PROVE  FormedAt(u, j)
BY ZenonT(30) DEF FormedAt

\* A byte that continues a character is behind its first.
LEMMA TailBytes ==
  ASSUME NEW s, NEW i \in Nat, FormedAt(s, i)
  PROVE  /\ s[i] = "T" => i > 1
         /\ s[i] = "T" /\ s[i - 1] = "T" => i > 2
<1>1. i > 2 => i > 1
  OBVIOUS
<1>2. "T" \notin {"L", "M"}
  OBVIOUS
<1>3. s[i] = "T" => \/ i > 1 /\ s[i - 1] \in {"L", "M"}
                    \/ i > 2 /\ s[i - 1] = "T" /\ s[i - 2] = "L"
  BY DEF FormedAt
<1> QED BY <1>1, <1>2, <1>3, Zenon

LEMMA JoinFormed ==
  ASSUME NEW s \in Seq(Byte), NEW t \in Seq(Byte), WellFormed(s), WellFormed(t)
  PROVE  WellFormed(s \o t)
<1> DEFINE u == s \o t
           m == Len(s)
           n == Len(t)
<1>1. /\ m \in Nat /\ n \in Nat /\ Len(u) = m + n
      /\ \A i \in 1 .. m : u[i] = s[i]
      /\ \A i \in 1 .. n : u[m + i] = t[i]
  BY JoinedText
<1>2. /\ \A i \in 1 .. m : FormedAt(s, i)
      /\ \A i \in 1 .. n : FormedAt(t, i)
      /\ m = Len(s) /\ n = Len(t)
  BY FormedEverywhere
<1> HIDE DEF u, m, n
<1>3. ASSUME NEW i \in 1 .. m PROVE FormedAt(u, i)
  <2>1. FormedAt(s, i) /\ u[i] = s[i]
    BY <1>1, <1>2
  <2>2. /\ i + 2 <= m => u[i + 1] = s[i + 1] /\ u[i + 2] = s[i + 2] /\ i + 2 <= Len(u)
        /\ i + 1 <= m => u[i + 1] = s[i + 1] /\ i + 1 <= Len(u)
        /\ i > 1 => u[i - 1] = s[i - 1]
        /\ i > 2 => u[i - 2] = s[i - 2]
    BY <1>1
  <2>3. /\ s[i] = "L" => i + 2 <= m
        /\ s[i] = "M" => i + 1 <= m
    BY <2>1, <1>2 DEF FormedAt
  <2>4. i \in Nat
    BY <1>1
  <2> QED BY <2>1, <2>2, <2>3, <2>4, TailBytes, Carried
<1>4. ASSUME NEW i \in 1 .. n PROVE FormedAt(u, m + i)
  <2>1. FormedAt(t, i) /\ u[m + i] = t[i]
    BY <1>1, <1>2
  <2> DEFINE j == m + i
  <2>2. /\ i + 2 <= n => u[j + 1] = t[i + 1] /\ u[j + 2] = t[i + 2] /\ j + 2 <= Len(u)
        /\ i + 1 <= n => u[j + 1] = t[i + 1] /\ j + 1 <= Len(u)
    <3>1. (m + i) + 1 = m + (i + 1) /\ (m + i) + 2 = m + (i + 2)
      BY <1>1
    <3> QED BY <3>1, <1>1, SMTT(30)
  <2>3. ASSUME i > 1 PROVE u[j - 1] = t[i - 1] /\ j > 1
    <3>1. j - 1 = m + (i - 1) /\ i - 1 \in 1 .. n
      BY <2>3, <1>1
    <3> QED BY <3>1, <2>3, <1>1
  <2>4. ASSUME i > 2 PROVE u[j - 2] = t[i - 2] /\ j > 2
    <3>1. j - 2 = m + (i - 2) /\ i - 2 \in 1 .. n
      BY <2>4, <1>1
    <3> QED BY <3>1, <2>4, <1>1
  <2>5. /\ t[i] = "L" => i + 2 <= n
        /\ t[i] = "M" => i + 1 <= n
        /\ t[i] = "T" => i > 1
        /\ t[i] = "T" /\ t[i - 1] = "T" => i > 2
    BY <2>1, <1>2 DEF FormedAt
  <2>6. u[j] = t[i]
    BY <2>1
  <2> HIDE DEF j
  <2>7. FormedAt(u, j)
    BY <2>1, <2>2, <2>3, <2>4, <2>5, <2>6, Carried
  <2> QED BY <2>7 DEF j
<1>5. \A i \in 1 .. Len(u) : i \in 1 .. m \/ (i - m \in 1 .. n /\ i = m + (i - m))
  BY <1>1
<1>6. \A i \in 1 .. Len(u) : FormedAt(u, i)
  BY <1>3, <1>4, <1>5
<1> QED BY <1>6, FormedEverywhere DEF u

LEMMA SplitFormed ==
  ASSUME NEW s \in Seq(Byte), NEW p \in 0 .. Len(s), WellFormed(s), Edge(s, p)
  PROVE  Between(s, p)
<1> DEFINE l == Piece(s, 0, p)
           r == Piece(s, p, Len(s))
           n == Len(s)
<1>1. /\ Len(l) = p /\ \A i \in 1 .. p : l[i] = s[i]
      /\ Len(r) = n - p /\ \A i \in 1 .. n - p : r[i] = s[p + i]
      /\ n \in Nat /\ p \in Nat /\ p <= n
  BY Pieces
<1>2. /\ \A i \in 1 .. n : FormedAt(s, i)
      /\ p < n => s[p + 1] # "T"
      /\ n = Len(s)
  BY <1>1, FormedEverywhere DEF Edge
<1> HIDE DEF l, r, n
<1>3. ASSUME NEW i \in 1 .. p PROVE FormedAt(l, i)
  <2>1. FormedAt(s, i) /\ l[i] = s[i]
    BY <1>1, <1>2
  <2>2. /\ i + 2 <= p => l[i + 1] = s[i + 1] /\ l[i + 2] = s[i + 2]
        /\ i + 1 <= p => l[i + 1] = s[i + 1]
        /\ i > 1 => l[i - 1] = s[i - 1]
        /\ i > 2 => l[i - 2] = s[i - 2]
    BY <1>1
  <2>3. /\ s[i] = "L" => i + 2 <= p
        /\ s[i] = "M" => i + 1 <= p
    <3>1. s[i] = "L" => i + 2 <= n /\ s[i + 1] = "T" /\ s[i + 2] = "T"
      BY <2>1, <1>2 DEF FormedAt
    <3>2. s[i] = "M" => i + 1 <= n /\ s[i + 1] = "T"
      BY <2>1, <1>2 DEF FormedAt
    <3>3. i + 1 = p + 1 \/ i + 2 = p + 1 \/ i + 2 <= p
      BY <1>1
    <3>4. i + 1 = p + 1 \/ i + 1 <= p
      BY <1>1
    <3> QED BY <3>1, <3>2, <3>3, <3>4, <1>1, <1>2
  <2>4. /\ s[i] = "T" => i > 1
        /\ s[i] = "T" /\ s[i - 1] = "T" => i > 2
    <3>1. i \in Nat /\ FormedAt(s, i)
      BY <1>1, <2>1
    <3> QED BY ONLY <3>1, TailBytes
  <2>5. /\ s[i] = "L" => i + 2 <= Len(l) /\ l[i + 1] = s[i + 1] /\ l[i + 2] = s[i + 2]
        /\ s[i] = "M" => i + 1 <= Len(l) /\ l[i + 1] = s[i + 1]
    BY <2>2, <2>3, <1>1
  <2>6. /\ s[i] = "T" => i > 1 /\ l[i - 1] = s[i - 1]
        /\ s[i] = "T" /\ s[i - 1] = "T" => i > 2 /\ l[i - 2] = s[i - 2]
    BY <2>2, <2>4
  <2> QED BY <2>1, <2>5, <2>6, Carried
<1>4. ASSUME NEW i \in 1 .. n - p PROVE FormedAt(r, i)
  <2> DEFINE j == p + i
  <2>1. j \in 1 .. n /\ FormedAt(s, j) /\ r[i] = s[j]
    BY <1>1, <1>2
  <2>2. /\ j + 2 <= n => r[i + 1] = s[j + 1] /\ r[i + 2] = s[j + 2] /\ i + 2 <= n - p
        /\ j + 1 <= n => r[i + 1] = s[j + 1] /\ i + 1 <= n - p
    <3>1. (p + i) + 1 = p + (i + 1) /\ (p + i) + 2 = p + (i + 2) /\ i \in Nat
      BY <1>1
    <3>2. j + 1 <= n => i + 1 \in 1 .. n - p /\ i + 1 <= n - p
      BY <1>1, <3>1
    <3>3. j + 2 <= n => i + 2 \in 1 .. n - p /\ i + 2 <= n - p /\ j + 1 <= n
      BY <1>1, <3>1
    <3>4. i + 1 \in 1 .. n - p => r[i + 1] = s[j + 1]
      BY <1>1, <3>1
    <3>5. i + 2 \in 1 .. n - p => r[i + 2] = s[j + 2]
      BY <1>1, <3>1
    <3> QED BY <3>2, <3>3, <3>4, <3>5
  <2>3. ASSUME i > 1 PROVE r[i - 1] = s[j - 1]
    <3>1. j - 1 = p + (i - 1) /\ i - 1 \in 1 .. n - p
      BY <2>3, <1>1
    <3> QED BY <3>1, <1>1
  <2>5. ASSUME i > 2 PROVE r[i - 2] = s[j - 2]
    <3>1. j - 2 = p + (i - 2) /\ i - 2 \in 1 .. n - p
      BY <2>5, <1>1
    <3> QED BY <3>1, <1>1
  <2>4. s[j] = "T" => i > 1 /\ (s[j - 1] = "T" => i > 2)
    <3>1. s[p + 1] # "T"
      BY <1>1, <1>2
    <3>2. i = 1 => j = p + 1
      OBVIOUS
    <3>3. i = 2 => j - 1 = p + 1
      BY <1>1
    <3>4. i = 1 \/ i = 2 \/ i > 2
      BY <1>1
    <3> QED BY <3>1, <3>2, <3>3, <3>4
  <2>6. r[i] = s[j]
    BY <2>1
  <2> HIDE DEF j
  <2>7. /\ s[j] = "L" => j + 2 <= n
        /\ s[j] = "M" => j + 1 <= n
    BY <2>1, <1>2 DEF FormedAt
  <2>8. /\ j + 2 <= n => i + 2 <= Len(r)
        /\ j + 1 <= n => i + 1 <= Len(r)
    BY <2>2, <1>1
  <2> QED BY <2>1, <2>2, <2>3, <2>4, <2>5, <2>6, <2>7, <2>8, Carried
<1>5. WellFormed(l) /\ WellFormed(r)
  BY <1>1, <1>3, <1>4, FormedEverywhere
<1> QED BY <1>5 DEF Between, l, r

\* Between two characters of well-formed text.
LEMMA BetweenEdge ==
  ASSUME NEW s \in Seq(Byte), NEW p \in 0 .. Len(s), Between(s, p)
  PROVE  WellFormed(s) /\ Edge(s, p)
<1> DEFINE l == Piece(s, 0, p)
           r == Piece(s, p, Len(s))
<1>1. /\ l \in Seq(Byte) /\ r \in Seq(Byte)
      /\ Len(r) = Len(s) - p /\ \A i \in 1 .. Len(s) - p : r[i] = s[p + i]
  BY Pieces
<1>2. WellFormed(l) /\ WellFormed(r)
  BY DEF Between
<1>3. s = l \o r
  <2> DEFINE t == l \o r
  <2>1. /\ Len(l) = p /\ \A i \in 1 .. p : l[i] = s[i]
        /\ Len(s) \in Nat /\ p \in Nat /\ p <= Len(s)
    BY Pieces
  <2> HIDE DEF l, r
  <2>2. /\ t \in Seq(Byte) /\ Len(t) = Len(l) + Len(r)
        /\ \A i \in 1 .. Len(l) + Len(r) : t[i] = IF i <= Len(l) THEN l[i] ELSE r[i - Len(l)]
    BY <1>1, ConcatProperties
  <2>3. Len(t) = Len(s)
    BY <1>1, <2>1, <2>2
  <2>4. ASSUME NEW i \in 1 .. Len(s) PROVE s[i] = t[i]
    <3>1. CASE i <= p
      BY <3>1, <2>1, <2>2, <1>1
    <3>2. CASE ~(i <= p)
      <4>1. i - p \in 1 .. Len(s) - p /\ p + (i - p) = i
        BY <3>2, <2>1
      <4>2. t[i] = r[i - p]
        BY <3>2, <2>1, <2>2, <1>1
      <4> QED BY <4>1, <4>2, <1>1
    <3> QED BY <3>1, <3>2
  <2> HIDE DEF t
  <2>5. s = t
    BY <2>2, <2>3, <2>4, SeqEqual
  <2> QED BY <2>5 DEF t
<1> HIDE DEF l, r
<1>4. WellFormed(s)
  BY <1>1, <1>2, <1>3, JoinFormed
<1>5. ASSUME p # Len(s) PROVE s[p + 1] # "T"
  <2>1. 1 \in 1 .. Len(s) - p
    BY <1>5
  <2>2. r[1] = s[p + 1] /\ FormedAt(r, 1)
    BY <2>1, <1>1, <1>2, FormedEverywhere
  <2>3. r[1] # "T"
    BY <2>2 DEF FormedAt
  <2> QED BY <2>2, <2>3
<1> QED BY <1>4, <1>5 DEF Edge

LEMMA BetweenParts ==
  ASSUME NEW s \in Seq(Byte), NEW t \in Seq(Byte), WellFormed(s), WellFormed(t)
  PROVE  Between(s \o t, Len(s)) /\ WellFormed(s \o t)
<1> DEFINE u == s \o t
<1>1. Piece(u, 0, Len(s)) = s /\ Piece(u, Len(s), Len(u)) = t
  BY DEF Piece
<1>2. WellFormed(u)
  BY JoinFormed
<1> QED BY <1>1, <1>2 DEF Between

LEMMA BothEnds ==
  ASSUME NEW s \in Seq(Byte), WellFormed(s)
  PROVE  Edge(s, 0) /\ Edge(s, Len(s)) /\ Between(s, 0) /\ Between(s, Len(s)) /\ Len(s) \in Nat
<1>1. Len(s) \in Nat
  OBVIOUS
<1>2. Edge(s, 0)
  <2>1. Len(s) # 0 => FormedAt(s, 1)
    BY <1>1, FormedEverywhere
  <2> QED BY <2>1 DEF Edge, FormedAt
<1>3. Edge(s, Len(s))
  BY DEF Edge
<1>4. 0 \in 0 .. Len(s) /\ Len(s) \in 0 .. Len(s)
  BY <1>1
<1> QED BY <1>1, <1>2, <1>3, <1>4, SplitFormed

LEMMA EmptyText == WellFormed(<<>>) /\ Between(<<>>, 0)
<1>1. <<>> \in Seq(Byte) /\ Len(<<>>) = 0
  BY EmptySeq
<1> DEFINE s == <<>>
<1>2. WellFormed(s)
  BY <1>1 DEF WellFormed
<1> HIDE DEF s
<1>3. s \in Seq(Byte) /\ Len(s) = 0
  BY <1>1 DEF s
<1>4. Between(s, 0)
  BY <1>2, <1>3, BothEnds
<1> QED BY <1>2, <1>4 DEF s

-----------------------------------------------------------------------------
(* Where the cursor goes.                                                  *)

LEMMA AroundStarts ==
  ASSUME NEW s \in Seq(Byte), NEW p \in Starts(s)
  PROVE  p \in 0 .. Len(s) /\ Edge(s, p)
BY DEF Starts, Edge

LEMMA EdgeOnTheRight ==
  ASSUME NEW s \in Seq(Byte), NEW p \in 0 .. Len(s), Edge(s, p)
  PROVE  Edge(s, p + GraphemeLen(s, p))
<1> DEFINE S == {i \in Starts(s) : i > p}
<1>1. p \in Nat /\ Len(s) \in Nat
  BY LenProperties
<1>2. CASE p = Len(s)
  <2>1. p + GraphemeLen(s, p) = p
    BY <1>1, <1>2 DEF GraphemeLen
  <2> QED BY <2>1
<1>3. CASE p # Len(s)
  <2>1. S \subseteq Nat /\ Len(s) \in S
    BY <1>3 DEF Starts
  <2>2. GraphemeLen(s, p) = Min(S) - p
    BY <1>3 DEF GraphemeLen
  <2>3. \A i \in S : i \in Starts(s)
    OBVIOUS
  <2> HIDE DEF S
  <2>4. Min(S) \in S
    BY <2>1, MinIn
  <2>5. p + GraphemeLen(s, p) = Min(S)
    <3>1. Min(S) \in Nat
      BY <2>1, <2>4
    <3>2. \A m \in Nat : p + (m - p) = m
      BY <1>1
    <3> QED BY <2>2, <3>1, <3>2
  <2> QED BY <2>3, <2>4, <2>5, AroundStarts
<1> QED BY <1>2, <1>3

LEMMA EdgeOnTheLeft ==
  ASSUME NEW s \in Seq(Byte), NEW p \in 0 .. Len(s), Edge(s, p)
  PROVE  Edge(s, p - PrevGraphemeLen(s, p))
<1> DEFINE S == {i \in Starts(s) : i < p}
<1>1. p \in Nat /\ Len(s) \in Nat
  BY LenProperties
<1>2. CASE S = {}
  <2>1. p - PrevGraphemeLen(s, p) = p
    BY <1>1, <1>2 DEF PrevGraphemeLen
  <2> QED BY <2>1
<1>3. CASE S # {}
  <2>1. S \subseteq 0 .. Len(s)
    BY DEF Starts
  <2>2. PrevGraphemeLen(s, p) = p - Max(S)
    BY <1>3 DEF PrevGraphemeLen
  <2>3. \A i \in S : i \in Starts(s)
    OBVIOUS
  <2> HIDE DEF S
  <2>4. Max(S) \in S
    BY <1>1, <1>3, <2>1, MaxIn
  <2>5. p - PrevGraphemeLen(s, p) = Max(S)
    <3>1. Max(S) \in 0 .. Len(s)
      BY <2>1, <2>4
    <3>2. \A m \in 0 .. Len(s) : p - (p - m) = m
      BY <1>1
    <3> QED BY <2>2, <3>1, <3>2
  <2> QED BY <2>3, <2>4, <2>5, AroundStarts
<1> QED BY <1>2, <1>3

LEMMA EdgeBehindAscii ==
  ASSUME NEW s \in Seq(Byte), NEW p \in 1 .. Len(s), WellFormed(s), s[p] \in Ascii
  PROVE  Edge(s, p)
<1>1. p \in Nat /\ Len(s) \in Nat
  BY LenProperties
<1>2. SUFFICES ASSUME p # Len(s), s[p + 1] = "T" PROVE FALSE
  BY DEF Edge
<1> DEFINE q == p + 1
<1>3. q \in 1 .. Len(s) /\ q - 1 = p
  BY <1>1, <1>2
<1> HIDE DEF q
<1>4. FormedAt(s, q) /\ s[q] = "T"
  BY <1>2, <1>3, FormedEverywhere DEF q
<1>5. s[q - 1] \in {"L", "M", "T"}
  BY <1>4 DEF FormedAt
<1> QED BY <1>3, <1>5 DEF Ascii

LEMMA EdgeOfTheWord ==
  ASSUME buf \in Seq(Byte), pos \in 0 .. Len(buf), WellFormed(buf)
  PROVE  Edge(buf, WordStart)
<1> DEFINE S == {i \in 0 .. pos : i = 0 \/ buf[i] # " "}
           end == Max(S)
           T == {i \in 0 .. end : i = 0 \/ buf[i] = " "}
<1>1. pos \in Nat /\ Len(buf) \in Nat /\ pos <= Len(buf)
  BY LenProperties
<1>2. 0 \in S /\ S \subseteq 0 .. pos
  <2>1. 0 \in 0 .. pos
    BY <1>1
  <2> QED BY <2>1
<1>3. end \in 0 .. pos
  <2> HIDE DEF S
  <2>1. Max(S) \in S
    BY <1>1, <1>2, MaxIn
  <2> QED BY <1>2, <2>1
<1>4. WordStart = Max(T)
  BY DEF WordStart
<1> HIDE DEF S, end
<1>5. end \in Nat /\ end <= Len(buf)
  BY <1>1, <1>3
<1>6. 0 \in T /\ T \subseteq 0 .. end /\ \A i \in T : i = 0 \/ buf[i] = " "
  <2>1. 0 \in 0 .. end
    BY <1>5
  <2> QED BY <2>1
<1> HIDE DEF T
<1>7. WordStart \in T
  BY <1>4, <1>5, <1>6, MaxIn
<1>8. CASE WordStart = 0
  BY <1>8, BothEnds
<1>9. CASE WordStart # 0
  <2> HIDE DEF WordStart
  <2>1. WordStart \in 1 .. Len(buf) /\ buf[WordStart] = " "
    <3>1. buf[WordStart] = " " /\ WordStart \in 0 .. end
      BY <1>6, <1>7, <1>9
    <3>2. \A w \in 0 .. end : w # 0 => w \in 1 .. Len(buf)
      BY <1>1, <1>5
    <3> QED BY <1>9, <3>1, <3>2
  <2> QED BY <2>1, EdgeBehindAscii DEF Ascii
<1> QED BY <1>8, <1>9

-----------------------------------------------------------------------------
(* What the keys leave.                                                    *)

\* Cut out of well-formed text between two characters.
LEMMA WithoutText ==
  ASSUME buf \in Seq(Byte), WellFormed(buf), NEW i \in 0 .. Len(buf), NEW j \in 0 .. Len(buf),
         Edge(buf, i), Edge(buf, j)
  PROVE  Between(Without(i, j), i)
<1> DEFINE l == Piece(buf, 0, i)
           r == Piece(buf, j, Len(buf))
<1>1. l \in Seq(Byte) /\ r \in Seq(Byte) /\ Len(l) = i
  BY Pieces
<1>2. WellFormed(l) /\ WellFormed(r)
  BY SplitFormed DEF Between
<1>3. Without(i, j) = l \o r
  BY DEF Without
<1> HIDE DEF l, r
<1> QED BY <1>1, <1>2, <1>3, BetweenParts

LEMMA BytesFormed ==
  ASSUME NEW c \in Typed
  PROVE  Bytes(c) \in Seq(Byte) /\ WellFormed(Bytes(c))
<1>1. c \in {"a", " ", "L", "M"}
  BY LineEditorAssumption DEF Ascii
<1>2. c = "L" => Bytes(c) = <<"L", "T", "T">>
  BY DEF Bytes
<1>3. c = "M" => Bytes(c) = <<"M", "T">>
  BY DEF Bytes
<1>4. c \in Ascii => Bytes(c) = <<c>>
  BY DEF Bytes, Ascii
<1>5. "L" \in Byte /\ "M" \in Byte /\ "T" \in Byte /\ Ascii \subseteq Byte
  BY DEF Byte
<1>6. CASE c = "L"
  <2>1. <<"L", "T", "T">> \in Seq(Byte) /\ WellFormed(<<"L", "T", "T">>)
    BY <1>5 DEF WellFormed
  <2> QED BY <1>2, <1>6, <2>1
<1>7. CASE c = "M"
  <2>1. <<"M", "T">> \in Seq(Byte) /\ WellFormed(<<"M", "T">>)
    BY <1>5 DEF WellFormed
  <2> QED BY <1>3, <1>7, <2>1
<1>8. CASE c \in Ascii
  <2> DEFINE b == <<c>>
  <2>1. b \in Seq(Byte) /\ Len(b) = 1 /\ b[1] \notin {"L", "M", "T"}
    <3>1. c \in Byte
      BY <1>5, <1>8
    <3>2. c \notin {"L", "M", "T"}
      BY <1>8, Zenon DEF Ascii
    <3>3. b[1] = c
      OBVIOUS
    <3> QED BY <3>1, <3>2, <3>3
  <2> HIDE DEF b
  <2>2. \A i \in 1 .. Len(b) : b[i] \notin {"L", "M", "T"}
    <3>1. \A i \in 1 .. Len(b) : i = 1
      BY <2>1
    <3> QED BY <2>1, <3>1
  <2>3. WellFormed(b)
    BY <2>2, Zenon DEF WellFormed
  <2> QED BY <1>4, <1>8, <2>1, <2>3 DEF b
<1> QED BY <1>1, <1>6, <1>7, <1>8 DEF Ascii

\* A character put between two others.
LEMMA WithText ==
  ASSUME buf \in Seq(Byte), pos \in 0 .. Len(buf), Between(buf, pos), NEW c \in Typed
  PROVE  Between(With(Bytes(c)), pos + Len(Bytes(c)))
<1> DEFINE l == Piece(buf, 0, pos)
           r == Piece(buf, pos, Len(buf))
           b == Bytes(c)
<1>1. l \in Seq(Byte) /\ r \in Seq(Byte) /\ Len(l) = pos /\ b \in Seq(Byte)
  BY Pieces, BytesFormed
<1>2. WellFormed(l) /\ WellFormed(r) /\ WellFormed(b)
  BY BytesFormed DEF Between
<1>3. With(b) = (l \o b) \o r
  BY DEF With
<1> HIDE DEF l, r, b
<1>4. l \o b \in Seq(Byte) /\ Len(l \o b) = pos + Len(b) /\ WellFormed(l \o b)
  BY <1>1, <1>2, ConcatProperties, JoinFormed
<1>5. Between(With(b), Len(l \o b))
  BY <1>1, <1>2, <1>3, <1>4, BetweenParts
<1> QED BY <1>4, <1>5 DEF b

\* Two characters of one byte swapped.
LEMMA SwappedText ==
  ASSUME NEW s \in Seq(Byte), WellFormed(s), NEW p \in 1 .. Len(s) - 1,
         s[p] \in Ascii, s[p + 1] \in Ascii, NEW q \in {p, p + 1}
  PROVE  Between([s EXCEPT ![p] = s[p + 1], ![p + 1] = s[p]], q)
<1> DEFINE u == [s EXCEPT ![p] = s[p + 1], ![p + 1] = s[p]]
           n == Len(s)
<1>1. n \in Nat /\ p \in Nat /\ p + 1 \in 1 .. n /\ p \in 1 .. n /\ p # p + 1
  BY LenProperties
<1>2. u \in Seq(Byte) /\ Len(u) = n
  <2>1. s[p] \in Byte /\ s[p + 1] \in Byte
    BY <1>1
  <2> QED BY <1>1, <2>1
<1>3. /\ \A k \in 1 .. n : k # p /\ k # p + 1 => u[k] = s[k]
      /\ u[p] = s[p + 1] /\ u[p + 1] = s[p]
  BY <1>1
<1>4. n = Len(s) /\ p \in 1 .. Len(s)
  BY <1>1
<1>5. \A k \in 1 .. n : FormedAt(s, k)
  BY <1>4, FormedEverywhere
<1> HIDE DEF u, n
<1>6. \A k \in 1 .. n : \/ s[k] \in Ascii /\ u[k] \in Ascii
                        \/ u[k] = s[k]
  BY <1>3
<1>7. ASSUME NEW k \in 1 .. n PROVE FormedAt(u, k)
  <2>1. CASE u[k] \in Ascii
    BY <2>1 DEF FormedAt, Ascii
  <2>2. CASE u[k] \notin Ascii
    <3>1. u[k] = s[k] /\ FormedAt(s, k) /\ k \in Nat
      BY <1>1, <1>5, <1>6, <2>2
    <3>2. "T" \notin Ascii /\ "L" \notin Ascii /\ "M" \notin Ascii
      BY DEF Ascii
    <3>3. ASSUME s[k] = "L"
          PROVE  k + 2 <= Len(u) /\ u[k + 1] = s[k + 1] /\ u[k + 2] = s[k + 2]
      <4>1. k + 2 <= n /\ s[k + 1] = "T" /\ s[k + 2] = "T"
        BY <3>1, <3>3, <1>4 DEF FormedAt
      <4>2. k + 1 \in 1 .. n /\ k + 2 \in 1 .. n
        BY <1>1, <3>1, <4>1
      <4> QED BY <4>1, <4>2, <1>2, <1>6, <3>2
    <3>4. ASSUME s[k] = "M" PROVE k + 1 <= Len(u) /\ u[k + 1] = s[k + 1]
      <4>1. k + 1 <= n /\ s[k + 1] = "T"
        BY <3>1, <3>4, <1>4 DEF FormedAt
      <4>2. k + 1 \in 1 .. n
        BY <1>1, <3>1, <4>1
      <4> QED BY <4>1, <4>2, <1>2, <1>6, <3>2
    <3>5. ASSUME s[k] = "T" PROVE k > 1 /\ u[k - 1] = s[k - 1]
      <4>1. k > 1 /\ s[k - 1] \in {"L", "M", "T"}
        BY <3>1, <3>5, TailBytes DEF FormedAt
      <4>2. k - 1 \in 1 .. n
        BY <1>1, <3>1, <4>1
      <4> QED BY <4>1, <4>2, <1>6, <3>2
    <3>6. ASSUME s[k] = "T", s[k - 1] = "T" PROVE k > 2 /\ u[k - 2] = s[k - 2]
      <4>1. k > 2 /\ s[k - 2] = "L"
        BY <3>1, <3>6, TailBytes DEF FormedAt
      <4>2. k - 2 \in 1 .. n
        BY <1>1, <3>1, <4>1
      <4> QED BY <4>1, <4>2, <1>6, <3>2
    <3> QED BY <3>1, <3>3, <3>4, <3>5, <3>6, Carried
  <2> QED BY <2>1, <2>2
<1>8. WellFormed(u)
  BY <1>2, <1>7, FormedEverywhere
<1>9. q \in 0 .. Len(u) /\ Edge(u, q)
  <2>1. CASE q = p
    <3>1. u[p + 1] # "T"
      BY <1>3 DEF Ascii
    <3>2. p \in 0 .. Len(u)
      BY <1>1, <1>2
    <3> QED BY <2>1, <3>1, <3>2 DEF Edge
  <2>2. CASE q = p + 1
    <3>1. q \in 1 .. Len(u) /\ u[q] \in Ascii
      BY <1>1, <1>2, <1>3, <2>2
    <3> QED BY <1>2, <1>8, <3>1, EdgeBehindAscii
  <2> QED BY <2>1, <2>2
<1>10. Between(u, q)
  BY <1>2, <1>8, <1>9, SplitFormed
<1> QED BY <1>10 DEF u

-----------------------------------------------------------------------------
(* All lines stay well formed.                                             *)

LEMMA LineText ==
  ASSUME LineInv, TextInv, Awake
  PROVE  /\ buf \in Seq(Byte) /\ pos \in 0 .. Len(buf) /\ Len(buf) \in Nat /\ pos \in Nat
         /\ WellFormed(buf) /\ Edge(buf, pos) /\ Between(buf, pos)
<1>1. buf \in Seq(Byte) /\ pos \in 0 .. Len(buf) /\ Between(buf, pos)
  BY DEF LineInv, TextInv
<1>2. Len(buf) \in Nat /\ pos \in Nat
  BY <1>1
<1> QED BY <1>1, <1>2, BetweenEdge

\* A key that leaves the history and the completions alone.
LEMMA TextKept ==
  ASSUME TextInv, Editing, Between(buf', pos'), UNCHANGED <<history, offer>>,
         at' \in {"editing", "stuck", "undefined"}
  PROVE  TextInv'
BY DEF TextInv, Awake, Editing

LEMMA EditedText ==
  ASSUME TextInv, NEW s, NEW p, Edits(s, p), Between(s, p)
  PROVE  TextInv'
<1>1. Editing /\ buf' = s /\ pos' = p /\ UNCHANGED <<history, offer>> /\ at' = "editing"
  BY DEF Edits, Becomes, historyVars, Editing
<1> QED BY <1>1, TextKept

LEMMA EditingText ==
  ASSUME LineInv, TextInv,
         \/ MoveLeft \/ MoveRight \/ MoveHome \/ MoveEnd
         \/ Delete \/ Backspace \/ DeleteLine \/ DeleteEnd \/ DeletePrevWord \/ ClearScreen
  PROVE  TextInv'
<1>1. Awake
  BY DEF MoveLeft, MoveRight, MoveHome, MoveEnd, Delete, Backspace, DeleteLine,
         DeleteEnd, DeletePrevWord, ClearScreen, Edits, Editing, Awake
<1>2. /\ buf \in Seq(Byte) /\ pos \in 0 .. Len(buf) /\ Len(buf) \in Nat /\ pos \in Nat
      /\ WellFormed(buf) /\ Edge(buf, pos) /\ Between(buf, pos)
  BY <1>1, LineText
<1> DEFINE L == pos - PrevGraphemeLen(buf, pos)
           R == pos + GraphemeLen(buf, pos)
<1>3. L \in 0 .. Len(buf) /\ Edge(buf, L) /\ Between(buf, L)
  <2>1. PrevGraphemeLen(buf, pos) \in 0 .. pos
    BY <1>2, PrevGraphemeLenBound
  <2>2. L \in 0 .. Len(buf)
    BY <1>2, <2>1
  <2>3. Edge(buf, L)
    BY <1>2, EdgeOnTheLeft
  <2> HIDE DEF L
  <2> QED BY <1>2, <2>2, <2>3, SplitFormed
<1>4. R \in 0 .. Len(buf) /\ Edge(buf, R) /\ Between(buf, R)
  <2>1. GraphemeLen(buf, pos) \in 0 .. Len(buf) - pos
    BY <1>2, GraphemeLenBound
  <2>2. R \in 0 .. Len(buf)
    BY <1>2, <2>1
  <2>3. Edge(buf, R)
    BY <1>2, EdgeOnTheRight
  <2> HIDE DEF R
  <2> QED BY <1>2, <2>2, <2>3, SplitFormed
<1>5. CASE MoveLeft
  BY <1>3, <1>5, EditedText DEF MoveLeft
<1>6. CASE MoveRight
  BY <1>4, <1>6, EditedText DEF MoveRight
<1>7. CASE MoveHome \/ MoveEnd
  <2>1. Between(buf, 0) /\ Between(buf, Len(buf))
    BY <1>2, BothEnds
  <2> QED BY <1>7, <2>1, EditedText DEF MoveHome, MoveEnd
<1>8. CASE Delete
  <2>1. Edits(Without(pos, R), pos)
    BY <1>8 DEF Delete
  <2> HIDE DEF R
  <2>2. Between(Without(pos, R), pos)
    BY <1>2, <1>4, WithoutText
  <2> QED BY <2>1, <2>2, EditedText
<1>9. CASE Backspace
  <2>1. Edits(Without(L, pos), L)
    BY <1>9 DEF Backspace
  <2> HIDE DEF L
  <2>2. Between(Without(L, pos), L)
    BY <1>2, <1>3, WithoutText
  <2> QED BY <2>1, <2>2, EditedText
<1>10. CASE DeleteLine
  <2>1. Between(<<>>, 0)
    BY EmptyText
  <2>2. Edits(<<>>, 0)
    BY <1>10 DEF DeleteLine
  <2> QED BY <2>1, <2>2, EditedText
<1>11. CASE DeleteEnd
  <2> DEFINE s == Piece(buf, 0, pos)
  <2>1. s \in Seq(Byte) /\ Len(s) = pos /\ WellFormed(s)
    BY <1>2, Pieces DEF Between
  <2>2. Edits(s, pos)
    BY <1>11 DEF DeleteEnd
  <2> HIDE DEF s
  <2>3. Between(s, pos)
    BY <2>1, BothEnds
  <2> QED BY <2>2, <2>3, EditedText
<1>12. CASE DeletePrevWord
  <2>1. Edits(Without(WordStart, pos), WordStart)
    BY <1>12 DEF DeletePrevWord
  <2>2. WordStart \in 0 .. Len(buf) /\ Edge(buf, WordStart)
    <3>1. WordStart \in 0 .. pos
      BY <1>2, WordStartBound
    <3>2. \A w \in 0 .. pos : w \in 0 .. Len(buf)
      BY <1>2
    <3> QED BY <1>2, <3>1, <3>2, EdgeOfTheWord
  <2> HIDE DEF WordStart
  <2>3. Between(Without(WordStart, pos), WordStart)
    BY <1>2, <2>2, WithoutText
  <2> QED BY <2>1, <2>3, EditedText
<1>13. CASE ClearScreen
  BY <1>2, <1>13, EditedText DEF ClearScreen
<1> QED BY <1>5, <1>6, <1>7, <1>8, <1>9, <1>10, <1>11, <1>12, <1>13

LEMMA InsertText ==
  ASSUME LineInv, TextInv, NEW c \in Typed, Insert(c)
  PROVE  TextInv'
<1>1. /\ Editing /\ Awake /\ UNCHANGED <<history, offer>>
      /\ buf' = With(Bytes(c)) /\ pos' = pos + Len(Bytes(c))
      /\ at' \in {"editing", "undefined"}
  BY DEF Insert, Editing, Awake, Becomes, historyVars
<1>2. Between(buf', pos')
  BY <1>1, LineText, WithText
<1> QED BY <1>1, <1>2, TextKept

LEMMA TransposeText ==
  ASSUME LineInv, TextInv, Transpose
  PROVE  TextInv'
<1>1. CASE {buf[pos], buf[pos + 1]} \subseteq Ascii
  <2>1. /\ Editing /\ Awake /\ UNCHANGED <<history, offer>> /\ at' = "editing"
        /\ pos > 0 /\ pos < Len(buf)
        /\ buf' = [buf EXCEPT ![pos] = buf[pos + 1], ![pos + 1] = buf[pos]]
        /\ pos' \in {pos, pos + 1}
    BY <1>1 DEF Transpose, Editing, Awake, Becomes, historyVars
  <2>2. buf \in Seq(Byte) /\ Len(buf) \in Nat /\ pos \in Nat /\ WellFormed(buf)
    BY <2>1, LineText
  <2>3. pos \in 1 .. Len(buf) - 1
    BY <2>1, <2>2
  <2>4. Between(buf', pos')
    BY <1>1, <2>1, <2>2, <2>3, SwappedText
  <2> QED BY <2>1, <2>4, TextKept
<1>2. CASE ~({buf[pos], buf[pos + 1]} \subseteq Ascii)
  BY <1>2 DEF Transpose, TextInv, Awake
<1> QED BY <1>1, <1>2

LEMMA HistoryNextText ==
  ASSUME LineInv, TextInv, NEW d \in {-1, 1}, HistoryNext(d)
  PROVE  TextInv'
<1> DEFINE n    == Len(history)
           here == n - history_index
           i    == history_index + d
<1>1. /\ Editing /\ Awake /\ at' = "editing" /\ offer' = offer
      /\ history' = [history EXCEPT ![here] = buf]
      /\ \/ /\ i \in 0 .. n - 1
            /\ buf' = history[n - i] /\ pos' = Len(history[n - i])
         \/ buf' = buf /\ pos' = pos
  BY DEF HistoryNext, Editing, Awake, Becomes, lineVars
<1>2. history \in Seq(Seq(Byte)) /\ \A k \in DOMAIN history : WellFormed(history[k])
  BY <1>1 DEF LineInv, TextInv
<1>3. WellFormed(buf) /\ Between(buf, pos)
  BY <1>1, LineText
<1>4. DOMAIN history = 1 .. n /\ n \in Nat
  BY <1>2
<1>5. Between(buf', pos')
  <2>1. CASE buf' = buf /\ pos' = pos
    BY <1>3, <2>1
  <2>2. CASE i \in 0 .. n - 1 /\ buf' = history[n - i] /\ pos' = Len(history[n - i])
    <3> HIDE DEF i, n
    <3>1. n - i \in 1 .. n
      BY <1>4, <2>2
    <3>2. history[n - i] \in Seq(Byte) /\ WellFormed(history[n - i])
      BY <1>2, <1>4, <3>1
    <3> QED BY <2>2, <3>2, BothEnds
  <2> QED BY <1>1, <2>1, <2>2
<1> HIDE DEF here, n, i
<1>6. \A k \in DOMAIN history' : WellFormed(history'[k])
  BY <1>1, <1>2, <1>3
<1> QED BY <1>1, <1>5, <1>6 DEF TextInv, Awake, Editing

LEMMA CompletionText ==
  ASSUME LineInv, TextInv, Completion
  PROVE  TextInv'
<1>1. /\ Awake /\ (Editing \/ Completing)
      /\ at' \in {"editing", "completing", "undefined"} /\ history' = history
  BY DEF Completion, Complete, NextOffer, Cancel, Accept, Editing, Completing, Awake, historyVars
<1>2. /\ \A k \in DOMAIN history : WellFormed(history[k])
      /\ \A k \in DOMAIN offer.lc : WellFormed(offer.lc[k])
      /\ offer \in [lc : Seq(Seq(Byte)), i : Nat]
  BY <1>1 DEF TextInv, LineInv
<1>3. Between(buf, pos)
  BY <1>1, LineText
<1>4. \A k \in DOMAIN NoOffer.lc : FALSE
  BY DEF NoOffer
<1>5. CASE \E lc \in Offers : Complete(lc)
  <2>1. PICK lc \in Offers : Complete(lc)
    BY <1>5
  <2>2. /\ offer' = [lc |-> lc, i |-> 0] /\ at' = "completing"
        /\ buf' = buf /\ pos' = pos
    BY <2>1 DEF Complete
  <2>3. \A k \in DOMAIN lc : WellFormed(lc[k])
    BY LineEditorAssumption
  <2>4. offer'.lc = lc
    BY <2>2
  <2> QED BY <1>1, <1>2, <1>3, <2>2, <2>3, <2>4 DEF TextInv, Awake
<1>6. CASE NextOffer
  <2>1. /\ offer' = [offer EXCEPT !.i = (offer.i + 1) % (Len(offer.lc) + 1)]
        /\ at' = "completing" /\ buf' = buf /\ pos' = pos
    BY <1>6 DEF NextOffer, Completing
  <2>2. offer'.lc = offer.lc
    BY <1>2, <2>1
  <2> QED BY <1>1, <1>2, <1>3, <2>1, <2>2 DEF TextInv, Awake
<1>7. CASE Cancel
  <2>1. offer' = NoOffer /\ at' = "editing" /\ buf' = buf /\ pos' = pos
    BY <1>7 DEF Cancel
  <2> HIDE DEF NoOffer
  <2> QED BY <1>1, <1>2, <1>3, <1>4, <2>1 DEF TextInv, Awake
<1>8. CASE Accept
  <2>1. offer' = NoOffer /\ at' \in {"editing", "undefined"} /\ buf' = Line /\ pos' = Cursor
    BY <1>8 DEF Accept, Becomes
  <2>2. Between(Line, Cursor)
    <3>1. CASE Offered
      <4>1. offer.lc \in Seq(Seq(Byte)) /\ offer.i + 1 \in 1 .. Len(offer.lc)
        BY <1>2, <3>1 DEF Offered
      <4>2. Line = offer.lc[offer.i + 1] /\ Cursor = Len(Line)
        BY <3>1 DEF Line, Cursor
      <4>3. offer.lc[offer.i + 1] \in Seq(Byte) /\ WellFormed(offer.lc[offer.i + 1])
        BY <1>2, <4>1
      <4> HIDE DEF Line
      <4> QED BY <4>2, <4>3, BothEnds
    <3>2. CASE ~Offered
      BY <1>3, <3>2 DEF Line, Cursor
    <3> QED BY <3>1, <3>2
  <2> HIDE DEF NoOffer, Line, Cursor
  <2> QED BY <1>1, <1>2, <1>4, <2>1, <2>2 DEF TextInv, Awake
<1> QED BY <1>5, <1>6, <1>7, <1>8 DEF Completion

LEMMA AddedEntries ==
  ASSUME NEW h \in Seq(Seq(Byte)), NEW line \in Seq(Byte),
         \A k \in DOMAIN h : WellFormed(h[k]), WellFormed(line)
  PROVE  \A k \in DOMAIN Added(h, line) : WellFormed(Added(h, line)[k])
<1>1. Len(h) \in Nat /\ DOMAIN h = 1 .. Len(h)
  BY LenProperties
<1>2. CASE h # <<>> /\ h[Len(h)] = line
  BY <1>2 DEF Added
<1>3. CASE ~(h # <<>> /\ h[Len(h)] = line)
  <2> DEFINE g == IF Len(h) = MaxHistory THEN Tail(h) ELSE h
  <2>1. Added(h, line) = Append(g, line)
    BY <1>3, Zenon DEF Added
  <2>2. g \in Seq(Seq(Byte)) /\ \A k \in 1 .. Len(g) : WellFormed(g[k])
    <3>1. CASE Len(h) = MaxHistory
      <4>1. h # <<>>
        BY <1>1, <3>1, LineEditorAssumption
      <4>2. /\ Tail(h) \in Seq(Seq(Byte)) /\ Len(Tail(h)) = Len(h) - 1
            /\ \A k \in 1 .. Len(Tail(h)) : Tail(h)[k] = h[k + 1]
        BY <4>1, HeadTailProperties
      <4>3. \A k \in 1 .. Len(h) - 1 : k + 1 \in 1 .. Len(h)
        BY <1>1
      <4>4. \A k \in 1 .. Len(Tail(h)) : WellFormed(Tail(h)[k])
        BY <1>1, <4>2, <4>3
      <4>5. g = Tail(h)
        BY <3>1
      <4> QED BY <4>2, <4>4, <4>5
    <3>2. CASE Len(h) # MaxHistory
      BY <1>1, <3>2
    <3> QED BY <3>1, <3>2, SMTT(30)
  <2> HIDE DEF g
  <2>3. /\ Append(g, line) \in Seq(Seq(Byte)) /\ Len(Append(g, line)) = Len(g) + 1
        /\ \A k \in 1 .. Len(g) : Append(g, line)[k] = g[k]
        /\ Append(g, line)[Len(g) + 1] = line
        /\ Len(g) \in Nat
    BY <2>2
  <2>4. \A k \in DOMAIN Append(g, line) : k \in 1 .. Len(g) \/ k = Len(g) + 1
    BY <2>3
  <2> QED BY <2>1, <2>2, <2>3, <2>4
<1> QED BY <1>2, <1>3

LEMMA PoppedEntries ==
  ASSUME NEW h \in Seq(Seq(Byte)), Len(h) > 0, \A k \in DOMAIN h : WellFormed(h[k])
  PROVE  Popped(h) \in Seq(Seq(Byte)) /\ \A k \in DOMAIN Popped(h) : WellFormed(Popped(h)[k])
<1> DEFINE n == Len(h) - 1
<1>1. n \in 0 .. Len(h) /\ n \in Nat /\ DOMAIN h = 1 .. Len(h)
  BY LenProperties
<1>2. Popped(h) = SubSeq(h, 1, n)
  BY DEF Popped
<1> HIDE DEF n
<1>3. /\ Popped(h) \in Seq(Seq(Byte)) /\ Len(Popped(h)) = n
      /\ \A i \in 1 .. n : i \in 1 .. Len(h) /\ Popped(h)[i] = h[i]
  BY <1>1, <1>2
<1> QED BY <1>1, <1>3

LEMMA GivesText ==
  ASSUME LineInv, TextInv, NEW h \in {history, Popped(history)}, Editing \/ Completing, Gives(h)
  PROVE  TextInv'
<1>1. /\ Awake /\ buf' = <<>> /\ pos' = 0 /\ screen' = Blank /\ offer' = NoOffer
      /\ at' \in {"undefined", "command"} /\ history' = Added(h, buf)
  BY DEF Gives, Leaves, Becomes, Awake, Editing, Completing
<1>2. /\ history \in Seq(Seq(Byte)) /\ Len(history) > 0
      /\ \A k \in DOMAIN history : WellFormed(history[k])
  BY <1>1 DEF LineInv, TextInv
<1>3. h \in Seq(Seq(Byte)) /\ \A k \in DOMAIN h : WellFormed(h[k])
  BY <1>2, PoppedEntries
<1>4. \A k \in DOMAIN history' : WellFormed(history'[k])
  BY <1>1, <1>3, LineText, AddedEntries
<1>5. Between(<<>>, 0)
  BY EmptyText
<1>6. \A k \in DOMAIN NoOffer.lc : FALSE
  BY DEF NoOffer
<1> HIDE DEF NoOffer
<1> QED BY <1>1, <1>4, <1>5, <1>6 DEF TextInv, Awake

LEMMA NewLineText ==
  ASSUME LineInv, TextInv, NewLine
  PROVE  TextInv'
<1>1. /\ Awake /\ buf' = buf /\ pos' = pos /\ offer' = offer /\ at' = "editing" /\ at = "command"
      /\ history' = Added(history, <<>>)
  BY DEF NewLine, lineVars, Awake
<1>2. /\ history \in Seq(Seq(Byte)) /\ \A k \in DOMAIN history : WellFormed(history[k])
      /\ Between(buf, pos) /\ offer = NoOffer
      /\ \A k \in DOMAIN offer.lc : WellFormed(offer.lc[k])
  BY <1>1 DEF LineInv, TextInv
<1>3. <<>> \in Seq(Byte) /\ WellFormed(<<>>)
  BY DEF WellFormed
<1>4. \A k \in DOMAIN history' : WellFormed(history'[k])
  BY <1>1, <1>2, <1>3, AddedEntries
<1> QED BY <1>1, <1>2, <1>4 DEF TextInv, Awake

LEMMA TextStep ==
  ASSUME LineInv, TextInv, [Next]_vars
  PROVE  TextInv'
<1>1. CASE \E c \in Typed : Insert(c)
  BY <1>1, InsertText
<1>2. CASE \/ MoveLeft \/ MoveRight \/ MoveHome \/ MoveEnd
           \/ Delete \/ Backspace \/ DeleteLine \/ DeleteEnd \/ DeletePrevWord \/ ClearScreen
  BY <1>2, EditingText
<1>3. CASE Transpose
  BY <1>3, TransposeText
<1>4. CASE \E d \in {-1, 1} : HistoryNext(d)
  BY <1>4, HistoryNextText
<1>5. CASE NewLine
  BY <1>5, NewLineText
<1>6. CASE Enter \/ InputFails
  BY <1>6, GivesText DEF Enter, InputFails
<1>7. CASE CtrlC \/ EndOfFile
  BY <1>7 DEF CtrlC, EndOfFile, TextInv, Awake
<1>8. CASE UNCHANGED vars
  BY <1>8 DEF vars, lineVars, historyVars, TextInv, Awake
<1>9. CASE Completion
  BY <1>9, CompletionText
<1> QED BY <1>1, <1>2, <1>3, <1>4, <1>5, <1>6, <1>7, <1>8, <1>9 DEF Next, Key

-----------------------------------------------------------------------------
(* The latest lines.                                                       *)

\* IsLatest of any sequence of lines, and with the lines counted.
LatestFrom(g, h, n) ==
  /\ h \in Seq(Seq(Byte)) /\ Len(h) = Len(g) - n
  /\ \A i \in 1 .. Len(g) - n : h[i] = g[n + i]
  /\ n = 0 \/ Len(h) >= MaxHistory - 1
LatestOf(g, h) == \E n \in 0 .. Len(g) : LatestFrom(g, h, n)

LEMMA LatestIs ==
  ASSUME NEW g \in Seq(Seq(Byte)), NEW h, NEW n \in 0 .. Len(g)
  PROVE  LatestFrom(g, h, n) <=> /\ h = SubSeq(g, n + 1, Len(g))
                                 /\ n = 0 \/ Len(h) >= MaxHistory - 1
<1> DEFINE s == SubSeq(g, n + 1, Len(g))
<1>1. Len(g) \in Nat /\ n \in Nat /\ n <= Len(g)
  BY LenProperties
<1>2. /\ s \in Seq(Seq(Byte)) /\ Len(s) = Len(g) - n
      /\ \A i \in 1 .. Len(g) - n : s[i] = g[n + i]
  BY <1>1
<1> HIDE DEF s
<1>3. LatestFrom(g, h, n) => h = s
  <2> SUFFICES ASSUME LatestFrom(g, h, n) PROVE h = s
    OBVIOUS
  <2>1. /\ h \in Seq(Seq(Byte)) /\ Len(h) = Len(s)
        /\ \A i \in 1 .. Len(h) : h[i] = s[i]
    BY <1>2 DEF LatestFrom
  <2> QED BY <1>2, <2>1, SeqEqual
<1> QED BY <1>2, <1>3 DEF LatestFrom, s

LEMMA LatestAre ==
  ASSUME given \in Seq(Seq(Byte)), NEW h
  PROVE  IsLatest(h) <=> LatestOf(given, h)
BY LatestIs DEF IsLatest, LatestOf

\* One of as many lines as there is room for is dropped.
LEMMA LatestTail ==
  ASSUME NEW g \in Seq(Seq(Byte)), NEW h, LatestOf(g, h), Len(h) = MaxHistory
  PROVE  h # <<>> /\ LatestOf(g, Tail(h))
<1>1. PICK n \in 0 .. Len(g) : LatestFrom(g, h, n)
  BY DEF LatestOf
<1> DEFINE k == Len(g)
           m == n + 1
<1>2. k \in Nat /\ n \in Nat /\ h \in Seq(Seq(Byte)) /\ Len(h) = k - n
      /\ (\A i \in 1 .. k - n : h[i] = g[n + i]) /\ MaxHistory \in Nat \ {0}
  BY <1>1, LenProperties, LineEditorAssumption DEF LatestFrom
<1>3. h # <<>> /\ m \in 0 .. k
  <2>1. k - n > 0
    BY <1>2
  <2> QED BY <1>2, <2>1
<1>4. /\ Tail(h) \in Seq(Seq(Byte)) /\ Len(Tail(h)) = Len(h) - 1
      /\ \A i \in 1 .. Len(Tail(h)) : Tail(h)[i] = h[i + 1]
  BY <1>2, <1>3, HeadTailProperties
<1>5. Len(Tail(h)) = k - m /\ Len(Tail(h)) >= MaxHistory - 1
  BY <1>2, <1>4
<1>6. ASSUME NEW i \in 1 .. k - m PROVE Tail(h)[i] = g[m + i]
  <2>1. i \in 1 .. Len(Tail(h)) /\ i + 1 \in 1 .. k - n /\ n + (i + 1) = m + i
    BY <1>2, <1>5
  <2> QED BY <1>2, <1>4, <2>1
<1>7. LatestFrom(g, Tail(h), m)
  BY <1>4, <1>5, <1>6 DEF LatestFrom
<1> QED BY <1>3, <1>7 DEF LatestOf

\* A line is added to both.
LEMMA LatestAppend ==
  ASSUME NEW g \in Seq(Seq(Byte)), NEW h, LatestOf(g, h), NEW x \in Seq(Byte)
  PROVE  LatestOf(Append(g, x), Append(h, x))
<1>1. PICK n \in 0 .. Len(g) : LatestFrom(g, h, n)
  BY DEF LatestOf
<1> DEFINE k == Len(g)
           a == Append(g, x)
           b == Append(h, x)
<1>2. k \in Nat /\ n \in Nat /\ n <= k /\ h \in Seq(Seq(Byte)) /\ Len(h) = k - n
      /\ (\A i \in 1 .. k - n : h[i] = g[n + i]) /\ (n = 0 \/ Len(h) >= MaxHistory - 1)
      /\ MaxHistory \in Nat
  BY <1>1, LenProperties, LineEditorAssumption DEF LatestFrom
<1>3. /\ a \in Seq(Seq(Byte)) /\ Len(a) = k + 1 /\ a[k + 1] = x
      /\ \A i \in 1 .. k : a[i] = g[i]
  BY AppendProperties
<1>4. /\ b \in Seq(Seq(Byte)) /\ Len(b) = k - n + 1 /\ b[k - n + 1] = x
      /\ \A i \in 1 .. k - n : b[i] = h[i]
  BY <1>2, AppendProperties
<1> HIDE DEF a, b, k
<1>5. ASSUME NEW i \in 1 .. k + 1 - n PROVE b[i] = a[n + i]
  <2>1. CASE i = k - n + 1
    <3>1. n + i = k + 1
      BY <1>2, <2>1
    <3> QED BY <1>3, <1>4, <2>1, <3>1
  <2>2. CASE i # k - n + 1
    <3>1. i \in 1 .. k - n /\ n + i \in 1 .. k
      BY <1>2, <2>2
    <3> QED BY <1>2, <1>3, <1>4, <3>1
  <2> QED BY <2>1, <2>2
<1>6. LatestFrom(a, b, n)
  BY <1>2, <1>3, <1>4, <1>5 DEF LatestFrom
<1>7. n \in 0 .. Len(a)
  BY <1>2, <1>3
<1> QED BY <1>6, <1>7 DEF LatestOf, a, b

\* The last of them is the last line, and all are lines.
LEMMA LatestLast ==
  ASSUME NEW g \in Seq(Seq(Byte)), NEW h, LatestOf(g, h)
  PROVE  /\ h \in Seq(Seq(Byte))
         /\ h # <<>> => g # <<>> /\ h[Len(h)] = g[Len(g)] /\ Len(g) \in 1 .. Len(g)
<1>1. PICK n \in 0 .. Len(g) : LatestFrom(g, h, n)
  BY DEF LatestOf
<1>2. Len(g) \in Nat /\ n \in Nat /\ h \in Seq(Seq(Byte)) /\ Len(h) = Len(g) - n
      /\ \A i \in 1 .. Len(g) - n : h[i] = g[n + i]
  BY <1>1, LenProperties DEF LatestFrom
<1>3. ASSUME h # <<>>
      PROVE  g # <<>> /\ h[Len(h)] = g[Len(g)] /\ Len(g) \in 1 .. Len(g)
  <2> DEFINE i == Len(g) - n
  <2>1. i > 0 /\ i \in 1 .. Len(g) - n /\ n + i = Len(g)
    BY <1>2, <1>3
  <2>2. Len(g) \in 1 .. Len(g)
    BY <1>2, <2>1
  <2> HIDE DEF i
  <2>3. h[Len(h)] = h[i] /\ h[i] = g[Len(g)]
    BY <1>2, <2>1 DEF i
  <2> QED BY <2>2, <2>3
<1> QED BY <1>2, <1>3

\* None are kept, and then the last line is given again.
LEMMA LatestAgain ==
  ASSUME NEW g \in Seq(Seq(Byte)), LatestOf(g, <<>>), g # <<>>
  PROVE  LatestOf(g, <<g[Len(g)]>>)
<1>1. PICK n \in 0 .. Len(g) : LatestFrom(g, <<>>, n)
  BY DEF LatestOf
<1> DEFINE k == Len(g)
           m == k - 1
           b == <<g[k]>>
<1>2. k \in Nat \ {0} /\ MaxHistory \in Nat /\ g[k] \in Seq(Byte)
  BY LenProperties, LineEditorAssumption
<1>3. b \in Seq(Seq(Byte)) /\ Len(b) = 1 /\ b[1] = g[k]
  BY <1>2
<1>4. 1 >= MaxHistory - 1
  <2>1. n = k
    BY <1>1, <1>2 DEF LatestFrom
  <2>2. 0 >= MaxHistory - 1
    BY <1>1, <1>2, <2>1 DEF LatestFrom
  <2> QED BY <1>2, <2>2
<1>5. m \in 0 .. k /\ k - m = 1 /\ m + 1 = k
  BY <1>2
<1> HIDE DEF b, m
<1>6. ASSUME NEW i \in 1 .. k - m PROVE b[i] = g[m + i]
  <2>1. i = 1
    BY <1>5
  <2> QED BY <1>3, <1>5, <2>1
<1>7. LatestFrom(g, b, m)
  BY <1>3, <1>4, <1>5, <1>6 DEF LatestFrom
<1> QED BY <1>5, <1>7 DEF LatestOf, b

-----------------------------------------------------------------------------
(* What the history keeps of them, step by step.                           *)

\* The history without the entry of the line being edited.
Kept == IF at = "command" THEN history ELSE Popped(history)

LEMMA HistoryHolds ==
  ASSUME HistoryInv
  PROVE  /\ given \in Seq(Seq(Byte))
         /\ Awake => \A i \in DOMAIN given : given[i] # <<>>
         /\ Awake /\ ~altered => LatestOf(given, Kept)
BY LatestAre DEF HistoryInv, Kept

LEMMA HistoryStays ==
  ASSUME given' \in Seq(Seq(Byte)),
         Awake' => \A i \in DOMAIN given' : given'[i] # <<>>,
         Awake' /\ ~altered' => LatestOf(given', Kept')
  PROVE  HistoryInv'
<1>1. ASSUME NEW h, LatestOf(given', h)
      PROVE  \E n \in 0 .. Len(given') : /\ h = SubSeq(given', n + 1, Len(given'))
                                         /\ n = 0 \/ Len(h) >= MaxHistory - 1
  BY <1>1, LatestIs DEF LatestOf
<1>2. ASSUME Awake', ~altered' PROVE IsLatest(IF at = "command" THEN history ELSE Popped(history))'
  BY <1>1, <1>2 DEF IsLatest, Kept
<1> QED BY <1>2 DEF HistoryInv

\* A step that leaves the history alone.
LEMMA HistoryKept ==
  ASSUME HistoryInv, Editing \/ Completing, UNCHANGED historyVars, at' # "command"
  PROVE  HistoryInv'
<1>1. Awake /\ Kept' = Kept /\ given' = given /\ altered' = altered
  BY DEF Awake, Kept, Editing, Completing, historyVars
<1> HIDE DEF Kept
<1> QED BY <1>1, HistoryHolds, HistoryStays

LEMMA NewLineHistory ==
  ASSUME LineInv, HistoryInv, NewLine
  PROVE  HistoryInv'
<1>1. /\ Awake /\ at = "command" /\ at' = "editing" /\ given' = given /\ altered' = altered
      /\ history' = Added(history, <<>>)
  BY DEF NewLine, Awake
<1>2. /\ given \in Seq(Seq(Byte)) /\ \A i \in DOMAIN given : given[i] # <<>>
      /\ ~altered => LatestOf(given, history)
  BY <1>1, HistoryHolds DEF Kept
<1>3. ASSUME ~altered PROVE LatestOf(given, Popped(history'))
  <2> DEFINE g == IF Len(history) = MaxHistory THEN Tail(history) ELSE history
  <2>1. ~(history # <<>> /\ history[Len(history)] = <<>>)
    BY <1>2, <1>3, LatestLast, LenProperties
  <2>2. history' = Append(g, <<>>)
    BY <1>1, <2>1, Zenon DEF Added
  <2>3. LatestOf(given, g)
    BY <1>2, <1>3, LatestTail
  <2> HIDE DEF g
  <2>4. g \in Seq(Seq(Byte)) /\ <<>> \in Seq(Byte)
    BY <1>2, <2>3, LatestLast
  <2>5. Popped(Append(g, <<>>)) = g
    BY <2>4, SMTT(30) DEF Popped
  <2> QED BY <2>2, <2>3, <2>5
<1>4. Kept' = Popped(history')
  BY <1>1 DEF Kept
<1> QED BY <1>1, <1>2, <1>3, <1>4, HistoryStays

LEMMA EnterHistory ==
  ASSUME LineInv, HistoryInv, Enter
  PROVE  HistoryInv'
<1> DEFINE P == Popped(history)
           again == given # <<>> /\ given[Len(given)] = buf
<1>1. /\ Awake /\ at = "editing" /\ altered' = altered /\ buf \in Seq(Byte)
      /\ history' = Added(P, buf)
      /\ at' = IF buf = <<>> THEN "undefined" ELSE "command"
      /\ given' = IF altered \/ again THEN given ELSE Append(given, buf)
  BY DEF Enter, Gives, Editing, Awake, LineInv
<1>2. /\ given \in Seq(Seq(Byte)) /\ \A i \in DOMAIN given : given[i] # <<>>
      /\ ~altered => LatestOf(given, P)
  BY <1>1, HistoryHolds DEF Kept
<1>3. /\ P \in Seq(Seq(Byte)) /\ Len(P) # MaxHistory
  <2> DEFINE n == Len(history) - 1
  <2>1. history \in Seq(Seq(Byte)) /\ Len(history) <= MaxHistory /\ history_index \in Nat
        /\ history_index < Len(history) /\ MaxHistory \in Nat
    BY <1>1, LineEditorAssumption DEF LineInv, Editing
  <2>2. n \in Nat /\ n \in 0 .. Len(history) /\ n # MaxHistory
    BY <2>1
  <2> HIDE DEF n
  <2>3. SubSeq(history, 1, n) \in Seq(Seq(Byte)) /\ Len(SubSeq(history, 1, n)) = n
    BY <2>1, <2>2
  <2> QED BY <2>2, <2>3 DEF Popped, n
<1> HIDE DEF P
<1>4. /\ Append(given, buf) \in Seq(Seq(Byte))
      /\ buf # <<>> => \A i \in DOMAIN Append(given, buf) : Append(given, buf)[i] # <<>>
  <2>1. /\ Append(given, buf) \in Seq(Seq(Byte)) /\ Len(Append(given, buf)) = Len(given) + 1
        /\ \A i \in 1 .. Len(given) : Append(given, buf)[i] = given[i]
        /\ Append(given, buf)[Len(given) + 1] = buf
        /\ Len(given) \in Nat
    BY <1>1, <1>2, AppendProperties, LenProperties
  <2>2. \A i \in DOMAIN Append(given, buf) : i \in DOMAIN given \/ i = Len(given) + 1
    BY <1>2, <2>1
  <2> QED BY <1>2, <2>1, <2>2, LenProperties
<1>5. ASSUME ~altered, buf # <<>> PROVE LatestOf(given', history')
  <2>1. LatestOf(given, P)
    BY <1>2, <1>5
  <2>2. CASE P # <<>>
    <3>1. given # <<>> /\ P[Len(P)] = given[Len(given)]
      BY <1>2, <2>1, <2>2, LatestLast
    <3>2. CASE again
      <4>1. given' = given /\ history' = P
        BY <1>1, <2>2, <3>1, <3>2 DEF Added
      <4> QED BY <2>1, <4>1
    <3>3. CASE ~again
      <4>1. given' = Append(given, buf) /\ history' = Append(P, buf)
        BY <1>1, <1>3, <1>5, <3>1, <3>3 DEF Added
      <4> QED BY <1>1, <1>2, <2>1, <4>1, LatestAppend
    <3> QED BY <3>2, <3>3
  <2>3. CASE P = <<>>
    <3>1. history' = Append(P, buf)
      BY <1>1, <1>3, <2>3 DEF Added
    <3>2. CASE again
      <4>1. given' = given /\ given # <<>> /\ history' = <<given[Len(given)]>>
        BY <1>1, <2>3, <3>1, <3>2
      <4>2. LatestOf(given, <<>>)
        BY <2>1, <2>3
      <4> QED BY <1>2, <4>1, <4>2, LatestAgain
    <3>3. CASE ~again
      <4>1. given' = Append(given, buf)
        BY <1>1, <1>5, <3>3
      <4> QED BY <1>1, <1>2, <2>1, <3>1, <4>1, LatestAppend
    <3> QED BY <3>2, <3>3
  <2> QED BY <2>2, <2>3
<1>6. given' \in Seq(Seq(Byte))
  BY <1>1, <1>2, <1>4
<1>7. Awake' => buf # <<>> /\ at' = "command"
  BY <1>1 DEF Awake
<1>8. Awake' => \A i \in DOMAIN given' : given'[i] # <<>>
  BY <1>1, <1>2, <1>4, <1>7
<1>9. Awake' => Kept' = history'
  BY <1>7 DEF Kept
<1> QED BY <1>1, <1>5, <1>6, <1>7, <1>8, <1>9, HistoryStays

LEMMA PoppedSame ==
  ASSUME NEW g \in Seq(Seq(Byte)), NEW h \in Seq(Seq(Byte)), Len(g) = Len(h), Len(g) > 0,
         \A i \in 1 .. Len(g) - 1 : g[i] = h[i]
  PROVE  Popped(g) = Popped(h)
<1> DEFINE n == Len(g) - 1
           a == SubSeq(g, 1, n)
           b == SubSeq(h, 1, n)
<1>1. n \in Nat /\ Popped(g) = a /\ Popped(h) = b /\ n <= Len(g) /\ n <= Len(h)
  BY LenProperties DEF Popped
<1> HIDE DEF n
<1>2. /\ a \in Seq(Seq(Byte)) /\ Len(a) = n /\ \A i \in 1 .. n : a[i] = g[i]
      /\ b \in Seq(Seq(Byte)) /\ Len(b) = n /\ \A i \in 1 .. n : b[i] = h[i]
  BY <1>1
<1>3. \A i \in 1 .. Len(a) : a[i] = b[i]
  BY <1>2 DEF n
<1> HIDE DEF a, b
<1>4. a = b
  BY <1>2, <1>3, SeqEqual
<1> QED BY <1>1, <1>4

\* A line put in the last entry, or where it was, changes no other.
LEMMA PutBack ==
  ASSUME NEW h \in Seq(Seq(Byte)), NEW line \in Seq(Byte), NEW k \in 1 .. Len(h),
         k = Len(h) \/ h[k] = line
  PROVE  Popped([h EXCEPT ![k] = line]) = Popped(h)
<1> DEFINE g == [h EXCEPT ![k] = line]
<1>1. g \in Seq(Seq(Byte)) /\ Len(g) = Len(h) /\ Len(h) \in Nat /\ Len(h) > 0
  BY ExceptSeq, LenProperties
<1>2. \A i \in DOMAIN h : g[i] = IF i = k THEN line ELSE h[i]
  BY ZenonT(30)
<1>3. DOMAIN h = 1 .. Len(h)
  BY LenProperties, Zenon
<1> HIDE DEF g
<1>4. ASSUME NEW i \in 1 .. Len(g) - 1 PROVE g[i] = h[i]
  <2>1. i \in 1 .. Len(h) /\ i # Len(h)
    BY <1>1
  <2> QED BY <1>2, <1>3, <2>1
<1>5. Popped(g) = Popped(h)
  BY <1>1, <1>4, PoppedSame
<1> QED BY <1>5 DEF g

LEMMA HistoryNextHistory ==
  ASSUME LineInv, HistoryInv, NEW d \in {-1, 1}, HistoryNext(d)
  PROVE  HistoryInv'
<1> DEFINE n    == Len(history)
           here == n - history_index
<1>1. /\ at = "editing" /\ at' = "editing" /\ Awake /\ buf \in Seq(Byte)
      /\ history \in Seq(Seq(Byte)) /\ history_index \in Nat /\ history_index < n
      /\ history' = [history EXCEPT ![here] = buf]
      /\ IF history_index > 0 /\ history[here] # buf
         THEN altered' = TRUE /\ given' = <<>>
         ELSE given' = given /\ altered' = altered
  BY DEF HistoryNext, Editing, Awake, LineInv, Altered
<1>2. /\ given \in Seq(Seq(Byte)) /\ \A i \in DOMAIN given : given[i] # <<>>
      /\ ~altered => LatestOf(given, Popped(history))
  BY <1>1, HistoryHolds DEF Kept
<1>3. CASE history_index > 0 /\ history[here] # buf
  <2>1. altered' = TRUE /\ given' = <<>>
    BY <1>1, <1>3
  <2>2. <<>> \in Seq(Seq(Byte)) /\ \A i \in DOMAIN <<>> : FALSE
    OBVIOUS
  <2> QED BY <2>1, <2>2, HistoryStays
<1>4. CASE ~(history_index > 0 /\ history[here] # buf)
  <2>1. n \in Nat /\ here \in 1 .. n /\ DOMAIN history = 1 .. n
    BY <1>1, LenProperties
  <2>2. given' = given /\ altered' = altered
    BY <1>1, <1>4
  <2>3. Popped(history') = Popped(history)
    <3>1. history_index = 0 => n - history_index = n
      BY <2>1
    <3>2. here = Len(history) \/ history[here] = buf
      BY <1>1, <1>4, <3>1
    <3>3. here \in 1 .. Len(history)
      BY <2>1
    <3> HIDE DEF here
    <3> QED BY <1>1, <3>2, <3>3, PutBack
  <2>4. Kept' = Popped(history')
    BY <1>1 DEF Kept
  <2> QED BY <1>2, <2>2, <2>3, <2>4, HistoryStays
<1> QED BY <1>3, <1>4

LEMMA HistoryStep ==
  ASSUME LineInv, HistoryInv, [Next]_vars
  PROVE  HistoryInv'
<1>1. CASE Key
  <2>1. CASE \E d \in {-1, 1} : HistoryNext(d)
    BY <2>1, HistoryNextHistory
  <2>2. CASE ~\E d \in {-1, 1} : HistoryNext(d)
    <3>1. Editing /\ UNCHANGED historyVars /\ at' # "command"
      BY <1>1, <2>2 DEF Key, Insert, MoveLeft, MoveRight, MoveHome, MoveEnd, Delete, Backspace,
             DeleteLine, DeleteEnd, DeletePrevWord, Transpose, ClearScreen, Edits, Editing
    <3> QED BY <3>1, HistoryKept
  <2> QED BY <2>1, <2>2
<1>2. CASE Completion
  <2>1. (Editing \/ Completing) /\ UNCHANGED historyVars /\ at' # "command"
    BY <1>2 DEF Completion, Complete, NextOffer, Cancel, Accept, Editing, Completing
  <2> QED BY <2>1, HistoryKept
<1>3. CASE NewLine
  BY <1>3, NewLineHistory
<1>4. CASE Enter
  BY <1>4, EnterHistory
<1>5. CASE InputFails
  <2>1. altered' = TRUE /\ given' = <<>>
    BY <1>5 DEF InputFails, Altered
  <2>2. <<>> \in Seq(Seq(Byte)) /\ \A i \in DOMAIN <<>> : FALSE
    OBVIOUS
  <2> QED BY <2>1, <2>2, HistoryStays
<1>6. CASE CtrlC \/ EndOfFile
  <2>1. given' = given /\ at' = "quit"
    BY <1>6 DEF CtrlC, EndOfFile
  <2> QED BY <2>1, HistoryHolds, HistoryStays DEF Awake
<1>7. CASE UNCHANGED vars
  <2>1. UNCHANGED <<given, altered, at, history>>
    BY <1>7 DEF vars, historyVars
  <2>2. Kept' = Kept /\ Awake' = Awake
    BY <2>1 DEF Kept, Awake
  <2> QED BY <2>1, <2>2, HistoryHolds, HistoryStays
<1> QED BY <1>1, <1>2, <1>3, <1>4, <1>5, <1>6, <1>7 DEF Next

-----------------------------------------------------------------------------
(* Columns.                                                                *)

LEMMA CountType ==
  ASSUME NEW s \in Seq(Byte), NEW S
  PROVE  /\ IsFiniteSet({i \in DOMAIN s : s[i] \in S})
         /\ Count(s, S) \in Nat
<1>1. Len(s) \in Nat /\ DOMAIN s = 1 .. Len(s)
  BY LenProperties
<1>2. IsFiniteSet(1 .. Len(s))
  BY <1>1, FS_Interval
<1>3. {i \in DOMAIN s : s[i] \in S} \in SUBSET (1 .. Len(s))
  BY <1>1
<1> DEFINE D == {i \in DOMAIN s : s[i] \in S}
<1> HIDE DEF D
<1>4. IsFiniteSet(D) /\ Cardinality(D) \in Nat
  BY <1>2, <1>3, FS_Subset, FS_CardinalityType DEF D
<1> QED BY <1>4 DEF D, Count

LEMMA CountJoined ==
  ASSUME NEW s \in Seq(Byte), NEW t \in Seq(Byte), NEW S
  PROVE  Count(s \o t, S) = Count(s, S) + Count(t, S)
<1> DEFINE u == s \o t
           m == Len(s)
           n == Len(t)
           A == {i \in DOMAIN s : s[i] \in S}
           B == {i \in DOMAIN t : t[i] \in S}
           C == {i \in DOMAIN u : u[i] \in S}
           M == {m + i : i \in B}
           f == [i \in B |-> m + i]
<1>1. /\ m \in Nat /\ n \in Nat /\ u \in Seq(Byte) /\ Len(u) = m + n
      /\ DOMAIN s = 1 .. m /\ DOMAIN t = 1 .. n /\ DOMAIN u = 1 .. m + n
      /\ \A i \in 1 .. m : u[i] = s[i]
      /\ \A i \in 1 .. n : u[m + i] = t[i]
  BY LenProperties, JoinedText
<1>2. /\ IsFiniteSet(A) /\ IsFiniteSet(B) /\ IsFiniteSet(C)
      /\ Count(s, S) = Cardinality(A) /\ Count(t, S) = Cardinality(B)
      /\ Count(u, S) = Cardinality(C)
      /\ Count(s, S) \in Nat /\ Count(t, S) \in Nat
  BY <1>1, CountType DEF Count
<1>3. A \subseteq 1 .. m /\ B \subseteq 1 .. n
  BY <1>1
<1>4. C = A \cup M
  <2>1. ASSUME NEW k \in C PROVE k \in A \cup M
    <3>1. CASE k <= m
      BY <1>1, <2>1, <3>1
    <3>2. CASE ~(k <= m)
      <4> DEFINE i == k - m
      <4>1. i \in 1 .. n /\ k = m + i
        BY <1>1, <2>1, <3>2
      <4> HIDE DEF i
      <4>2. i \in B
        BY <1>1, <2>1, <4>1
      <4> QED BY <4>1, <4>2
    <3> QED BY <3>1, <3>2
  <2>2. ASSUME NEW k \in A PROVE k \in C
    BY <1>1, <2>2
  <2>3. ASSUME NEW i \in B PROVE m + i \in C
    <3>1. i \in 1 .. n /\ t[i] \in S
      BY <1>1, <2>3
    <3>2. m + i \in 1 .. m + n
      BY <1>1, <3>1
    <3> QED BY <1>1, <3>1, <3>2
  <2> HIDE DEF A, B, C
  <2> QED BY <2>1, <2>2, <2>3
<1> HIDE DEF A, B, C
<1>5. f \in Bijection(B, M)
  <2>1. \A i \in B : i \in Int
    BY <1>3
  <2>2. \A i, j \in B : m + i = m + j => i = j
    BY <1>1, <2>1
  <2> QED BY <2>2 DEF Bijection, Injection, Surjection, IsInjective
<1> HIDE DEF f, M
<1>6. IsFiniteSet(M) /\ Cardinality(M) = Cardinality(B)
  BY <1>2, <1>5, FS_Bijection DEF ExistsBijection
<1>7. A \cap M = {}
  BY <1>1, <1>3 DEF M
<1>8. Cardinality(C) = Cardinality(A) + Cardinality(B)
  <2>1. Cardinality(A \cup M) = Cardinality(A) + Cardinality(M) - Cardinality(A \cap M)
    BY <1>2, <1>6, FS_Union
  <2>2. Cardinality(A \cap M) = 0
    BY <1>7, FS_EmptySet
  <2> QED BY <1>2, <1>4, <1>6, <2>1, <2>2
<1> HIDE DEF u
<1>9. Count(u, S) = Count(s, S) + Count(t, S)
  BY <1>2, <1>8
<1> QED BY <1>9 DEF u

LEMMA WidthType ==
  ASSUME NEW s \in Seq(Byte)
  PROVE  Width(s) \in Nat
<1>1. Count(s, Ascii) \in Nat /\ Count(s, Wide) \in Nat
  BY CountType
<1> QED BY <1>1 DEF Width

LEMMA WidthJoined ==
  ASSUME NEW s \in Seq(Byte), NEW t \in Seq(Byte)
  PROVE  Width(s \o t) = Width(s) + Width(t)
<1>1. /\ Count(s, Ascii) \in Nat /\ Count(s, Wide) \in Nat
      /\ Count(t, Ascii) \in Nat /\ Count(t, Wide) \in Nat
  BY CountType
<1>2. /\ Count(s \o t, Ascii) = Count(s, Ascii) + Count(t, Ascii)
      /\ Count(s \o t, Wide) = Count(s, Wide) + Count(t, Wide)
  BY CountJoined
<1> QED BY <1>1, <1>2 DEF Width

LEMMA WidthOfNothing == Width(<<>>) = 0
<1>1. \A S : {i \in DOMAIN <<>> : <<>>[i] \in S} = {}
  OBVIOUS
<1>2. \A S : Count(<<>>, S) = 0
  BY <1>1, FS_EmptySet DEF Count
<1> QED BY <1>2 DEF Width

\* A piece of the line, or nothing.
LEMMA PieceWidth ==
  ASSUME NEW s \in Seq(Byte), NEW i \in Nat, NEW p \in 0 .. Len(s)
  PROVE  /\ Piece(s, i, p) \in Seq(Byte) /\ Width(Piece(s, i, p)) \in Nat
         /\ i >= p => Width(Piece(s, i, p)) = 0
<1>1. Len(s) \in Nat /\ p \in Nat
  BY LenProperties
<1>2. CASE i >= p
  <2>1. Piece(s, i, p) = <<>>
    BY <1>1, <1>2, SubSeqEmpty DEF Piece
  <2> QED BY <2>1, WidthOfNothing, EmptySeq
<1>3. CASE ~(i >= p)
  <2>1. Piece(s, i, p) \in Seq(Byte)
    BY <1>1, <1>3, PieceType
  <2> QED BY <1>3, <2>1, WidthType
<1> QED BY <1>2, <1>3

-----------------------------------------------------------------------------
(* What a refresh shows.                                                   *)

LEMMA MinIs0 ==
  ASSUME NEW S, S \subseteq Nat, 0 \in S
  PROVE  Min(S) = 0
<1>1. \E x \in S : \A y \in S : x <= y
  BY Smallest
<1>2. Min(S) \in S /\ \A y \in S : Min(S) <= y
  BY <1>1 DEF Min
<1>3. Min(S) \in Nat /\ Min(S) <= 0
  BY <1>2
<1> QED BY <1>3

LEMMA MaxIsLast ==
  ASSUME NEW n \in Nat, NEW S, S \subseteq 0 .. n, n \in S
  PROVE  Max(S) = n
<1>1. \E x \in S : \A y \in S : x >= y
  BY DEF Max
<1>2. Max(S) \in S /\ \A y \in S : Max(S) >= y
  BY <1>1 DEF Max
<1>3. Max(S) \in 0 .. n /\ Max(S) >= n
  BY <1>2
<1> QED BY <1>3

\* The text is a piece of the line, and the cursor is on it.
LEMMA ShownFits ==
  ASSUME NEW s \in Seq(Byte), NEW p \in 0 .. Len(s)
  PROVE  LET shown == Shown(s, p)
         IN  /\ shown.col \in Prompt .. Columns - 1
             /\ Prompt + Width(shown.text) <= Columns
             /\ \E i \in 0 .. Len(s) : /\ shown.text = Piece(s, i, i + Len(shown.text))
                                       /\ shown.col = Prompt + Width(Piece(s, i, p))
<1> DEFINE F == {i \in Starts(s) \cup {0} : Prompt + Width(Piece(s, i, p)) < Columns}
           from == Min(F)
           T == {i \in Starts(s) \cup {from} : i >= from /\ Prompt + Width(Piece(s, from, i)) <= Columns}
           to == Max(T)
<1>1. /\ Len(s) \in Nat /\ p \in Nat /\ p <= Len(s)
      /\ Prompt \in Nat /\ Columns \in Nat /\ Prompt < Columns
  BY LenProperties, LineEditorAssumption
<1>2. Starts(s) \subseteq 0 .. Len(s) /\ Len(s) \in Starts(s) /\ 0 \in 0 .. Len(s)
  BY <1>1 DEF Starts
<1>3. F \subseteq 0 .. Len(s) /\ F # {}
  <2>1. Width(Piece(s, Len(s), p)) = 0
    BY <1>1, PieceWidth
  <2>2. Len(s) \in F
    BY <1>1, <1>2, <2>1
  <2> QED BY <1>2, <2>2
<1>4. from \in F
  <2> HIDE DEF F
  <2>1. F \subseteq Nat
    BY <1>1, <1>3
  <2> QED BY <1>3, <2>1, MinIn
<1>5. from \in 0 .. Len(s) /\ Prompt + Width(Piece(s, from, p)) < Columns /\ from \in Nat
  <2>1. Prompt + Width(Piece(s, from, p)) < Columns
    BY <1>4
  <2> HIDE DEF from, F
  <2> QED BY <1>1, <1>3, <1>4, <2>1
<1> HIDE DEF from
<1>6. T \subseteq 0 .. Len(s) /\ T # {}
  <2>1. Width(Piece(s, from, from)) = 0
    BY <1>5, PieceWidth
  <2>2. from \in T
    BY <1>1, <1>5, <2>1
  <2> QED BY <1>2, <1>5, <2>2
<1>7. to \in T
  <2> HIDE DEF T
  <2> QED BY <1>1, <1>6, MaxIn
<1>8. to \in 0 .. Len(s) /\ to >= from /\ Prompt + Width(Piece(s, from, to)) <= Columns
  <2>1. to >= from /\ Prompt + Width(Piece(s, from, to)) <= Columns
    BY <1>7
  <2> HIDE DEF to, T
  <2> QED BY <1>6, <1>7, <2>1
<1>9. Shown(s, p) = [text |-> Piece(s, from, to), col |-> Prompt + Width(Piece(s, from, p))]
  BY DEF Shown, from
<1> HIDE DEF to
<1>10. Len(Piece(s, from, to)) = to - from
  BY <1>1, <1>5, <1>8, PieceType
<1>11. from + (to - from) = to
  BY <1>5, <1>8
<1>12. Width(Piece(s, from, p)) \in Nat
  BY <1>5, PieceWidth
<1>13. Prompt + Width(Piece(s, from, p)) \in Prompt .. Columns - 1
  BY <1>1, <1>5, <1>12
<1> QED BY <1>5, <1>8, <1>9, <1>10, <1>11, <1>13

\* A line that fits is shown as it is.
LEMMA ShownWhole ==
  ASSUME NEW s \in Seq(Byte), Fits(s)
  PROVE  Shown(s, Len(s)) = [text |-> s, col |-> Prompt + Width(s)]
<1> DEFINE n == Len(s)
           F == {i \in Starts(s) \cup {0} : Prompt + Width(Piece(s, i, n)) < Columns}
           T == {i \in Starts(s) \cup {0} : i >= 0 /\ Prompt + Width(Piece(s, 0, i)) <= Columns}
<1>1. /\ n \in Nat /\ Prompt \in Nat /\ Columns \in Nat /\ Width(s) \in Nat
      /\ Starts(s) \subseteq 0 .. n /\ n \in Starts(s)
  BY LenProperties, WidthType, LineEditorAssumption DEF Starts
<1>2. Piece(s, 0, n) = s
  BY SubSeqFull DEF Piece
<1>3. Min(F) = 0
  <2>1. F \subseteq Nat /\ 0 \in F
    BY <1>1, <1>2 DEF Fits
  <2> HIDE DEF F
  <2> QED BY <2>1, MinIs0
<1>4. Max(T) = n
  <2>1. 0 \in 0 .. n
    BY <1>1
  <2>2. T \subseteq 0 .. n /\ n \in T
    BY <1>1, <1>2, <2>1 DEF Fits
  <2> HIDE DEF T, n
  <2> QED BY <1>1, <2>2, MaxIsLast
<1>5. Shown(s, n) = [text |-> Piece(s, Min(F), Max({i \in Starts(s) \cup {Min(F)} :
                                i >= Min(F) /\ Prompt + Width(Piece(s, Min(F), i)) <= Columns})),
                     col |-> Prompt + Width(Piece(s, Min(F), n))]
  BY DEF Shown
<1> HIDE DEF F
<1>6. Shown(s, n) = [text |-> Piece(s, 0, Max(T)), col |-> Prompt + Width(Piece(s, 0, n))]
  BY <1>3, <1>5
<1> HIDE DEF T
<1> QED BY <1>2, <1>4, <1>6

LEMMA ShownBlank == Shown(<<>>, 0) = Blank
<1>1. <<>> \in Seq(Byte) /\ Len(<<>>) = 0
  BY EmptySeq
<1>2. Prompt + Width(<<>>) = Prompt /\ Fits(<<>>)
  BY WidthOfNothing, LineEditorAssumption DEF Fits
<1> DEFINE s == <<>>
<1> HIDE DEF s
<1>3. s \in Seq(Byte) /\ Len(s) = 0 /\ Fits(s) /\ Prompt + Width(s) = Prompt
  BY <1>1, <1>2 DEF s
<1>4. Shown(s, 0) = [text |-> s, col |-> Prompt]
  BY <1>3, ShownWhole
<1> QED BY <1>4 DEF s, Blank

-----------------------------------------------------------------------------
(* The screen is at any time what a refresh would show.                    *)

\* No completion is offered: the line is the one being edited.
LEMMA NotOffered ==
  ASSUME offer = NoOffer
  PROVE  ~Offered /\ Line = buf /\ Cursor = pos
<1>1. offer.i = 0 /\ Len(offer.lc) = 0
  BY DEF NoOffer
<1>2. ~Offered
  BY <1>1 DEF Offered
<1> QED BY <1>2 DEF Line, Cursor

LEMMA NotOfferedNext ==
  ASSUME offer' = NoOffer
  PROVE  Line' = buf' /\ Cursor' = pos'
<1>1. offer'.i = 0 /\ Len(offer'.lc) = 0
  BY DEF NoOffer
<1>2. ~(Offered')
  BY <1>1 DEF Offered
<1> QED BY <1>2 DEF Line, Cursor

LEMMA ScreenRefreshed ==
  ASSUME TextInv, Editing, offer' = offer, Refresh
  PROVE  ScreenInv'
<1>1. offer' = NoOffer
  BY DEF TextInv, Awake, Editing
<1>2. Line' = buf' /\ Cursor' = pos'
  BY <1>1, NotOfferedNext
<1>3. screen' = Shown(buf', pos')
  BY DEF Refresh
<1>4. screen' = Shown(Line', Cursor')
  BY <1>2, <1>3
<1> QED BY <1>4 DEF ScreenInv

\* A character written behind a line that fits.
LEMMA ScreenWritten ==
  ASSUME LineInv, TextInv, ScreenInv, NEW c \in Typed, Insert(c),
         pos = Len(buf), Fits(With(Bytes(c)))
  PROVE  ScreenInv'
<1> DEFINE b == Bytes(c)
           s == buf \o b
<1>1. /\ Editing /\ Awake /\ offer' = offer /\ buf' = With(b) /\ pos' = pos + Len(b)
      /\ screen' = [text |-> screen.text \o b, col |-> screen.col + Width(b)]
  BY DEF Insert, Editing, Awake, Becomes
<1>2. offer = NoOffer
  BY <1>1 DEF TextInv, Editing
<1>3. screen = Shown(buf, pos)
  <2>1. screen = Shown(Line, Cursor)
    BY <1>1 DEF ScreenInv
  <2>2. Line = buf /\ Cursor = pos
    BY <1>2, NotOffered
  <2> QED BY <2>1, <2>2
<1>4. buf \in Seq(Byte) /\ b \in Seq(Byte)
  BY BytesFormed DEF LineInv
<1>5. With(b) = s
  <2> DEFINE l == Piece(buf, 0, pos)
             r == Piece(buf, pos, Len(buf))
  <2>1. l = buf /\ r = <<>>
    BY <1>4, SubSeqFull, SubSeqEmpty, LenProperties DEF Piece
  <2>2. With(b) = l \o b \o r
    BY DEF With
  <2> HIDE DEF l, r, b
  <2>3. buf \o b \in Seq(Byte)
    BY <1>4, ConcatProperties
  <2> QED BY <2>1, <2>2, <2>3, ConcatEmptySeq
<1> HIDE DEF b
<1>6. /\ Width(buf) \in Nat /\ Width(b) \in Nat /\ Width(s) = Width(buf) + Width(b)
      /\ Prompt \in Nat /\ Columns \in Nat
      /\ s \in Seq(Byte) /\ Len(s) = Len(buf) + Len(b)
  BY <1>4, WidthType, WidthJoined, ConcatProperties, LineEditorAssumption
<1>7. Fits(s)
  BY <1>5 DEF b
<1>8. Fits(buf)
  BY <1>6, <1>7 DEF Fits
<1>9. screen = [text |-> buf, col |-> Prompt + Width(buf)]
  BY <1>3, <1>4, <1>8, ShownWhole
<1>10. Shown(s, Len(s)) = [text |-> s, col |-> Prompt + Width(s)]
  BY <1>6, <1>7, ShownWhole
<1>11. screen' = [text |-> s, col |-> (Prompt + Width(buf)) + Width(b)]
  BY <1>1, <1>9
<1>12. (Prompt + Width(buf)) + Width(b) = Prompt + Width(s)
  BY <1>6
<1>13. buf' = s /\ pos' = Len(s)
  BY <1>1, <1>5, <1>6
<1>14. screen' = Shown(buf', pos')
  BY <1>10, <1>11, <1>12, <1>13
<1>15. offer' = NoOffer
  BY <1>1, <1>2
<1>16. Line' = buf' /\ Cursor' = pos'
  BY <1>15, NotOfferedNext
<1> QED BY <1>14, <1>16 DEF ScreenInv

LEMMA ScreenStep ==
  ASSUME LineInv, TextInv, ScreenInv, [Next]_vars, TextInv'
  PROVE  ScreenInv'
<1>1. CASE Key
  <2>1. CASE \E c \in Typed : Insert(c)
    <3>1. PICK c \in Typed : Insert(c)
      BY <2>1
    <3>2. CASE pos = Len(buf) /\ Fits(With(Bytes(c)))
      BY <3>1, <3>2, ScreenWritten
    <3>3. CASE ~(pos = Len(buf) /\ Fits(With(Bytes(c))))
      <4>1. Editing /\ offer' = offer /\ Refresh
        BY <3>1, <3>3 DEF Insert
      <4> QED BY <4>1, ScreenRefreshed
    <3> QED BY <3>2, <3>3
  <2>3. CASE Transpose
    <3>1. CASE at' = "stuck"
      BY <3>1 DEF ScreenInv, Awake
    <3>2. CASE at' # "stuck"
      <4>1. Editing /\ offer' = offer /\ Refresh
        BY <2>3, <3>2 DEF Transpose
      <4> QED BY <4>1, ScreenRefreshed
    <3> QED BY <3>1, <3>2
  <2>4. CASE \E d \in {-1, 1} : HistoryNext(d)
    <3>1. PICK d \in {-1, 1} : HistoryNext(d)
      BY <2>4
    <3>2. Editing /\ offer' = offer /\ (Refresh \/ UNCHANGED lineVars)
      BY <3>1 DEF HistoryNext
    <3>3. CASE UNCHANGED lineVars
      <4>1. Awake /\ Line' = Line /\ Cursor' = Cursor /\ screen' = screen
        BY <3>2, <3>3 DEF lineVars, Awake, Editing, Line, Cursor, Offered
      <4> QED BY <4>1 DEF ScreenInv
    <3> QED BY <3>2, <3>3, ScreenRefreshed
  <2>5. CASE \/ MoveLeft \/ MoveRight \/ MoveHome \/ MoveEnd
             \/ Delete \/ Backspace \/ DeleteLine \/ DeleteEnd \/ DeletePrevWord \/ ClearScreen
    <3>1. Editing /\ offer' = offer /\ Refresh
      BY <2>5 DEF MoveLeft, MoveRight, MoveHome, MoveEnd, Delete, Backspace, DeleteLine,
             DeleteEnd, DeletePrevWord, ClearScreen, Edits
    <3> QED BY <3>1, ScreenRefreshed
  <2> QED BY <1>1, <2>1, <2>3, <2>4, <2>5 DEF Key
<1>2. CASE Completion
  <2>1. CASE \E lc \in Offers : Complete(lc)
    <3>1. ShowOffer
      BY <2>1 DEF Complete
    <3> QED BY <3>1 DEF ShowOffer, ScreenInv
  <2>2. CASE NextOffer
    <3>1. ShowOffer
      BY <2>2 DEF NextOffer
    <3> QED BY <3>1 DEF ShowOffer, ScreenInv
  <2>3. CASE Cancel
    <3>1. /\ Awake /\ offer' = NoOffer /\ buf' = buf /\ pos' = pos
          /\ IF Offered THEN Refresh ELSE screen' = screen
      BY <2>3 DEF Cancel, Completing, Awake
    <3>2. screen' = Shown(buf', pos')
      <4>1. CASE Offered
        BY <3>1, <4>1 DEF Refresh
      <4>2. CASE ~Offered
        <5>1. screen = Shown(buf, pos)
          BY <3>1, <4>2 DEF ScreenInv, Line, Cursor
        <5> QED BY <3>1, <4>2, <5>1
      <4> QED BY <4>1, <4>2
    <3>3. Line' = buf' /\ Cursor' = pos'
      BY <3>1, NotOfferedNext
    <3> QED BY <3>2, <3>3 DEF ScreenInv
  <2>4. CASE Accept
    <3>1. /\ Awake /\ offer' = NoOffer /\ buf' = Line /\ pos' = Cursor /\ screen' = screen
      BY <2>4 DEF Accept, Becomes, Completing, Awake
    <3>2. Line' = buf' /\ Cursor' = pos'
      BY <3>1, NotOfferedNext
    <3>3. screen = Shown(Line, Cursor)
      BY <3>1 DEF ScreenInv
    <3>4. screen' = Shown(Line', Cursor')
      BY <3>1, <3>2, <3>3
    <3> QED BY <3>4 DEF ScreenInv
  <2> QED BY <1>2, <2>1, <2>2, <2>3, <2>4 DEF Completion
<1>3. CASE NewLine \/ UNCHANGED vars
  <2>1. /\ buf' = buf /\ pos' = pos /\ screen' = screen /\ offer' = offer
        /\ Awake' => Awake
    BY <1>3 DEF NewLine, vars, lineVars, Awake
  <2>2. Line' = Line /\ Cursor' = Cursor
    BY <2>1 DEF Line, Cursor, Offered
  <2> QED BY <2>1, <2>2 DEF ScreenInv
<1>4. CASE Enter \/ InputFails
  <2>1. /\ buf' = <<>> /\ pos' = 0 /\ screen' = Blank /\ offer' = NoOffer
    BY <1>4 DEF Enter, InputFails, Gives, Leaves, Becomes
  <2>2. Line' = buf' /\ Cursor' = pos'
    BY <2>1, NotOfferedNext
  <2>3. screen' = Shown(Line', Cursor')
    BY <2>1, <2>2, ShownBlank
  <2> QED BY <2>3 DEF ScreenInv
<1>5. CASE CtrlC \/ EndOfFile
  BY <1>5 DEF CtrlC, EndOfFile, ScreenInv, Awake
<1> QED BY <1>1, <1>2, <1>3, <1>4, <1>5 DEF Next

-----------------------------------------------------------------------------
(***************************************************************************)
(* The invariant of the editor: every line is UTF-8, the history is the    *)
(* latest lines given, and the screen is what a refresh of the line would  *)
(* show.                                                                   *)
(***************************************************************************)
THEOREM EditorInvariance == Spec => []EditorInv
<1>1. Init => EditorInv
  <2> SUFFICES ASSUME Init PROVE EditorInv
    OBVIOUS
  <2>1. LineInv
    <3>1. <<>> \in Seq(Byte) /\ <<>> \in Seq(Seq(Byte)) /\ Len(<<>>) = 0 /\ 0 \in 0 .. 0
      OBVIOUS
    <3>2. 0 <= MaxLine /\ 0 <= MaxHistory
      BY LineEditorAssumption
    <3>3. NoOffer \in [lc : Seq(Seq(Byte)), i : Nat]
      BY NoOfferType
    <3> HIDE DEF NoOffer
    <3> QED BY <3>1, <3>2, <3>3 DEF Init, LineInv, Editing, Completing
  <2>2. TextInv
    <3>1. \A k \in DOMAIN NoOffer.lc : FALSE
      BY DEF NoOffer
    <3>2. \A k \in DOMAIN <<>> : FALSE
      OBVIOUS
    <3> HIDE DEF NoOffer
    <3> QED BY <3>1, <3>2, EmptyText DEF Init, TextInv
  <2>3. HistoryInv
    <3>1. LatestOf(<<>>, <<>>)
      <4>1. <<>> \in Seq(Seq(Byte)) /\ Len(<<>>) = 0
        BY EmptySeq
      <4>2. LatestFrom(<<>>, <<>>, 0)
        BY <4>1 DEF LatestFrom
      <4> QED BY <4>1, <4>2 DEF LatestOf
    <3>2. given = <<>> /\ given \in Seq(Seq(Byte)) /\ \A k \in DOMAIN given : FALSE
      BY DEF Init
    <3>3. IsLatest(<<>>)
      BY <3>1, <3>2, LatestAre
    <3> QED BY <3>2, <3>3 DEF Init, HistoryInv
  <2>4. ScreenInv
    <3>1. Line = <<>> /\ Cursor = 0
      BY NotOffered DEF Init
    <3> QED BY <3>1, ShownBlank DEF Init, ScreenInv
  <2> QED BY <2>1, <2>2, <2>3, <2>4 DEF EditorInv
<1>2. EditorInv /\ LineInv' /\ [Next]_vars => EditorInv'
  BY TextStep, HistoryStep, ScreenStep DEF EditorInv
<1> QED BY <1>1, <1>2, LineInvariance, PTL DEF Spec

(***************************************************************************)
(* No key puts the cursor inside a character, or removes part of one.      *)
(***************************************************************************)
THEOREM CursorIsBetweenCharacters == Spec => []CursorBetweenCharacters
<1>1. EditorInv => CursorBetweenCharacters
  BY DEF EditorInv, LineInv, TextInv, CursorBetweenCharacters, Awake, Editing
<1> QED BY <1>1, EditorInvariance, PTL

(***************************************************************************)
(* The cursor stays on the screen, at the column of the character it is    *)
(* on, and what is shown is a piece of the line that fits: whether the     *)
(* screen was refreshed or a character was only written behind the others. *)
(***************************************************************************)
THEOREM CursorIsOnScreen == Spec => []CursorOnScreen
<1>1. EditorInv => CursorOnScreen
  <2> SUFFICES ASSUME EditorInv, Editing \/ Completing PROVE CursorOnScreen
    BY DEF CursorOnScreen
  <2>1. screen = Shown(Line, Cursor)
    BY DEF EditorInv, ScreenInv, Awake, Editing, Completing
  <2>2. Line \in Seq(Byte) /\ Cursor \in 0 .. Len(Line)
    <3>1. buf \in Seq(Byte) /\ pos \in 0 .. Len(buf) /\ offer \in [lc : Seq(Seq(Byte)), i : Nat]
      BY DEF EditorInv, LineInv
    <3>2. CASE Offered
      <4>1. offer.lc \in Seq(Seq(Byte)) /\ offer.i + 1 \in 1 .. Len(offer.lc)
        BY <3>1, <3>2 DEF Offered
      <4>2. Line = offer.lc[offer.i + 1] /\ Cursor = Len(Line)
        BY <3>2 DEF Line, Cursor
      <4>3. Line \in Seq(Byte)
        BY <4>1, <4>2
      <4> HIDE DEF Line
      <4>4. Len(Line) \in 0 .. Len(Line)
        BY <4>3
      <4> QED BY <4>2, <4>3, <4>4
    <3>3. CASE ~Offered
      BY <3>1, <3>3 DEF Line, Cursor
    <3> QED BY <3>2, <3>3
  <2> HIDE DEF Line, Cursor
  <2> QED BY <2>1, <2>2, ShownFits DEF CursorOnScreen
<1> QED BY <1>1, EditorInvariance, PTL

(***************************************************************************)
(* Between two lines the history is the latest lines given, all but one of *)
(* those it has room for, or more.                                         *)
(***************************************************************************)
THEOREM HistoryIsLatest == Spec => []HistoryLatest
<1>1. EditorInv => HistoryLatest
  BY DEF EditorInv, HistoryInv, HistoryLatest, Awake
<1> QED BY <1>1, EditorInvariance, PTL

-----------------------------------------------------------------------------
(* Characters of a line: Decoded is what joins as the bytes do.            *)

LEMMA PieceIs ==
  ASSUME NEW s \in Seq(Byte), NEW i \in 0 .. Len(s), NEW j \in i .. Len(s)
  PROVE  /\ Piece(s, i, j) \in Seq(Byte) /\ Len(Piece(s, i, j)) = j - i
         /\ \A k \in 1 .. j - i : Piece(s, i, j)[k] = s[i + k]
<1>1. Len(s) \in Nat /\ i \in Nat /\ j \in Nat /\ i <= j /\ j <= Len(s)
  BY LenProperties
<1> QED BY <1>1 DEF Piece

LEMMA PiecesJoined ==
  ASSUME NEW s \in Seq(Byte), NEW i \in 0 .. Len(s), NEW j \in i .. Len(s), NEW k \in j .. Len(s)
  PROVE  Piece(s, i, k) = Piece(s, i, j) \o Piece(s, j, k)
<1> DEFINE l == Piece(s, i, j)
           r == Piece(s, j, k)
           u == Piece(s, i, k)
<1>1. Len(s) \in Nat /\ i \in Nat /\ j \in Nat /\ k \in Nat /\ i <= j /\ j <= k /\ k <= Len(s)
  BY LenProperties
<1>2. j \in 0 .. Len(s) /\ k \in i .. Len(s)
  BY <1>1
<1>3. /\ l \in Seq(Byte) /\ Len(l) = j - i /\ \A n \in 1 .. j - i : l[n] = s[i + n]
      /\ r \in Seq(Byte) /\ Len(r) = k - j /\ \A n \in 1 .. k - j : r[n] = s[j + n]
      /\ u \in Seq(Byte) /\ Len(u) = k - i /\ \A n \in 1 .. k - i : u[n] = s[i + n]
  BY <1>2, PieceIs
<1> HIDE DEF l, r, u
<1>4. /\ l \o r \in Seq(Byte) /\ Len(l \o r) = Len(l) + Len(r)
      /\ \A n \in 1 .. Len(l) : (l \o r)[n] = l[n]
      /\ \A n \in 1 .. Len(r) : (l \o r)[Len(l) + n] = r[n]
  BY <1>3, JoinedText
<1>5. ASSUME NEW n \in 1 .. Len(u) PROVE u[n] = (l \o r)[n]
  <2>1. CASE n <= j - i
    <3>1. n \in 1 .. j - i /\ n \in 1 .. k - i /\ n \in 1 .. Len(l)
      BY <1>1, <1>3, <2>1
    <3>2. u[n] = s[i + n] /\ l[n] = s[i + n] /\ (l \o r)[n] = l[n]
      BY <1>3, <1>4, <3>1
    <3> QED BY <3>2
  <2>2. CASE ~(n <= j - i)
    <3> DEFINE m == n - (j - i)
    <3>1. m \in 1 .. k - j /\ n = (j - i) + m /\ i + n = j + m /\ n \in 1 .. k - i
      BY <1>1, <1>3, <2>2
    <3> HIDE DEF m
    <3>2. u[n] = s[j + m]
      BY <1>3, <3>1
    <3>3. (l \o r)[n] = s[j + m]
      BY <1>3, <1>4, <3>1
    <3> QED BY <3>2, <3>3
  <2> QED BY <2>1, <2>2
<1>6. Len(u) = Len(l \o r)
  BY <1>1, <1>3, <1>4
<1> DEFINE v == l \o r
<1> HIDE DEF v
<1>7. u = v
  BY <1>3, <1>4, <1>5, <1>6, SeqEqual DEF v
<1> QED BY <1>7 DEF u, v, l, r

LEMMA CountOfByte ==
  ASSUME NEW b \in Byte, NEW S
  PROVE  Count(<<b>>, S) = IF b \in S THEN 1 ELSE 0
<1> DEFINE D == {i \in DOMAIN <<b>> : <<b>>[i] \in S}
<1>1. DOMAIN <<b>> = {1} /\ <<b>>[1] = b
  OBVIOUS
<1>2. Count(<<b>>, S) = Cardinality(D)
  BY DEF Count
<1>3. D = IF b \in S THEN {1} ELSE {}
  BY <1>1
<1> HIDE DEF D
<1>4. Cardinality({1}) = 1 /\ Cardinality({}) = 0
  BY FS_Singleton, FS_EmptySet
<1> QED BY <1>2, <1>3, <1>4

LEMMA CountOfNothing == \A S : Count(<<>>, S) = 0
<1>1. \A S : {i \in DOMAIN <<>> : <<>>[i] \in S} = {}
  OBVIOUS
<1> QED BY <1>1, FS_EmptySet DEF Count

\* Each first byte is one character more.
LEMMA OrdinalStep ==
  ASSUME NEW s \in Seq(Byte)
  PROVE  /\ Ordinal(s, 0) = 0 /\ Ordinal(s, Len(s)) = Count(s, First)
         /\ \A i \in 0 .. Len(s) : Ordinal(s, i) \in Nat
         /\ \A i \in 1 .. Len(s) :
              Ordinal(s, i) = Ordinal(s, i - 1) + (IF s[i] \in First THEN 1 ELSE 0)
<1>1. Len(s) \in Nat
  BY LenProperties
<1>2. Piece(s, 0, 0) = <<>> /\ Piece(s, 0, Len(s)) = s
  BY <1>1, SubSeqEmpty, SubSeqFull DEF Piece
<1>3. ASSUME NEW i \in 0 .. Len(s) PROVE Ordinal(s, i) \in Nat
  <2>1. 0 \in 0 .. Len(s) /\ i \in 0 .. Len(s)
    BY <1>1
  <2>2. Piece(s, 0, i) \in Seq(Byte)
    BY <2>1, PieceIs
  <2> QED BY <2>2, CountType DEF Ordinal
<1>4. ASSUME NEW i \in 1 .. Len(s)
      PROVE  Ordinal(s, i) = Ordinal(s, i - 1) + (IF s[i] \in First THEN 1 ELSE 0)
  <2> DEFINE h == i - 1
             l == Piece(s, 0, h)
             r == Piece(s, h, i)
  <2>1. h \in 0 .. Len(s) /\ i \in h .. Len(s) /\ 0 \in 0 .. Len(s) /\ i - h = 1 /\ h + 1 = i
    BY <1>1
  <2>2. l \in Seq(Byte) /\ r \in Seq(Byte) /\ Len(r) = 1 /\ r[1] = s[i]
    <3> HIDE DEF h
    <3>1. l \in Seq(Byte)
      BY <2>1, PieceIs
    <3>2. r \in Seq(Byte) /\ Len(r) = 1 /\ \A k \in 1 .. 1 : r[k] = s[h + k]
      BY <2>1, PieceIs
    <3> QED BY <2>1, <3>1, <3>2
  <2>3. Piece(s, 0, i) = l \o r
    <3> HIDE DEF h
    <3> QED BY <2>1, PiecesJoined
  <2> HIDE DEF l, r
  <2>4. r = <<s[i]>>
    BY <2>2, <1>1
  <2>5. s[i] \in Byte
    BY <1>1
  <2>6. Ordinal(s, i) = Count(l, First) + Count(<<s[i]>>, First)
    <3>1. Count(l \o r, First) = Count(l, First) + Count(r, First)
      BY <2>2, CountJoined
    <3> QED BY <2>3, <2>4, <3>1 DEF Ordinal
  <2>7. Ordinal(s, i - 1) = Count(l, First)
    BY DEF Ordinal, l
  <2> QED BY <2>5, <2>6, <2>7, CountOfByte
<1>5. Ordinal(s, 0) = 0 /\ Ordinal(s, Len(s)) = Count(s, First)
  BY <1>2, CountOfNothing DEF Ordinal
<1> QED BY <1>3, <1>4, <1>5

LEMMA OrdinalGrows ==
  ASSUME NEW s \in Seq(Byte), NEW i \in 0 .. Len(s), NEW j \in i .. Len(s)
  PROVE  Ordinal(s, i) <= Ordinal(s, j)
<1>1. Len(s) \in Nat /\ 0 \in 0 .. Len(s) /\ i \in 0 .. Len(s) /\ j \in 0 .. Len(s)
  BY LenProperties
<1>2. Piece(s, 0, j) = Piece(s, 0, i) \o Piece(s, i, j)
  BY <1>1, PiecesJoined
<1>3. Piece(s, 0, i) \in Seq(Byte) /\ Piece(s, i, j) \in Seq(Byte)
  BY <1>1, PieceIs
<1> DEFINE l == Piece(s, 0, i)
           r == Piece(s, i, j)
<1> HIDE DEF l, r
<1>4. l \in Seq(Byte) /\ r \in Seq(Byte) /\ Piece(s, 0, j) = l \o r
  BY <1>2, <1>3 DEF l, r
<1>5. /\ Count(l \o r, First) = Count(l, First) + Count(r, First)
      /\ Count(l, First) \in Nat /\ Count(r, First) \in Nat
  BY <1>4, CountJoined, CountType
<1>6. /\ Ordinal(s, j) = Ordinal(s, i) + Count(r, First)
      /\ Ordinal(s, i) \in Nat /\ Count(r, First) \in Nat
  BY <1>4, <1>5 DEF Ordinal, l
<1> QED BY <1>6

\* Every character has one first byte.
LEMMA OrdinalHas ==
  ASSUME NEW s \in Seq(Byte), NEW n \in 1 .. Count(s, First)
  PROVE  \E i \in 1 .. Len(s) : s[i] \in First /\ Ordinal(s, i) = n
<1> DEFINE S == {i \in 0 .. Len(s) : Ordinal(s, i) >= n}
<1>1. Len(s) \in Nat /\ n \in Nat /\ n > 0 /\ n <= Count(s, First) /\ Count(s, First) \in Nat
  <2>1. Len(s) \in Nat /\ Count(s, First) \in Nat
    BY LenProperties, CountType
  <2> QED BY <2>1
<1>2. /\ Ordinal(s, 0) = 0 /\ Ordinal(s, Len(s)) = Count(s, First)
      /\ \A i \in 0 .. Len(s) : Ordinal(s, i) \in Nat
      /\ \A i \in 1 .. Len(s) :
              Ordinal(s, i) = Ordinal(s, i - 1) + (IF s[i] \in First THEN 1 ELSE 0)
  BY OrdinalStep
<1>3. S \subseteq Nat /\ Len(s) \in S
  BY <1>1, <1>2
<1>4. PICK i \in S : \A j \in S : i <= j
  BY <1>3, Smallest
<1>5. i \in 0 .. Len(s) /\ Ordinal(s, i) >= n
  OBVIOUS
<1>6. i # 0
  BY <1>1, <1>2, <1>5
<1>7. i \in 1 .. Len(s) /\ i - 1 \in 0 .. Len(s) /\ ~(i <= i - 1)
  BY <1>1, <1>5, <1>6
<1>8. ~(Ordinal(s, i - 1) >= n)
  BY <1>4, <1>7
<1>9. Ordinal(s, i) = Ordinal(s, i - 1) + (IF s[i] \in First THEN 1 ELSE 0)
  BY <1>2, <1>7
<1>10. Ordinal(s, i) \in Nat /\ Ordinal(s, i - 1) \in Nat
  BY <1>2, <1>5, <1>7
<1>11. s[i] \in First /\ Ordinal(s, i) = n
  BY <1>1, <1>5, <1>8, <1>9, <1>10
<1> QED BY <1>7, <1>11

LEMMA OrdinalOnce ==
  ASSUME NEW s \in Seq(Byte), NEW i \in 1 .. Len(s), NEW j \in 1 .. Len(s),
         s[i] \in First, s[j] \in First, Ordinal(s, i) = Ordinal(s, j)
  PROVE  i = j
<1>1. Len(s) \in Nat
  BY LenProperties
<1>2. ASSUME NEW a \in 1 .. Len(s), NEW b \in 1 .. Len(s), a < b, s[b] \in First
      PROVE  Ordinal(s, a) < Ordinal(s, b)
  <2> DEFINE c == b - 1
  <2>1. a \in 0 .. Len(s) /\ c \in a .. Len(s) /\ c \in 0 .. Len(s) /\ b \in 0 .. Len(s)
    BY <1>1, <1>2
  <2>2. Ordinal(s, b) = Ordinal(s, c) + 1
    BY <1>2, OrdinalStep
  <2> HIDE DEF c
  <2>3. Ordinal(s, a) <= Ordinal(s, c)
    BY <2>1, OrdinalGrows
  <2>4. Ordinal(s, a) \in Nat /\ Ordinal(s, b) \in Nat /\ Ordinal(s, c) \in Nat
    BY <2>1, OrdinalStep
  <2> QED BY <2>2, <2>3, <2>4
<1>3. Ordinal(s, i) \in Nat /\ Ordinal(s, j) \in Nat
  <2>1. i \in 0 .. Len(s) /\ j \in 0 .. Len(s)
    BY <1>1
  <2> QED BY <2>1, OrdinalStep
<1>4. ~(i < j)
  <2> SUFFICES ASSUME i < j PROVE FALSE
    OBVIOUS
  <2>1. Ordinal(s, i) < Ordinal(s, j)
    BY <1>2
  <2> QED BY <1>3, <2>1
<1>5. ~(j < i)
  <2> SUFFICES ASSUME j < i PROVE FALSE
    OBVIOUS
  <2>1. Ordinal(s, j) < Ordinal(s, i)
    BY <1>2
  <2> QED BY <1>3, <2>1
<1>6. i \in Nat /\ j \in Nat
  BY <1>1
<1> QED BY <1>4, <1>5, <1>6

\* Does d name the characters of s, in order?
Decodes(s, d) ==
  /\ d \in Seq(First) /\ Len(d) = Count(s, First)
  /\ \A i \in 1 .. Len(s) :
       s[i] \in First => Ordinal(s, i) \in 1 .. Len(d) /\ d[Ordinal(s, i)] = s[i]

LEMMA OrdinalBound ==
  ASSUME NEW s \in Seq(Byte), NEW i \in 1 .. Len(s), s[i] \in First
  PROVE  Ordinal(s, i) \in 1 .. Count(s, First)
<1> DEFINE h == i - 1
<1>1. Len(s) \in Nat /\ h \in 0 .. Len(s) /\ i \in 0 .. Len(s) /\ Len(s) \in i .. Len(s)
  BY LenProperties
<1>2. /\ Ordinal(s, i) = Ordinal(s, h) + 1 /\ Ordinal(s, h) \in Nat
      /\ Ordinal(s, Len(s)) = Count(s, First) /\ Ordinal(s, Len(s)) \in Nat
  <2>1. Len(s) \in 0 .. Len(s)
    BY <1>1
  <2> QED BY <1>1, <2>1, OrdinalStep
<1>3. Ordinal(s, i) <= Ordinal(s, Len(s))
  BY <1>1, OrdinalGrows
<1> HIDE DEF h
<1> QED BY <1>2, <1>3

LEMMA DecodedDecodes ==
  ASSUME NEW s \in Seq(Byte)
  PROVE  Decodes(s, Decoded(s))
<1> DEFINE At(n) == CHOOSE i \in 1 .. Len(s) : s[i] \in First /\ Ordinal(s, i) = n
           m == Count(s, First)
           d == [n \in 1 .. m |-> s[At(n)]]
<1>1. Decoded(s) = d
  BY DEF Decoded
<1>2. m \in Nat
  BY CountType
<1>3. ASSUME NEW n \in 1 .. m
      PROVE  At(n) \in 1 .. Len(s) /\ s[At(n)] \in First /\ Ordinal(s, At(n)) = n
  BY OrdinalHas
<1>4. ASSUME NEW i \in 1 .. Len(s), s[i] \in First PROVE At(Ordinal(s, i)) = i
  <2>1. Ordinal(s, i) \in 1 .. m
    BY <1>4, OrdinalBound
  <2> DEFINE n == Ordinal(s, i)
             j == At(n)
  <2>2. j \in 1 .. Len(s) /\ s[j] \in First /\ Ordinal(s, j) = n
    BY <1>3, <2>1
  <2> HIDE DEF At, j
  <2>3. j = i
    BY <1>4, <2>2, OrdinalOnce
  <2> QED BY <2>3 DEF j
<1>5. ASSUME NEW i \in 1 .. Len(s), s[i] \in First
      PROVE  Ordinal(s, i) \in 1 .. m /\ s[At(Ordinal(s, i))] = s[i]
  BY <1>4, <1>5, OrdinalBound
<1> HIDE DEF At, m
<1>6. d \in Seq(First) /\ Len(d) = m
  <2>1. \A n \in 1 .. m : s[At(n)] \in First
    BY <1>3
  <2>2. d \in [1 .. m -> First]
    BY <2>1
  <2> QED BY <1>2, <2>2
<1>7. \A n \in 1 .. m : d[n] = s[At(n)]
  OBVIOUS
<1> HIDE DEF d
<1> QED BY <1>1, <1>5, <1>6, <1>7 DEF Decodes, m

LEMMA DecodesOnce ==
  ASSUME NEW s \in Seq(Byte), NEW d, NEW e, Decodes(s, d), Decodes(s, e)
  PROVE  d = e
<1>1. /\ d \in Seq(First) /\ e \in Seq(First) /\ Len(d) = Len(e) /\ Len(d) = Count(s, First)
  BY DEF Decodes
<1>2. ASSUME NEW n \in 1 .. Len(d) PROVE d[n] = e[n]
  <2>1. n \in 1 .. Count(s, First)
    BY <1>1
  <2>2. PICK i \in 1 .. Len(s) : s[i] \in First /\ Ordinal(s, i) = n
    BY <2>1, OrdinalHas
  <2> QED BY <2>2 DEF Decodes
<1> QED BY <1>1, <1>2, SeqEqual

LEMMA DecodedIs ==
  ASSUME NEW s \in Seq(Byte), NEW d, Decodes(s, d)
  PROVE  Decoded(s) = d
BY DecodedDecodes, DecodesOnce

LEMMA DecodedType ==
  ASSUME NEW s \in Seq(Byte)
  PROVE  Decoded(s) \in Seq(First) /\ Len(Decoded(s)) \in Nat
<1>1. Decoded(s) \in Seq(First)
  BY DecodedDecodes DEF Decodes
<1> QED BY <1>1, LenProperties

LEMMA DecodedJoined ==
  ASSUME NEW s \in Seq(Byte), NEW t \in Seq(Byte)
  PROVE  Decoded(s \o t) = Decoded(s) \o Decoded(t)
<1> DEFINE u == s \o t
           m == Len(s)
           d == Decoded(s)
           e == Decoded(t)
           f == d \o e
<1>1. /\ m \in Nat /\ Len(t) \in Nat /\ u \in Seq(Byte) /\ Len(u) = m + Len(t)
      /\ \A i \in 1 .. m : u[i] = s[i]
      /\ \A i \in 1 .. Len(t) : u[m + i] = t[i]
  BY LenProperties, JoinedText
<1>2. /\ d \in Seq(First) /\ e \in Seq(First) /\ Len(d) \in Nat /\ Len(e) \in Nat
      /\ f \in Seq(First) /\ Len(f) = Len(d) + Len(e)
      /\ \A n \in 1 .. Len(d) : f[n] = d[n]
      /\ \A n \in 1 .. Len(e) : f[Len(d) + n] = e[n]
  <2>1. d \in Seq(First) /\ e \in Seq(First) /\ Len(d) \in Nat /\ Len(e) \in Nat
    BY DecodedType
  <2> HIDE DEF d, e
  <2>2. /\ f \in Seq(First) /\ Len(f) = Len(d) + Len(e)
        /\ \A n \in 1 .. Len(d) : f[n] = d[n]
        /\ \A n \in 1 .. Len(e) : f[Len(d) + n] = e[n]
    BY <2>1
  <2> QED BY <2>1, <2>2
<1>3. Decodes(s, d) /\ Decodes(t, e)
  BY DecodedDecodes
<1>4. Count(u, First) = Count(s, First) + Count(t, First)
  BY CountJoined
<1>5. Piece(u, 0, m) = s /\ Piece(u, m, Len(u)) = t
  BY <1>1 DEF Piece
<1>6. ASSUME NEW i \in 1 .. m PROVE Ordinal(u, i) = Ordinal(s, i)
  <2> DEFINE a == Piece(u, 0, i)
             b == Piece(s, 0, i)
  <2>1. 0 \in 0 .. Len(u) /\ i \in 0 .. Len(u) /\ 0 \in 0 .. Len(s) /\ i \in 0 .. Len(s)
    BY <1>1
  <2>2. /\ a \in Seq(Byte) /\ Len(a) = i - 0 /\ \A k \in 1 .. i - 0 : a[k] = u[0 + k]
        /\ b \in Seq(Byte) /\ Len(b) = i - 0 /\ \A k \in 1 .. i - 0 : b[k] = s[0 + k]
    <3> HIDE DEF u
    <3> QED BY <1>1, <2>1, PieceIs
  <2> HIDE DEF a, b, u
  <2>3. \A k \in 1 .. Len(a) : a[k] = b[k]
    <3>1. \A k \in 1 .. i : 0 + k = k /\ k \in 1 .. m /\ k \in 1 .. i - 0
      BY <1>1
    <3> QED BY <1>1, <2>2, <3>1
  <2>4. a = b
    BY <2>2, <2>3, SeqEqual
  <2> QED BY <2>4 DEF Ordinal, a, b
<1>7. ASSUME NEW i \in 1 .. Len(t) PROVE Ordinal(u, m + i) = Count(s, First) + Ordinal(t, i)
  <2> DEFINE j == m + i
             a == Piece(u, m, j)
             b == Piece(t, 0, i)
  <2>1. /\ m \in 0 .. Len(u) /\ j \in m .. Len(u) /\ 0 \in 0 .. Len(t) /\ i \in 0 .. Len(t)
        /\ 0 \in 0 .. Len(u) /\ m \in 0 .. Len(u) /\ j - m = i /\ i - 0 = i
    BY <1>1
  <2>2. Piece(u, 0, j) = s \o a
    <3> HIDE DEF u, j, m
    <3>1. Piece(u, 0, j) = Piece(u, 0, m) \o Piece(u, m, j)
      BY <1>1, <2>1, PiecesJoined
    <3> QED BY <1>5, <3>1
  <2>3. /\ a \in Seq(Byte) /\ Len(a) = i /\ \A k \in 1 .. i : a[k] = u[m + k]
        /\ b \in Seq(Byte) /\ Len(b) = i /\ \A k \in 1 .. i : b[k] = t[0 + k]
    <3> HIDE DEF u, j, m
    <3>1. a \in Seq(Byte) /\ Len(a) = j - m /\ \A k \in 1 .. j - m : a[k] = u[m + k]
      BY <1>1, <2>1, PieceIs
    <3>2. b \in Seq(Byte) /\ Len(b) = i - 0 /\ \A k \in 1 .. i - 0 : b[k] = t[0 + k]
      BY <1>1, <2>1, PieceIs
    <3> QED BY <2>1, <3>1, <3>2
  <2> HIDE DEF a, b, u
  <2>4. \A k \in 1 .. Len(a) : a[k] = b[k]
    <3>1. \A k \in 1 .. i : 0 + k = k /\ k \in 1 .. Len(t)
      BY <1>1
    <3> QED BY <1>1, <2>3, <3>1
  <2>5. a = b
    BY <2>3, <2>4, SeqEqual
  <2>6. Count(s \o a, First) = Count(s, First) + Count(a, First)
    BY <2>3, CountJoined
  <2> QED BY <2>2, <2>5, <2>6 DEF Ordinal, b
<1> HIDE DEF f, d, e, u, m
<1>8. Len(d) = Count(s, First) /\ Len(e) = Count(t, First)
  BY <1>3 DEF Decodes
<1>9. ASSUME NEW i \in 1 .. Len(u), u[i] \in First
      PROVE  Ordinal(u, i) \in 1 .. Len(f) /\ f[Ordinal(u, i)] = u[i]
  <2>1. CASE i <= m
    <3>1. i \in 1 .. m /\ i \in 1 .. Len(s)
      BY <1>1, <2>1 DEF m
    <3>2. u[i] = s[i] /\ Ordinal(u, i) = Ordinal(s, i)
      BY <1>1, <1>6, <3>1
    <3>3. Ordinal(s, i) \in 1 .. Len(d) /\ d[Ordinal(s, i)] = s[i]
      BY <1>3, <1>9, <3>1, <3>2 DEF Decodes
    <3> QED BY <1>2, <3>2, <3>3
  <2>2. CASE ~(i <= m)
    <3> DEFINE k == i - m
    <3>1. k \in 1 .. Len(t) /\ i = m + k
      BY <1>1, <2>2
    <3> HIDE DEF k
    <3>2. u[i] = t[k] /\ Ordinal(u, i) = Len(d) + Ordinal(t, k)
      BY <1>1, <1>7, <1>8, <3>1
    <3>3. Ordinal(t, k) \in 1 .. Len(e) /\ e[Ordinal(t, k)] = t[k]
      BY <1>3, <1>9, <3>1, <3>2 DEF Decodes
    <3> QED BY <1>2, <3>2, <3>3
  <2> QED BY <2>1, <2>2
<1>10. Decodes(u, f)
  BY <1>2, <1>4, <1>8, <1>9 DEF Decodes
<1>11. Decoded(u) = f
  BY <1>1, <1>10, DecodedIs
<1> QED BY <1>11 DEF u, f, d, e

LEMMA DecodedNothing == Decoded(<<>>) = <<>>
<1>1. <<>> \in Seq(Byte) /\ <<>> \in Seq(First) /\ Len(<<>>) = 0 /\ Count(<<>>, First) = 0
  BY EmptySeq, CountOfNothing
<1>2. Decodes(<<>>, <<>>)
  BY <1>1 DEF Decodes
<1> QED BY <1>1, <1>2, DecodedIs

LEMMA DecodedByte ==
  ASSUME NEW b \in Byte
  PROVE  Decoded(<<b>>) = IF b = "T" THEN <<>> ELSE <<b>>
<1> DEFINE s == <<b>>
<1>1. s \in Seq(Byte) /\ Len(s) = 1 /\ s[1] = b
  OBVIOUS
<1>2. Count(s, First) = IF b \in First THEN 1 ELSE 0
  BY CountOfByte
<1>3. b \in First <=> b # "T"
  BY DEF First
<1> HIDE DEF s
<1>4. Ordinal(s, 1) = Count(s, First)
  BY <1>1, OrdinalStep
<1>5. CASE b = "T"
  <2>1. <<>> \in Seq(First) /\ Len(<<>>) = 0
    BY EmptySeq
  <2>2. \A i \in 1 .. Len(s) : s[i] \notin First
    BY <1>1, <1>3, <1>5
  <2>3. Decodes(s, <<>>)
    BY <1>2, <1>3, <1>5, <2>1, <2>2 DEF Decodes
  <2>4. Decoded(s) = <<>>
    BY <1>1, <2>3, DecodedIs
  <2> QED BY <1>5, <2>4 DEF s
<1>6. CASE b # "T"
  <2>1. <<b>> \in Seq(First) /\ Len(<<b>>) = 1 /\ <<b>>[1] = b
    BY <1>3, <1>6
  <2>2. \A i \in 1 .. Len(s) : i = 1
    BY <1>1
  <2>3. Decodes(s, <<b>>)
    BY <1>1, <1>2, <1>3, <1>4, <1>6, <2>1, <2>2 DEF Decodes
  <2>4. Decoded(s) = <<b>>
    BY <1>1, <2>3, DecodedIs
  <2> QED BY <1>6, <2>4 DEF s
<1> QED BY <1>5, <1>6

LEMMA ByteByByte ==
  ASSUME NEW a \in Byte, NEW b \in Byte
  PROVE  /\ <<a>> \in Seq(Byte)
         /\ <<a, b>> = <<a>> \o <<b>> /\ <<a, b, b>> = (<<a>> \o <<b>>) \o <<b>>
<1> DEFINE x == <<a>>
           y == <<b>>
           z == <<a, b>>
<1>1. /\ x \in Seq(Byte) /\ Len(x) = 1 /\ x[1] = a
      /\ y \in Seq(Byte) /\ Len(y) = 1 /\ y[1] = b
      /\ z \in Seq(Byte) /\ Len(z) = 2 /\ z[1] = a /\ z[2] = b
  OBVIOUS
<1>2. z = x \o y
  <2> HIDE DEF x, y, z
  <2>1. /\ x \o y \in Seq(Byte) /\ Len(x \o y) = 2
        /\ (x \o y)[1] = a /\ (x \o y)[2] = b
    <3>1. /\ x \o y \in Seq(Byte) /\ Len(x \o y) = Len(x) + Len(y)
          /\ \A i \in 1 .. Len(x) : (x \o y)[i] = x[i]
          /\ \A i \in 1 .. Len(y) : (x \o y)[Len(x) + i] = y[i]
      BY <1>1, JoinedText
    <3>2. 1 \in 1 .. Len(x) /\ 1 \in 1 .. Len(y) /\ Len(x) + 1 = 2 /\ Len(x) + Len(y) = 2
      BY <1>1
    <3> QED BY <1>1, <3>1, <3>2
  <2>2. \A i \in 1 .. Len(z) : i = 1 \/ i = 2
    BY <1>1
  <2> DEFINE u == x \o y
  <2> HIDE DEF u
  <2>3. z = u
    BY <1>1, <2>1, <2>2, SeqEqual DEF u
  <2> QED BY <2>3 DEF u
<1>3. <<a, b, b>> = z \o y
  OBVIOUS
<1> QED BY <1>1, <1>2, <1>3

\* The bytes of a character are that character.
LEMMA DecodedBytes ==
  ASSUME NEW c \in Typed
  PROVE  /\ Decoded(Bytes(c)) = <<c>> /\ c \in First
<1>1. c \in {"a", " ", "L", "M"} /\ c \in Byte /\ "T" \in Byte
  BY LineEditorAssumption DEF Ascii, Byte
<1>2. c # "T"
  BY <1>1
<1> DEFINE x == <<c>>
           y == <<"T">>
<1>3. Decoded(x) = x /\ Decoded(y) = <<>>
  BY <1>1, <1>2, DecodedByte
<1>4. x \in Seq(Byte) /\ y \in Seq(Byte) /\ <<c, "T">> = x \o y /\ <<c, "T", "T">> = (x \o y) \o y
  <2>1. \A b : b = "T" => b \in Byte /\ <<b>> \in Seq(Byte)
    BY <1>1, ByteByByte
  <2>2. \A b : b = "T" => <<c, b>> = <<c>> \o <<b>> /\ <<c, b, b>> = (<<c>> \o <<b>>) \o <<b>>
    BY <1>1, ByteByByte
  <2> QED BY <1>1, <2>1, <2>2, ByteByByte
<1> HIDE DEF x, y
<1>5. x \o y \in Seq(Byte) /\ Decoded(x \o y) = x
  <2>1. Decoded(x \o y) = Decoded(x) \o Decoded(y)
    BY <1>4, DecodedJoined
  <2>2. x \o <<>> = x
    BY <1>4, ConcatEmptySeq
  <2> QED BY <1>3, <1>4, <2>1, <2>2, ConcatProperties
<1>6. Decoded((x \o y) \o y) = x
  <2>1. Decoded((x \o y) \o y) = Decoded(x \o y) \o Decoded(y)
    BY <1>4, <1>5, DecodedJoined
  <2>2. x \o <<>> = x
    BY <1>4, ConcatEmptySeq
  <2> QED BY <1>3, <1>5, <2>1, <2>2
<1>7. /\ c = "L" => Bytes(c) = <<c, "T", "T">>
      /\ c = "M" => Bytes(c) = <<c, "T">>
      /\ c \in {"a", " "} => Bytes(c) = x
  BY DEF Bytes, x
<1>8. Decoded(Bytes(c)) = x
  BY <1>1, <1>3, <1>4, <1>5, <1>6, <1>7
<1> QED BY <1>1, <1>2, <1>8 DEF First, x

-----------------------------------------------------------------------------
(* The cursor between characters.                                          *)

\* How many characters of s are in front of offset p?
CharsBefore(s, p) == Len(Decoded(Piece(s, 0, p)))

\* Two parts of s decode to two parts of what s decodes to.
LEMMA DecodedParts ==
  ASSUME NEW s \in Seq(Byte), NEW p \in 0 .. Len(s)
  PROVE  LET d == Decoded(s)
             l == Decoded(Piece(s, 0, p))
             r == Decoded(Piece(s, p, Len(s)))
             k == CharsBefore(s, p)
         IN  /\ d \in Seq(First) /\ l \in Seq(First) /\ r \in Seq(First)
             /\ d = l \o r /\ k = Len(l) /\ k \in Nat /\ Len(d) \in Nat
             /\ k \in 0 .. Len(d)
             /\ SubSeq(d, 1, k) = l /\ SubSeq(d, k + 1, Len(d)) = r
<1> DEFINE a == Piece(s, 0, p)
           b == Piece(s, p, Len(s))
           l == Decoded(a)
           r == Decoded(b)
           d == Decoded(s)
           k == CharsBefore(s, p)
<1>1. a \in Seq(Byte) /\ b \in Seq(Byte)
  BY Pieces
<1>2. s = a \o b
  <2>1. 0 \in 0 .. Len(s) /\ p \in 0 .. Len(s) /\ Len(s) \in p .. Len(s)
    BY LenProperties
  <2>2. Piece(s, 0, Len(s)) = s
    BY SubSeqFull DEF Piece
  <2> QED BY <2>1, <2>2, PiecesJoined
<1>3. k = Len(l)
  BY DEF CharsBefore
<1> HIDE DEF a, b, k
<1>4. d = l \o r
  BY <1>1, <1>2, DecodedJoined
<1>5. l \in Seq(First) /\ r \in Seq(First) /\ Len(l) \in Nat /\ Len(r) \in Nat
  BY <1>1, DecodedType
<1> HIDE DEF l, r, d
<1>6. d \in Seq(First) /\ Len(d) = Len(l) + Len(r)
  BY <1>4, <1>5, ConcatProperties
<1>7. SubSeq(d, 1, k) = l /\ SubSeq(d, k + 1, Len(d)) = r
  <2>1. \A i \in 1 .. Len(l) : d[i] = l[i]
    BY <1>4, <1>5
  <2>2. \A i \in 1 .. Len(r) : d[Len(l) + i] = r[i]
    BY <1>4, <1>5
  <2>3. SubSeq(d, 1, k) = l
    <3> DEFINE e == SubSeq(d, 1, k)
    <3>1. e \in Seq(First) /\ Len(e) = Len(l) /\ \A i \in 1 .. Len(e) : e[i] = l[i]
      BY <1>3, <1>5, <1>6, <2>1
    <3> HIDE DEF e
    <3>2. e = l
      BY <1>5, <3>1, SeqEqual
    <3> QED BY <3>2 DEF e
  <2>4. SubSeq(d, k + 1, Len(d)) = r
    <3> DEFINE e == SubSeq(d, k + 1, Len(d))
    <3>1. e \in Seq(First) /\ Len(e) = Len(r) /\ \A i \in 1 .. Len(e) : e[i] = d[Len(l) + i]
      BY <1>3, <1>5, <1>6
    <3> HIDE DEF e
    <3>2. \A i \in 1 .. Len(e) : e[i] = r[i]
      BY <2>2, <3>1
    <3>3. e = r
      BY <1>5, <3>1, <3>2, SeqEqual
    <3> QED BY <3>3 DEF e
  <2> QED BY <2>3, <2>4
<1>8. k \in Nat /\ Len(d) \in Nat /\ k \in 0 .. Len(d)
  BY <1>3, <1>5, <1>6
<1> QED BY <1>3, <1>4, <1>5, <1>6, <1>7, <1>8 DEF l, r, d, a, b, k

LEMMA CharsBeforeGrows ==
  ASSUME NEW s \in Seq(Byte), NEW i \in 0 .. Len(s), NEW j \in i .. Len(s)
  PROVE  CharsBefore(s, i) \in 0 .. CharsBefore(s, j)
<1>1. 0 \in 0 .. Len(s) /\ i \in 0 .. Len(s) /\ j \in 0 .. Len(s)
  BY LenProperties
<1> DEFINE l == Piece(s, 0, i)
           m == Piece(s, i, j)
<1>2. l \in Seq(Byte) /\ m \in Seq(Byte)
  BY <1>1, PieceIs
<1>3. Piece(s, 0, j) = l \o m
  BY <1>1, PiecesJoined
<1>4. CharsBefore(s, i) = Len(Decoded(l)) /\ CharsBefore(s, j) = Len(Decoded(l \o m))
  BY <1>3 DEF CharsBefore
<1> HIDE DEF l, m
<1>5. Decoded(l \o m) = Decoded(l) \o Decoded(m)
  BY <1>2, DecodedJoined
<1>6. /\ Decoded(l) \in Seq(First) /\ Decoded(m) \in Seq(First)
      /\ Len(Decoded(l)) \in Nat /\ Len(Decoded(m)) \in Nat
  BY <1>2, DecodedType
<1>7. CharsBefore(s, j) = CharsBefore(s, i) + Len(Decoded(m))
  BY <1>4, <1>5, <1>6, ConcatProperties
<1> QED BY <1>4, <1>6, <1>7

\* What l and r decode to, joined with l \o r cut where they meet.
LEMMA CharsJoined ==
  ASSUME NEW l \in Seq(Byte), NEW r \in Seq(Byte)
  PROVE  /\ Decoded(l \o r) = Decoded(l) \o Decoded(r)
         /\ CharsBefore(l \o r, Len(l)) = Len(Decoded(l))
<1>1. Piece(l \o r, 0, Len(l)) = l
  BY DEF Piece
<1> QED BY <1>1, DecodedJoined DEF CharsBefore

-----------------------------------------------------------------------------
(* The refinement: each key does to the characters what TextLine says.     *)

LEMMA Mapped ==
  /\ Text!vars = <<Decoded(buf), CharsBefore(buf, pos), {Decoded(history[i]) : i \in DOMAIN history}>>
  /\ Text!Move <=> /\ CharsBefore(buf', pos') \in 0 .. Len(Decoded(buf))
                   /\ Decoded(buf') = Decoded(buf)
                   /\ {Decoded(history'[i]) : i \in DOMAIN history'}
                        = {Decoded(history[i]) : i \in DOMAIN history}
BY DEF Text!vars, Text!Move, CharsBefore

LEMMA MoveRefines ==
  ASSUME buf \in Seq(Byte), NEW p \in 0 .. Len(buf), buf' = buf, pos' = p, history' = history
  PROVE  Text!Move
<1>1. CharsBefore(buf, p) \in 0 .. Len(Decoded(buf))
  BY DecodedParts
<1> QED BY <1>1, Mapped

LEMMA CutRefines ==
  ASSUME buf \in Seq(Byte), pos \in 0 .. Len(buf), NEW i \in 0 .. pos, NEW j \in pos .. Len(buf),
         buf' = Without(i, j), pos' = i, history' = history
  PROVE  Text!Cut
<1>1. /\ pos \in Nat /\ Len(buf) \in Nat /\ i \in 0 .. Len(buf) /\ j \in 0 .. Len(buf)
      /\ pos \in i .. Len(buf)
  BY LenProperties
<1> DEFINE l == Piece(buf, 0, i)
           r == Piece(buf, j, Len(buf))
           d == Decoded(buf)
           m == CharsBefore(buf, i)
           n == CharsBefore(buf, j)
<1>2. l \in Seq(Byte) /\ r \in Seq(Byte) /\ Len(l) = i
  BY <1>1, Pieces
<1>3. buf' = l \o r
  BY DEF Without
<1>4. /\ SubSeq(d, 1, m) = Decoded(l) /\ m = Len(Decoded(l))
      /\ n \in 0 .. Len(d) /\ n \in Nat /\ Len(d) \in Nat
  BY <1>1, DecodedParts
<1>5. SubSeq(d, n + 1, Len(d)) = Decoded(r)
  BY <1>1, DecodedParts
<1>6. m \in 0 .. CharsBefore(buf, pos) /\ CharsBefore(buf, pos) \in 0 .. n
  BY <1>1, CharsBeforeGrows
<1> HIDE DEF l, r, d, m, n
<1>7. Decoded(buf') = Decoded(l) \o Decoded(r) /\ CharsBefore(buf', pos') = m
  BY <1>2, <1>3, <1>4, CharsJoined
<1>8. n \in CharsBefore(buf, pos) .. Len(d)
  BY <1>4, <1>6
<1>9. Decoded(buf') = SubSeq(d, 1, m) \o SubSeq(d, n + 1, Len(d))
  BY <1>4, <1>5, <1>7
<1> QED BY <1>6, <1>7, <1>8, <1>9 DEF Text!Cut, Text!Left, Text!Right, CharsBefore, d

LEMMA InsertRefines ==
  ASSUME LineInv, NEW c \in Typed, Insert(c)
  PROVE  Text!Insert(c)
<1> DEFINE l == Piece(buf, 0, pos)
           r == Piece(buf, pos, Len(buf))
           b == Bytes(c)
           d == Decoded(buf)
           k == CharsBefore(buf, pos)
<1>1. /\ buf \in Seq(Byte) /\ pos \in 0 .. Len(buf)
      /\ buf' = (l \o b) \o r /\ pos' = pos + Len(b) /\ history' = history
  BY DEF LineInv, Insert, Becomes, With, historyVars
<1>2. l \in Seq(Byte) /\ r \in Seq(Byte) /\ Len(l) = pos
  BY <1>1, Pieces
<1>3. b \in Seq(Byte) /\ Decoded(b) = <<c>> /\ c \in First
  BY BytesFormed, DecodedBytes
<1>4. /\ SubSeq(d, 1, k) = Decoded(l) /\ SubSeq(d, k + 1, Len(d)) = Decoded(r)
      /\ k = Len(Decoded(l)) /\ k \in Nat /\ Decoded(l) \in Seq(First)
  BY <1>1, DecodedParts
<1> HIDE DEF l, r, b, d, k
<1>5. /\ l \o b \in Seq(Byte) /\ Len(l \o b) = pos'
      /\ Decoded(l \o b) = Decoded(l) \o <<c>>
  <2>1. l \o b \in Seq(Byte) /\ Len(l \o b) = Len(l) + Len(b)
    BY <1>2, <1>3, ConcatProperties
  <2> QED BY <1>1, <1>2, <1>3, <2>1, CharsJoined, ZenonT(30)
<1>6. /\ Decoded(buf') = (Decoded(l) \o <<c>>) \o Decoded(r)
      /\ CharsBefore(buf', pos') = Len(Decoded(l) \o <<c>>)
  BY <1>1, <1>2, <1>5, CharsJoined
<1>7. Decoded(l) \o <<c>> = Append(Decoded(l), c) /\ Len(Decoded(l) \o <<c>>) = k + 1
  BY <1>3, <1>4
<1>8. /\ Decoded(buf') = Append(SubSeq(d, 1, k), c) \o SubSeq(d, k + 1, Len(d))
      /\ CharsBefore(buf', pos') = k + 1
  BY <1>4, <1>6, <1>7
<1> QED BY <1>1, <1>8 DEF Text!Insert, Text!Left, Text!Right, CharsBefore, d, k

\* Is w made of l, two elements and r?
IsAround(w, l, a, b, r) ==
  /\ Len(w) = Len(l) + 2 + Len(r)
  /\ \A i \in 1 .. Len(l) : w[i] = l[i]
  /\ w[Len(l) + 1] = a /\ w[Len(l) + 2] = b
  /\ \A i \in 1 .. Len(r) : w[Len(l) + 2 + i] = r[i]

LEMMA Around ==
  ASSUME NEW S, NEW l \in Seq(S), NEW a \in S, NEW b \in S, NEW r \in Seq(S)
  PROVE  /\ ((l \o <<a>>) \o <<b>>) \o r \in Seq(S)
         /\ IsAround(((l \o <<a>>) \o <<b>>) \o r, l, a, b, r)
<1> DEFINE x == l \o <<a>>
           y == x \o <<b>>
           w == y \o r
           n == Len(l)
<1>1. n \in Nat /\ Len(r) \in Nat
  BY LenProperties
<1>2. x \in Seq(S) /\ Len(x) = n + 1 /\ (\A i \in 1 .. n : x[i] = l[i]) /\ x[n + 1] = a
  BY <1>1
<1> HIDE DEF x
<1>3. y \in Seq(S) /\ Len(y) = n + 2 /\ (\A i \in 1 .. n + 1 : y[i] = x[i]) /\ y[n + 2] = b
  BY <1>1, <1>2
<1> HIDE DEF y
<1>4. /\ w \in Seq(S) /\ Len(w) = n + 2 + Len(r) /\ (\A i \in 1 .. n + 2 : w[i] = y[i])
      /\ \A i \in 1 .. Len(r) : w[n + 2 + i] = r[i]
  <2>1. w \in Seq(S) /\ Len(w) = Len(y) + Len(r)
    BY <1>3, ConcatProperties
  <2>2. \A i \in 1 .. Len(y) : w[i] = y[i]
    BY <1>1, <1>3
  <2>3. \A i \in 1 .. Len(r) : w[Len(y) + i] = r[i]
    BY <1>1, <1>3
  <2> QED BY <1>1, <1>3, <2>1, <2>2, <2>3
<1> HIDE DEF w
<1>5. \A i \in 1 .. n : i \in 1 .. n + 1 /\ i \in 1 .. n + 2
  BY <1>1
<1>6. n + 1 \in 1 .. n + 1 /\ n + 1 \in 1 .. n + 2 /\ n + 2 \in 1 .. n + 2
  BY <1>1
<1>7. \A i \in 1 .. n : w[i] = l[i]
  BY <1>2, <1>3, <1>4, <1>5
<1>8. w[n + 1] = a /\ w[n + 2] = b
  BY <1>2, <1>3, <1>4, <1>6
<1> QED BY <1>4, <1>7, <1>8 DEF IsAround, w, y, x

\* The two elements change places.
IsSwapped(v, w, k) == v = [w EXCEPT ![k] = w[k + 1], ![k + 1] = w[k]]

LEMMA SwappedAround ==
  ASSUME NEW S, NEW l \in Seq(S), NEW a \in S, NEW b \in S, NEW r \in Seq(S)
  PROVE  IsSwapped(((l \o <<b>>) \o <<a>>) \o r, ((l \o <<a>>) \o <<b>>) \o r, Len(l) + 1)
<1> DEFINE w == ((l \o <<a>>) \o <<b>>) \o r
           v == ((l \o <<b>>) \o <<a>>) \o r
           n == Len(l)
           k == n + 1
           e == [w EXCEPT ![k] = w[k + 1], ![k + 1] = w[k]]
<1>1. n \in Nat /\ Len(r) \in Nat
  BY LenProperties
<1>2. w \in Seq(S) /\ IsAround(w, l, a, b, r)
  BY Around
<1>3. v \in Seq(S) /\ IsAround(v, l, b, a, r)
  BY Around
<1> HIDE DEF w, v
<1>4. /\ w \in Seq(S) /\ Len(w) = n + 2 + Len(r)
      /\ \A i \in 1 .. n : w[i] = l[i]
      /\ w[n + 1] = a /\ w[n + 2] = b
      /\ \A i \in 1 .. Len(r) : w[n + 2 + i] = r[i]
  BY <1>2 DEF IsAround
<1>5. /\ v \in Seq(S) /\ Len(v) = n + 2 + Len(r)
      /\ \A i \in 1 .. n : v[i] = l[i]
      /\ v[n + 1] = b /\ v[n + 2] = a
      /\ \A i \in 1 .. Len(r) : v[n + 2 + i] = r[i]
  BY <1>3 DEF IsAround
<1>6. k + 1 = n + 2 /\ k \in 1 .. Len(w) /\ k + 1 \in 1 .. Len(w) /\ k # k + 1
  BY <1>1, <1>4
<1>7. /\ e \in Seq(S) /\ Len(e) = Len(w) /\ e[k] = b /\ e[k + 1] = a
      /\ \A i \in 1 .. Len(w) : i # k /\ i # k + 1 => e[i] = w[i]
  <2> DEFINE j == k + 1
  <2>1. w[k] = a /\ w[j] = b
    BY <1>4, <1>6
  <2>2. e = [w EXCEPT ![k] = b, ![j] = a]
    BY <2>1
  <2>3. k \in 1 .. Len(w) /\ j \in 1 .. Len(w) /\ k # j /\ w \in Seq(S)
    BY <1>4, <1>6
  <2> HIDE DEF e, j, k
  <2>4. /\ e \in Seq(S) /\ Len(e) = Len(w) /\ e[k] = b /\ e[j] = a
        /\ \A i \in 1 .. Len(w) : i # k /\ i # j => e[i] = w[i]
    BY <2>2, <2>3
  <2> QED BY <2>4 DEF j
<1> HIDE DEF e
<1>8. ASSUME NEW i \in 1 .. Len(v) PROVE v[i] = e[i]
  <2>1. CASE i <= n
    <3>1. i \in 1 .. n /\ i \in 1 .. Len(w) /\ i # k /\ i # k + 1
      BY <1>1, <1>4, <1>5, <2>1
    <3> QED BY <1>4, <1>5, <1>7, <3>1
  <2>2. CASE i = n + 1 \/ i = n + 2
    BY <1>1, <1>5, <1>7, <2>2
  <2>3. CASE i > n + 2
    <3> DEFINE j == i - (n + 2)
    <3>1. j \in 1 .. Len(r) /\ i = n + 2 + j /\ i \in 1 .. Len(w) /\ i # k /\ i # k + 1
      BY <1>1, <1>4, <1>5, <2>3
    <3> HIDE DEF j
    <3>2. w[i] = r[j] /\ v[i] = r[j]
      BY <1>4, <1>5, <3>1
    <3> QED BY <1>7, <3>1, <3>2
  <2>4. i <= n \/ i = n + 1 \/ i = n + 2 \/ i > n + 2
    <3>1. i \in Nat
      BY <1>1, <1>5
    <3> QED BY <1>1, <3>1
  <2> QED BY <2>1, <2>2, <2>3, <2>4
<1>9. v = e
  <2>1. Len(v) = Len(e)
    BY <1>4, <1>5, <1>7
  <2> QED BY <1>5, <1>7, <1>8, <2>1, SeqEqual
<1> QED BY <1>9 DEF IsSwapped, v, w, e

\* A line around two of its bytes.
LEMMA PieceOfOne ==
  ASSUME NEW s \in Seq(Byte), NEW i \in 1 .. Len(s)
  PROVE  Piece(s, i - 1, i) = <<s[i]>>
<1> DEFINE h == i - 1
           r == Piece(s, h, i)
<1>1. h \in 0 .. Len(s) /\ i \in h .. Len(s) /\ i - h = 1 /\ h + 1 = i
  BY LenProperties
<1>2. r \in Seq(Byte) /\ Len(r) = 1 /\ r[1] = s[i]
  <2> HIDE DEF h
  <2>1. r \in Seq(Byte) /\ Len(r) = 1 /\ \A k \in 1 .. 1 : r[k] = s[h + k]
    BY <1>1, PieceIs
  <2> QED BY <1>1, <2>1
<1> HIDE DEF r
<1>3. r = <<s[i]>>
  BY <1>2
<1> QED BY <1>3 DEF r

LEMMA LineAround ==
  ASSUME NEW s \in Seq(Byte), NEW p \in 1 .. Len(s) - 1
  PROVE  LET l == Piece(s, 0, p - 1)
             r == Piece(s, p + 1, Len(s))
         IN  /\ l \in Seq(Byte) /\ r \in Seq(Byte) /\ Len(l) = p - 1
             /\ s[p] \in Byte /\ s[p + 1] \in Byte
             /\ s = ((l \o <<s[p]>>) \o <<s[p + 1]>>) \o r
<1> DEFINE h == p - 1
           j == p + 1
           l == Piece(s, 0, h)
           r == Piece(s, j, Len(s))
<1>1. /\ Len(s) \in Nat /\ p \in 1 .. Len(s) /\ j \in 1 .. Len(s) /\ j - 1 = p /\ h = p - 1
      /\ 0 \in 0 .. Len(s) /\ h \in 0 .. Len(s) /\ p \in 0 .. Len(s) /\ j \in 0 .. Len(s)
      /\ p \in h .. Len(s) /\ j \in p .. Len(s) /\ Len(s) \in j .. Len(s)
      /\ h - 0 = h
  BY LenProperties
<1>2. Piece(s, h, p) = <<s[p]>> /\ Piece(s, p, j) = <<s[j]>>
  <2>1. Piece(s, h, p) = <<s[p]>>
    BY <1>1, PieceOfOne
  <2>2. Piece(s, j - 1, j) = <<s[j]>>
    <3> HIDE DEF j
    <3> QED BY <1>1, PieceOfOne
  <2> QED BY <1>1, <2>1, <2>2
<1> HIDE DEF h, j
<1>3. Piece(s, 0, p) = l \o Piece(s, h, p)
  BY <1>1, PiecesJoined
<1>4. Piece(s, 0, j) = Piece(s, 0, p) \o Piece(s, p, j)
  BY <1>1, PiecesJoined
<1>5. Piece(s, 0, Len(s)) = Piece(s, 0, j) \o r
  BY <1>1, PiecesJoined
<1>6. Piece(s, 0, Len(s)) = s
  BY SubSeqFull DEF Piece
<1>7. l \in Seq(Byte) /\ r \in Seq(Byte) /\ Len(l) = h
  <2>1. h \in 0 .. Len(s)
    BY <1>1
  <2> QED BY <1>1, <2>1, Pieces
<1>8. s[p] \in Byte /\ s[j] \in Byte
  BY <1>1
<1>9. s = ((l \o <<s[p]>>) \o <<s[j]>>) \o r
  BY <1>2, <1>3, <1>4, <1>5, <1>6
<1> HIDE DEF l, r
<1> QED BY <1>7, <1>8, <1>9 DEF l, r, h, j

\* Four parts of a line decode to four parts.
HasParts(s, l, a, b, r) ==
  /\ Decoded(s) = ((Decoded(l) \o Decoded(<<a>>)) \o Decoded(<<b>>)) \o Decoded(r)
  /\ CharsBefore(s, Len(l) + 1) = Len(Decoded(l) \o Decoded(<<a>>))
  /\ CharsBefore(s, Len(l) + 2) = Len((Decoded(l) \o Decoded(<<a>>)) \o Decoded(<<b>>))

LEMMA FourDecoded ==
  ASSUME NEW l \in Seq(Byte), NEW a \in Byte, NEW b \in Byte, NEW r \in Seq(Byte)
  PROVE  HasParts(((l \o <<a>>) \o <<b>>) \o r, l, a, b, r)
<1> DEFINE x == <<a>>
           y == <<b>>
           m == l \o x
           n == m \o y
           s == n \o r
<1>1. x \in Seq(Byte) /\ y \in Seq(Byte) /\ Len(x) = 1 /\ Len(y) = 1 /\ Len(l) \in Nat
  BY ByteByByte, LenProperties
<1> HIDE DEF x, y
<1>2. m \in Seq(Byte) /\ Len(m) = Len(l) + 1 /\ Decoded(m) = Decoded(l) \o Decoded(x)
  <2>1. m \in Seq(Byte) /\ Len(m) = Len(l) + Len(x)
    BY <1>1, ConcatProperties
  <2>2. Decoded(m) = Decoded(l) \o Decoded(x)
    BY <1>1, CharsJoined
  <2> QED BY <1>1, <2>1, <2>2
<1> HIDE DEF m
<1>3. n \in Seq(Byte) /\ Len(n) = Len(l) + 2 /\ Decoded(n) = Decoded(m) \o Decoded(y)
  <2>1. n \in Seq(Byte) /\ Len(n) = Len(m) + Len(y)
    BY <1>1, <1>2, ConcatProperties
  <2>2. Decoded(n) = Decoded(m) \o Decoded(y)
    BY <1>1, <1>2, CharsJoined
  <2> QED BY <1>1, <1>2, <2>1, <2>2
<1>4. /\ Decoded(s) = Decoded(n) \o Decoded(r)
      /\ CharsBefore(s, Len(n)) = Len(Decoded(n))
  <2> HIDE DEF n
  <2> QED BY <1>3, CharsJoined
<1>5. CharsBefore(s, Len(m)) = Len(Decoded(m))
  <2> DEFINE z == y \o r
  <2>1. z \in Seq(Byte)
    BY <1>1, ConcatProperties
  <2>2. s = m \o z
    BY <1>1, <1>2, SMTT(30)
  <2> HIDE DEF s, z
  <2> QED BY <1>2, <2>1, <2>2, CharsJoined
<1> HIDE DEF n, s
<1> QED BY <1>2, <1>3, <1>4, <1>5 DEF HasParts, s, n, m, x, y

\* The same bytes around two that have changed places.
LEMMA TransposedAround ==
  ASSUME NEW s \in Seq(Byte), NEW p \in 1 .. Len(s) - 1, NEW u,
         u = [s EXCEPT ![p] = s[p + 1], ![p + 1] = s[p]]
  PROVE  /\ u \in Seq(Byte) /\ Len(u) = Len(s)
         /\ u = ((Piece(s, 0, p - 1) \o <<s[p + 1]>>) \o <<s[p]>>) \o Piece(s, p + 1, Len(s))
<1> DEFINE l == Piece(s, 0, p - 1)
           r == Piece(s, p + 1, Len(s))
           w == ((l \o <<s[p]>>) \o <<s[p + 1]>>) \o r
           v == ((l \o <<s[p + 1]>>) \o <<s[p]>>) \o r
           k == Len(l) + 1
<1>1. /\ l \in Seq(Byte) /\ r \in Seq(Byte) /\ Len(l) = p - 1
      /\ s[p] \in Byte /\ s[p + 1] \in Byte /\ s = w
  BY LineAround
<1>2. k = p
  BY <1>1
<1>3. IsSwapped(v, w, k)
  <2> HIDE DEF l, r
  <2> QED BY <1>1, SwappedAround
<1>4. v = u
  <2> HIDE DEF l, r, v, w, k
  <2> QED BY <1>1, <1>2, <1>3 DEF IsSwapped
<1>5. u \in Seq(Byte) /\ Len(u) = Len(s)
  <2>1. p \in 1 .. Len(s) /\ p + 1 \in 1 .. Len(s)
    BY LenProperties
  <2> QED BY <1>1, <2>1
<1> QED BY <1>4, <1>5

LEMMA TransposeRefines ==
  ASSUME LineInv, Transpose
  PROVE  Text!Swap \/ Text!Move
<1> DEFINE p == pos
           a == buf[p]
           b == buf[p + 1]
           l == Piece(buf, 0, p - 1)
           r == Piece(buf, p + 1, Len(buf))
           dl == Decoded(l)
           dr == Decoded(r)
<1>1. /\ buf \in Seq(Byte) /\ pos \in 1 .. Len(buf) - 1 /\ Len(buf) \in Nat /\ pos \in Nat
      /\ buf' = [buf EXCEPT ![pos] = buf[pos + 1], ![pos + 1] = buf[pos]]
      /\ pos' \in {pos, pos + 1} /\ history' = history
  <2>1. buf \in Seq(Byte) /\ pos \in 0 .. Len(buf) /\ pos > 0 /\ pos < Len(buf)
    BY DEF LineInv, Transpose
  <2>2. Len(buf) \in Nat /\ pos \in 1 .. Len(buf) - 1 /\ pos \in Nat
    BY <2>1, LenProperties
  <2> QED BY <2>1, <2>2 DEF Transpose, Becomes, historyVars
<1>2. /\ l \in Seq(Byte) /\ r \in Seq(Byte) /\ Len(l) = p - 1
      /\ a \in Byte /\ b \in Byte
      /\ buf = ((l \o <<a>>) \o <<b>>) \o r
  BY <1>1, LineAround
<1>3. /\ buf' \in Seq(Byte) /\ Len(buf') = Len(buf)
      /\ buf' = ((l \o <<b>>) \o <<a>>) \o r
  BY <1>1, TransposedAround
<1>4. Len(l) + 1 = pos /\ Len(l) + 2 = pos + 1 /\ pos' \in 0 .. Len(buf')
  BY <1>1, <1>2, <1>3
<1>5. dl \in Seq(First) /\ dr \in Seq(First) /\ Len(dl) \in Nat /\ Len(dr) \in Nat
  BY <1>2, DecodedType
<1> HIDE DEF l, r, a, b, p
<1>6. /\ Decoded(buf) = ((dl \o Decoded(<<a>>)) \o Decoded(<<b>>)) \o dr
      /\ CharsBefore(buf, pos) = Len(dl \o Decoded(<<a>>))
  <2>1. HasParts(buf, l, a, b, r)
    BY <1>2, FourDecoded
  <2> QED BY <1>4, <2>1 DEF HasParts, dl, dr
<1>7. /\ Decoded(buf') = ((dl \o Decoded(<<b>>)) \o Decoded(<<a>>)) \o dr
      /\ CharsBefore(buf', pos) = Len(dl \o Decoded(<<b>>))
      /\ CharsBefore(buf', pos + 1) = Len((dl \o Decoded(<<b>>)) \o Decoded(<<a>>))
  <2>1. HasParts(buf', l, b, a, r)
    BY <1>2, <1>3, FourDecoded
  <2> QED BY <1>4, <2>1 DEF HasParts, dl, dr
<1>8. /\ Decoded(<<a>>) = IF a = "T" THEN <<>> ELSE <<a>>
      /\ Decoded(<<b>>) = IF b = "T" THEN <<>> ELSE <<b>>
  BY <1>2, DecodedByte
<1> HIDE DEF dl, dr
<1>9. CASE a = "T" \/ b = "T"
  <2>1. Decoded(<<a>>) = <<>> \/ Decoded(<<b>>) = <<>>
    BY <1>8, <1>9
  <2>2. Decoded(<<a>>) \in Seq(First) /\ Decoded(<<b>>) \in Seq(First)
    BY <1>2, ByteByByte, DecodedType
  <2>3. (dl \o Decoded(<<b>>)) \o Decoded(<<a>>) = (dl \o Decoded(<<a>>)) \o Decoded(<<b>>)
    <3> DEFINE x == Decoded(<<a>>)
               y == Decoded(<<b>>)
    <3>1. dl \o x \in Seq(First) /\ dl \o y \in Seq(First)
      BY <1>5, <2>2, ConcatProperties
    <3> HIDE DEF x, y
    <3>2. dl \o <<>> = dl /\ (dl \o x) \o <<>> = dl \o x /\ (dl \o y) \o <<>> = dl \o y
      BY <1>5, <3>1, ConcatEmptySeq
    <3>3. x = <<>> => (dl \o y) \o x = (dl \o x) \o y
      BY <3>2
    <3>4. y = <<>> => (dl \o y) \o x = (dl \o x) \o y
      BY <3>2
    <3> QED BY <2>1, <3>3, <3>4 DEF x, y
  <2>4. Decoded(buf') = Decoded(buf)
    BY <1>6, <1>7, <2>3
  <2>5. CharsBefore(buf', pos') \in 0 .. Len(Decoded(buf'))
    BY <1>3, <1>4, DecodedParts
  <2>6. Text!Move
    BY <1>1, <2>4, <2>5, Mapped
  <2> QED BY <2>6
<1>10. CASE a # "T" /\ b # "T"
  <2> DEFINE w == ((dl \o <<a>>) \o <<b>>) \o dr
             v == ((dl \o <<b>>) \o <<a>>) \o dr
             k == Len(dl) + 1
  <2>1. a \in First /\ b \in First
    BY <1>2, <1>10 DEF First
  <2>2. Decoded(buf) = w /\ Decoded(buf') = v
    BY <1>6, <1>7, <1>8, <1>10
  <2>3. /\ Len(dl \o <<a>>) = k /\ Len(dl \o <<b>>) = k
        /\ Len((dl \o <<b>>) \o <<a>>) = k + 1
    BY <1>5, <2>1
  <2>4. CharsBefore(buf, pos) = k /\ CharsBefore(buf', pos') \in {k, k + 1}
    BY <1>1, <1>6, <1>7, <1>8, <1>10, <2>3
  <2>5. IsSwapped(v, w, k)
    BY <1>5, <2>1, SwappedAround
  <2>6. Len(w) = Len(dl) + 2 + Len(dr)
    BY <1>5, <2>1, Around DEF IsAround
  <2> HIDE DEF w, v
  <2>7. 0 < k /\ k < Len(w)
    BY <1>5, <2>6
  <2> HIDE DEF k
  <2>8. Text!Swap
    <3>1. Decoded(buf') = [w EXCEPT ![k] = w[k + 1], ![k + 1] = w[k]]
      BY <2>2, <2>5 DEF IsSwapped
    <3>2. /\ Len(Decoded(Piece(buf, 0, pos))) = k
          /\ Len(Decoded(Piece(buf', 0, pos'))) \in {k, k + 1}
      BY <2>4 DEF CharsBefore
    <3> QED BY <1>1, <2>2, <2>7, <3>1, <3>2, ZenonT(30) DEF Text!Swap
  <2> QED BY <2>8
<1> QED BY <1>9, <1>10

\* The texts of the history.
Texts(h) == {Decoded(h[i]) : i \in DOMAIN h}

LEMMA PoppedTexts ==
  ASSUME NEW h \in Seq(Seq(Byte)), Len(h) > 0
  PROVE  Popped(h) \in Seq(Seq(Byte)) /\ Texts(Popped(h)) \subseteq Texts(h)
<1> DEFINE n == Len(h) - 1
<1>1. n \in 0 .. Len(h) /\ n \in Nat /\ DOMAIN h = 1 .. Len(h)
  BY LenProperties
<1>2. Popped(h) = SubSeq(h, 1, n)
  BY DEF Popped
<1> HIDE DEF n
<1>3. /\ Popped(h) \in Seq(Seq(Byte)) /\ Len(Popped(h)) = n /\ DOMAIN Popped(h) = 1 .. n
      /\ \A i \in 1 .. n : i \in 1 .. Len(h) /\ Popped(h)[i] = h[i]
  BY <1>1, <1>2
<1> QED BY <1>1, <1>3 DEF Texts

LEMMA AddedTexts ==
  ASSUME NEW h \in Seq(Seq(Byte)), NEW line \in Seq(Byte)
  PROVE  Texts(Added(h, line)) \subseteq Texts(h) \cup {Decoded(line)}
<1>1. Len(h) \in Nat /\ DOMAIN h = 1 .. Len(h)
  BY LenProperties
<1>2. CASE h # <<>> /\ h[Len(h)] = line
  BY <1>2 DEF Added
<1>3. CASE ~(h # <<>> /\ h[Len(h)] = line)
  <2> DEFINE g == IF Len(h) = MaxHistory THEN Tail(h) ELSE h
  <2>1. Added(h, line) = Append(g, line)
    BY <1>3, Zenon DEF Added
  <2>2. g \in Seq(Seq(Byte)) /\ \A k \in 1 .. Len(g) : g[k] \in {h[i] : i \in 1 .. Len(h)}
    <3>1. CASE Len(h) = MaxHistory
      <4>1. h # <<>>
        BY <1>1, <3>1, LineEditorAssumption
      <4>2. /\ Tail(h) \in Seq(Seq(Byte)) /\ Len(Tail(h)) = Len(h) - 1
            /\ \A k \in 1 .. Len(Tail(h)) : Tail(h)[k] = h[k + 1]
        BY <4>1, HeadTailProperties
      <4>3. \A k \in 1 .. Len(h) - 1 : k + 1 \in 1 .. Len(h)
        BY <1>1
      <4>4. \A k \in 1 .. Len(Tail(h)) : Tail(h)[k] \in {h[i] : i \in 1 .. Len(h)}
        <5>1. \A k \in 1 .. Len(Tail(h)) : k + 1 \in 1 .. Len(h)
          BY <4>2, <4>3
        <5> QED BY <4>2, <5>1, SMTT(30)
      <4>5. g = Tail(h)
        BY <3>1, ZenonT(30)
      <4> HIDE DEF g
      <4> QED BY <4>2, <4>4, <4>5, ZenonT(30)
    <3>2. CASE Len(h) # MaxHistory
      <4>1. g = h
        BY <3>2
      <4> QED BY <1>1, <4>1
    <3> QED BY <3>1, <3>2
  <2> HIDE DEF g
  <2>3. /\ Append(g, line) \in Seq(Seq(Byte)) /\ Len(Append(g, line)) = Len(g) + 1
        /\ \A k \in 1 .. Len(g) : Append(g, line)[k] = g[k]
        /\ Append(g, line)[Len(g) + 1] = line
        /\ Len(g) \in Nat
    BY <2>2
  <2>4. \A k \in DOMAIN Append(g, line) : k \in 1 .. Len(g) \/ k = Len(g) + 1
    BY <2>3
  <2>5. ASSUME NEW k \in DOMAIN Append(g, line)
        PROVE  Decoded(Append(g, line)[k]) \in Texts(h) \cup {Decoded(line)}
    <3>1. CASE k \in 1 .. Len(g)
      <4>1. PICK i \in 1 .. Len(h) : Append(g, line)[k] = h[i]
        BY <2>2, <2>3, <3>1
      <4> QED BY <1>1, <4>1 DEF Texts
    <3>2. CASE k = Len(g) + 1
      BY <2>3, <3>2
    <3> QED BY <2>4, <2>5, <3>1, <3>2
  <2> QED BY <2>1, <2>5 DEF Texts
<1> QED BY <1>2, <1>3

\* No text is remembered but those that were, and the one being edited.
LEMMA KeepsTexts ==
  ASSUME Texts(history') \subseteq Texts(history) \cup {Decoded(buf), <<>>}
  PROVE  Text!Keeps
BY DEF Text!Keeps, Texts

\* A line that starts from nothing.
LEMMA NewLineRefines ==
  ASSUME buf' = <<>>, pos' = 0,
         Texts(history') \subseteq Texts(history) \cup {Decoded(buf), <<>>}
  PROVE  Text!NewLine
<1> DEFINE e == <<>>
<1>1. Decoded(<<>>) = <<>> /\ Piece(<<>>, 0, 0) = <<>> /\ Len(<<>>) = 0
  BY DecodedNothing DEF Piece
<1>2. Decoded(buf') = <<>> /\ Len(Decoded(Piece(buf', 0, pos'))) = 0
  BY <1>1
<1> QED BY <1>2, KeepsTexts DEF Text!NewLine

\* All but the history stays.
LEMMA ForgetRefines ==
  ASSUME buf' = buf, pos' = pos,
         Texts(history') \subseteq Texts(history) \cup {Decoded(buf), <<>>}
  PROVE  Text!Forget
BY KeepsTexts DEF Text!Forget

LEMMA HistoryNextRefines ==
  ASSUME LineInv, NEW d \in {-1, 1}, HistoryNext(d)
  PROVE  Text!Recall \/ Text!Forget
<1> DEFINE n    == Len(history)
           here == n - history_index
           i    == history_index + d
<1>1. /\ history' = [history EXCEPT ![here] = buf]
      /\ \/ /\ i \in 0 .. n - 1
            /\ buf' = history[n - i] /\ pos' = Len(history[n - i])
         \/ buf' = buf /\ pos' = pos
  BY DEF HistoryNext, Becomes, lineVars
<1>2. history \in Seq(Seq(Byte)) /\ DOMAIN history = 1 .. n /\ n \in Nat
  BY LenProperties DEF LineInv
<1> HIDE DEF here
<1>3. Texts(history') \subseteq Texts(history) \cup {Decoded(buf), <<>>}
  <2>1. \A k \in DOMAIN history' : k \in DOMAIN history /\ history'[k] \in {history[k], buf}
    BY <1>1, <1>2
  <2> QED BY <2>1 DEF Texts
<1>4. CASE buf' = buf /\ pos' = pos
  BY <1>3, <1>4, ForgetRefines
<1>5. CASE i \in 0 .. n - 1 /\ buf' = history[n - i] /\ pos' = Len(history[n - i])
  <2> DEFINE s == history[n - i]
  <2> HIDE DEF i, n
  <2>1. n - i \in 1 .. n
    BY <1>2, <1>5
  <2>2. s \in Seq(Byte) /\ Decoded(s) \in Texts(history)
    BY <1>2, <2>1 DEF Texts
  <2>3. buf' = s /\ pos' = Len(s)
    BY <1>5
  <2> HIDE DEF s
  <2>4. Piece(s, 0, Len(s)) = s
    BY <2>2, SubSeqFull DEF Piece
  <2>5. Decoded(buf') \in Texts(history) /\ Len(Decoded(Piece(buf', 0, pos'))) = Len(Decoded(buf'))
    BY <2>2, <2>3, <2>4
  <2> QED BY <1>3, <2>5, KeepsTexts DEF Text!Recall, Texts
<1> QED BY <1>1, <1>4, <1>5

\* A key of the list shown goes on showing one of those the callback returns.
OfferInv == Completing => offer.lc \in Offers

LEMMA OfferStep ==
  ASSUME LineInv, OfferInv, [Next]_vars
  PROVE  OfferInv'
<1>1. CASE \E lc \in Offers : Complete(lc)
  <2>1. PICK lc \in Offers : offer' = [lc |-> lc, i |-> 0]
    BY <1>1 DEF Complete
  <2> QED BY <2>1 DEF OfferInv
<1>2. CASE NextOffer
  <2>1. offer \in [lc : Seq(Seq(Byte)), i : Nat]
    BY DEF LineInv
  <2>2. Completing /\ offer'.lc = offer.lc
    BY <1>2, <2>1 DEF NextOffer
  <2> QED BY <2>2 DEF OfferInv
<1>3. CASE Key
  <2>1. at' \in {"editing", "undefined", "stuck"}
    BY <1>3 DEF Key, Insert, Transpose, HistoryNext, MoveLeft, MoveRight, MoveHome, MoveEnd,
           Delete, Backspace, DeleteLine, DeleteEnd, DeletePrevWord, ClearScreen, Edits, Editing
  <2> QED BY <2>1 DEF OfferInv, Completing
<1>4. CASE Cancel \/ Accept \/ NewLine \/ Enter \/ InputFails \/ CtrlC \/ EndOfFile
  <2>1. at' # "completing"
    BY <1>4 DEF Cancel, Accept, NewLine, Enter, InputFails, CtrlC, EndOfFile, Gives
  <2> QED BY <2>1 DEF OfferInv, Completing
<1>5. CASE UNCHANGED vars
  BY <1>5 DEF vars, OfferInv, Completing
<1> QED BY <1>1, <1>2, <1>3, <1>4, <1>5 DEF Next, Completion

\* A completion that is taken is one of those offered.
LEMMA AcceptRefines ==
  ASSUME LineInv, OfferInv, Accept
  PROVE  Text!Complete \/ UNCHANGED Text!vars
<1>1. /\ Completing /\ buf' = Line /\ pos' = Cursor /\ history' = history
      /\ offer \in [lc : Seq(Seq(Byte)), i : Nat]
  BY DEF LineInv, Accept, Becomes, historyVars
<1>2. CASE Offered
  <2> DEFINE lc == offer.lc
             k  == offer.i + 1
             s  == lc[k]
  <2>1. lc \in Offers /\ k \in DOMAIN lc /\ s \in Seq(Byte)
    <3>1. lc \in Seq(Seq(Byte)) /\ k \in 1 .. Len(lc)
      BY <1>1, <1>2 DEF Offered
    <3> QED BY <1>1, <3>1 DEF OfferInv
  <2>2. buf' = s /\ pos' = Len(s)
    BY <1>1, <1>2 DEF Line, Cursor
  <2> HIDE DEF s
  <2>3. Piece(s, 0, Len(s)) = s
    BY <2>1, SubSeqFull DEF Piece
  <2>4. Decoded(buf') \in UNION {{Decoded(c[i]) : i \in DOMAIN c} : c \in Offers}
    <3> HIDE DEF lc, k
    <3>1. Decoded(s) = Decoded(lc[k])
      BY DEF s
    <3>2. Decoded(s) \in {Decoded(lc[i]) : i \in DOMAIN lc}
      BY <2>1, <3>1
    <3> QED BY <2>1, <2>2, <3>2
  <2>5. Len(Decoded(Piece(buf', 0, pos'))) = Len(Decoded(buf'))
    BY <2>2, <2>3
  <2> QED BY <1>1, <2>4, <2>5 DEF Text!Complete
<1>3. CASE ~Offered
  <2>1. buf' = buf /\ pos' = pos
    BY <1>1, <1>3 DEF Line, Cursor
  <2> QED BY <1>1, <2>1 DEF Text!vars
<1> QED BY <1>2, <1>3

\* The keys that move the cursor or take something out at it.
LEMMA EditsRefine ==
  ASSUME LineInv,
         \/ MoveLeft \/ MoveRight \/ MoveHome \/ MoveEnd
         \/ Delete \/ Backspace \/ DeleteLine \/ DeleteEnd \/ DeletePrevWord \/ ClearScreen
  PROVE  Text!Move \/ Text!Cut
<1>1. buf \in Seq(Byte) /\ pos \in 0 .. Len(buf) /\ Len(buf) \in Nat /\ pos \in Nat
  <2>1. buf \in Seq(Byte) /\ pos \in 0 .. Len(buf)
    BY DEF LineInv
  <2> QED BY <2>1, LenProperties
<1> DEFINE L == pos - PrevGraphemeLen(buf, pos)
           R == pos + GraphemeLen(buf, pos)
<1>2. L \in 0 .. pos /\ L \in 0 .. Len(buf) /\ R \in pos .. Len(buf) /\ R \in 0 .. Len(buf)
  <2>1. PrevGraphemeLen(buf, pos) \in 0 .. pos
    BY <1>1, PrevGraphemeLenBound
  <2>2. GraphemeLen(buf, pos) \in 0 .. Len(buf) - pos
    BY <1>1, GraphemeLenBound
  <2>3. \A g \in 0 .. pos : pos - g \in 0 .. pos /\ pos - g \in 0 .. Len(buf)
    BY <1>1
  <2>4. \A g \in 0 .. Len(buf) - pos : pos + g \in pos .. Len(buf) /\ pos + g \in 0 .. Len(buf)
    BY <1>1
  <2> QED BY <2>1, <2>2, <2>3, <2>4
<1> HIDE DEF L, R
<1>3. 0 \in 0 .. pos /\ pos \in 0 .. pos /\ pos \in pos .. Len(buf) /\ Len(buf) \in pos .. Len(buf)
      /\ 0 \in 0 .. Len(buf) /\ Len(buf) \in 0 .. Len(buf)
  BY <1>1
<1>4. ASSUME NEW s, NEW p, Edits(s, p)
      PROVE  buf' = s /\ pos' = p /\ history' = history
  BY <1>4 DEF Edits, Becomes, historyVars
<1>5. ASSUME NEW p \in 0 .. Len(buf), Edits(buf, p) PROVE Text!Move
  <2>1. buf' = buf /\ pos' = p /\ history' = history
    BY <1>4, <1>5
  <2> QED BY <1>1, <2>1, MoveRefines
<1>6. ASSUME NEW i \in 0 .. pos, NEW j \in pos .. Len(buf), Edits(Without(i, j), i) PROVE Text!Cut
  <2>1. buf' = Without(i, j) /\ pos' = i /\ history' = history
    BY <1>4, <1>6
  <2> QED BY <1>1, <2>1, CutRefines
<1>7. CASE MoveLeft \/ MoveRight \/ MoveHome \/ MoveEnd \/ ClearScreen
  BY <1>1, <1>2, <1>3, <1>5, <1>7 DEF MoveLeft, MoveRight, MoveHome, MoveEnd, ClearScreen, L, R
<1>8. CASE Delete
  BY <1>2, <1>3, <1>6, <1>8 DEF Delete, R
<1>9. CASE Backspace
  <2>1. Edits(Without(L, pos), L)
    BY <1>9 DEF Backspace, L
  <2> QED BY <1>2, <1>3, <1>6, <2>1
<1>10. CASE DeletePrevWord
  <2>1. WordStart \in 0 .. pos /\ Edits(Without(WordStart, pos), WordStart)
    BY <1>1, <1>10, WordStartBound DEF DeletePrevWord
  <2> HIDE DEF WordStart
  <2> QED BY <1>3, <1>6, <2>1
<1>11. CASE DeleteLine
  <2>1. Piece(buf, 0, 0) = <<>> /\ Piece(buf, Len(buf), Len(buf)) = <<>>
    BY <1>1, SubSeqEmpty DEF Piece
  <2>2. <<>> \o <<>> = <<>>
    OBVIOUS
  <2>3. Without(0, Len(buf)) = <<>>
    BY <2>1, <2>2 DEF Without
  <2>4. Edits(Without(0, Len(buf)), 0)
    BY <1>11, <2>3 DEF DeleteLine
  <2> QED BY <1>3, <1>6, <2>4
<1>12. CASE DeleteEnd
  <2>1. Piece(buf, Len(buf), Len(buf)) = <<>>
    BY <1>1, SubSeqEmpty DEF Piece
  <2>2. Piece(buf, 0, pos) \in Seq(Byte)
    BY <1>1, Pieces
  <2>3. Without(pos, Len(buf)) = Piece(buf, 0, pos)
    BY <2>1, <2>2, ConcatEmptySeq DEF Without
  <2>4. Edits(Without(pos, Len(buf)), pos)
    BY <1>12, <2>3 DEF DeleteEnd
  <2> QED BY <1>3, <1>6, <2>4
<1> QED BY <1>7, <1>8, <1>9, <1>10, <1>11, <1>12

LEMMA GivesRefines ==
  ASSUME LineInv, Editing \/ Completing, NEW h \in {history, Popped(history)}, Gives(h)
  PROVE  Text!NewLine
<1>1. buf' = <<>> /\ pos' = 0 /\ history' = Added(h, buf)
  BY DEF Gives, Leaves, Becomes
<1>2. buf \in Seq(Byte) /\ history \in Seq(Seq(Byte)) /\ Len(history) > 0
  <2>1. /\ buf \in Seq(Byte) /\ history \in Seq(Seq(Byte))
        /\ history_index \in Nat /\ history_index < Len(history)
    BY DEF LineInv
  <2>2. Len(history) \in Nat
    BY <2>1, LenProperties
  <2> QED BY <2>1, <2>2
<1>3. h \in Seq(Seq(Byte)) /\ Texts(h) \subseteq Texts(history)
  BY <1>2, PoppedTexts
<1>4. Texts(Added(h, buf)) \subseteq Texts(h) \cup {Decoded(buf)}
  BY <1>2, <1>3, AddedTexts
<1>5. Texts(history') \subseteq Texts(history) \cup {Decoded(buf), <<>>}
  BY <1>1, <1>3, <1>4
<1> QED BY <1>1, <1>5, NewLineRefines

LEMMA RestRefines ==
  ASSUME LineInv, NewLine \/ CtrlC \/ EndOfFile
  PROVE  Text!NewLine \/ Text!Forget
<1>1. history \in Seq(Seq(Byte)) /\ <<>> \in Seq(Byte)
  BY EmptySeq DEF LineInv
<1>2. CASE NewLine
  <2>1. buf' = buf /\ pos' = pos /\ history' = Added(history, <<>>)
    BY <1>2 DEF NewLine, lineVars
  <2>2. Texts(Added(history, <<>>)) \subseteq Texts(history) \cup {Decoded(<<>>)}
    BY <1>1, AddedTexts
  <2>3. Texts(history') \subseteq Texts(history) \cup {Decoded(buf), <<>>}
    BY <2>1, <2>2, DecodedNothing
  <2> QED BY <2>1, <2>3, ForgetRefines
<1>3. CASE CtrlC \/ EndOfFile
  <2>1. buf' = <<>> /\ pos' = 0 /\ (history' = history \/ (Editing /\ history' = Popped(history)))
    BY <1>3 DEF CtrlC, EndOfFile, Leaves, Becomes
  <2>2. Editing => Len(history) > 0
    <3> SUFFICES ASSUME Editing PROVE Len(history) > 0
      OBVIOUS
    <3>1. history_index \in Nat /\ history_index < Len(history) /\ Len(history) \in Nat
      BY <1>1, LenProperties DEF LineInv
    <3> QED BY <3>1
  <2>3. Texts(history') \subseteq Texts(history)
    BY <1>1, <2>1, <2>2, PoppedTexts
  <2> QED BY <2>1, <2>3, NewLineRefines
<1> QED BY <1>2, <1>3

LEMMA StepRefines ==
  ASSUME LineInv, OfferInv, [Next]_vars
  PROVE  [Text!Next]_(Text!vars)
<1>1. CASE \E c \in Typed : Insert(c)
  BY <1>1, InsertRefines DEF Text!Next
<1>2. CASE \/ MoveLeft \/ MoveRight \/ MoveHome \/ MoveEnd
           \/ Delete \/ Backspace \/ DeleteLine \/ DeleteEnd \/ DeletePrevWord \/ ClearScreen
  BY <1>2, EditsRefine DEF Text!Next
<1>3. CASE Transpose
  BY <1>3, TransposeRefines DEF Text!Next
<1>4. CASE \E d \in {-1, 1} : HistoryNext(d)
  BY <1>4, HistoryNextRefines DEF Text!Next
<1>5. CASE (\E lc \in Offers : Complete(lc)) \/ NextOffer \/ Cancel \/ UNCHANGED vars
  <2>1. buf' = buf /\ pos' = pos /\ history' = history
    BY <1>5 DEF Complete, NextOffer, Cancel, historyVars, vars, lineVars
  <2> QED BY <2>1 DEF Text!vars
<1>6. CASE Accept
  BY <1>6, AcceptRefines DEF Text!Next
<1>7. CASE Enter \/ InputFails
  BY <1>7, GivesRefines DEF Enter, InputFails, Text!Next
<1>8. CASE NewLine \/ CtrlC \/ EndOfFile
  BY <1>8, RestRefines DEF Text!Next
<1> QED BY <1>1, <1>2, <1>3, <1>4, <1>5, <1>6, <1>7, <1>8 DEF Next, Key, Completion

(***************************************************************************)
(* On bytes, each key does what TextLine says of characters: it inserts    *)
(* one at the cursor, moves between two, cuts out a piece that touches the *)
(* cursor, swaps two, or brings back a text that was edited before or is   *)
(* offered as a completion.                                                *)
(***************************************************************************)
THEOREM EditorEditsText == Spec => EditsText
<1>1. Init => Text!Init
  <2> SUFFICES ASSUME Init PROVE Text!Init
    OBVIOUS
  <2>1. buf = <<>> /\ pos = 0 /\ history = <<>> /\ Len(<<>>) = 0
    BY DEF Init
  <2>2. Piece(<<>>, 0, 0) = <<>>
    BY DEF Piece
  <2>3. {Decoded(history[i]) : i \in DOMAIN history} = {}
    BY <2>1
  <2> QED BY <2>1, <2>2, <2>3, DecodedNothing DEF Text!Init
<1>2. Init => OfferInv
  BY DEF Init, OfferInv, Completing
<1>3. LineInv /\ OfferInv /\ [Next]_vars => OfferInv'
  BY OfferStep
<1>4. LineInv /\ OfferInv /\ [Next]_vars => [Text!Next]_(Text!vars)
  BY StepRefines
<1> QED BY <1>1, <1>2, <1>3, <1>4, LineInvariance, PTL DEF Spec, EditsText, Text!Spec
=============================================================================
