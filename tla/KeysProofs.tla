----------------------------- MODULE KeysProofs -----------------------------
(***************************************************************************)
(* Proofs about the keys, for any number of keys and however their bytes   *)
(* arrive.                                                                 *)
(***************************************************************************)
EXTENDS Keys, SequenceTheorems, TLAPS

-----------------------------------------------------------------------------
(* What is on its way.                                                     *)

AllKeys == Known \cup Answers
Byte    == Simple \cup {"lead2", "lead3", "lead4", "more", "esc", "[", "O", "D", "H", "~", ";",
                        "digit3", "digit5", "column1", "column2"}
Item    == [key : Nat, nth : Nat, byte : Byte]

\* Is e the byte of its key that it says it is, or even the last one?
Belongs(e, keys) ==
  /\ e.key \in DOMAIN keys
  /\ e.nth \in 1 .. Len(Bytes(keys[e.key]))
  /\ e.byte = Bytes(keys[e.key])[e.nth]
Closes(e, keys) == e.nth = Len(Bytes(keys[e.key]))

\* f comes right behind e.
Follows(e, f, keys) ==
  IF Closes(e, keys) THEN f.key = e.key + 1 /\ f.nth = 1
  ELSE f.key = e.key /\ f.nth = e.nth + 1

\* s is all the bytes of some successive keys.
Whole(s, keys) ==
  /\ s \in Seq(Item)
  /\ \A i \in 1 .. Len(s) : Belongs(s[i], keys)
  /\ \A i \in 1 .. Len(s) - 1 : Follows(s[i], s[i + 1], keys)
  /\ \A i, j \in 1 .. Len(s) : i <= j => s[i].key <= s[j].key
  /\ s # <<>> => s[1].nth = 1 /\ Closes(s[Len(s)], keys)

\* The bytes of the present key, those that have arrived and those to come.
Stream == got \o queue \o coming

Asking == at \in {"from", "to"}
Inside == at \in {"rest", "second", "third", "fourth"}

Types ==
  /\ sent \in Seq(AllKeys)
  /\ got \in Seq(Item) /\ queue \in Seq(Item) /\ coming \in Seq(Item)
  /\ at \in {"given", "first", "rest", "second", "third", "fourth", "from", "to", "closed"}
  /\ open \in BOOLEAN /\ sized \in BOOLEAN

\* The stream holds whole keys, up to the latest one.
Latest(s, keys) == s # <<>> => s[Len(s)].key = Len(keys)
StreamInv ==
  /\ Whole(Stream, sent)
  /\ open => Latest(Stream, sent)
  /\ ~open => coming = <<>>

\* Of keys, those before the stream s were done as d says, or are in l.
What == AllKeys \cup {"nothing", "garbage", "failure"}
Did(key, what) == [key |-> key, what |-> what]
DoneBefore(d, l, s, keys) ==
  /\ d \in Seq([key : Nat, what : What])
  /\ \A i \in 1 .. Len(d) : d[i].key \in DOMAIN keys
  /\ \A i \in 1 .. Len(d) : d[i].what = Meaning(keys[d[i].key])
  /\ \A i, j \in 1 .. Len(d) : i < j => d[i].key < d[j].key
  /\ \A i \in 1 .. Len(d), j \in 1 .. Len(s) : d[i].key < s[j].key
  /\ DOMAIN keys = l \cup KeysOf(s) \cup KeysOf(d)
DoneInv == DoneBefore(done, lost, Stream, sent)

\* What the next read knows of the bytes it has.
ReadInv ==
  /\ ~Inside /\ ~Asking => got = <<>>
  /\ at = "rest" => Len(got) = 1 /\ got[1].byte \in {"lead2", "lead3", "lead4"}
  /\ at = "second" => Len(got) = 1 /\ got[1].byte = "esc"
  /\ at = "third" => Len(got) = 2 /\ got[1].byte = "esc"
  /\ at = "fourth" => Len(got) = 3 /\ got[1].byte = "esc" /\ got[2].byte = "["
                      /\ got[3].byte \in {"digit3", "digit5"}
  /\ Asking => Len(got) < AnswerRoom /\ \A i \in 1 .. Len(got) : got[i].byte # "R"

\* An answer is on its way only while it is waited for, and it is the one asked
\* for.
Awaited == IF at = "from" THEN "atStart" ELSE "atMargin"
NoneAnswers(s, keys) == \A i \in 1 .. Len(s) : keys[s[i].key] \notin Answers
SomeAnswers(s, keys) == \E i \in 1 .. Len(s) : keys[s[i].key] \in Answers
LastAnswers(s, keys, a) ==
  \A i \in 1 .. Len(s) :
    keys[s[i].key] \in Answers =>
      /\ keys[s[i].key] = a
      /\ \A k \in DOMAIN keys : k > s[i].key => keys[k] \notin Answers
AnswerInv ==
  /\ ~Asking => NoneAnswers(Stream, sent)
  /\ Asking => LastAnswers(Stream, sent, Awaited)
  /\ Asking /\ open => SomeAnswers(Stream, sent)

\* Where the cursor was left, and why the width may be assumed.
SizeInv ==
  /\ Asking => ~sized
  /\ at = "from" => column = Start
  /\ at = "to" => column = Margin /\ (open => from = Start)
  /\ ~Asking /\ at # "given" /\ open => WidthAsked

Inv  == Types /\ StreamInv /\ DoneInv /\ ReadInv /\ AnswerInv /\ SizeInv
IInv == ~cut => Inv

-----------------------------------------------------------------------------
(* The bytes of keys.                                                      *)

LEMMA BytesTable ==
  /\ \A k \in Simple : Bytes(k) = <<k>>
  /\ Bytes("accent") = <<"lead2", "more">>
  /\ Bytes("wide") = <<"lead3", "more", "more">>
  /\ Bytes("emoji") = <<"lead4", "more", "more", "more">>
  /\ Bytes("left") = <<"esc", "[", "D">>
  /\ Bytes("home") = <<"esc", "O", "H">>
  /\ Bytes("delete") = <<"esc", "[", "digit3", "~">>
  /\ Bytes("pageup") = <<"esc", "[", "digit5", "~">>
  /\ Bytes("atStart") = <<"esc", "[", "digit5", ";", "column1", "R">>
  /\ Bytes("atMargin") = <<"esc", "[", "digit5", ";", "column2", "R">>
BY DEF Bytes, Simple

LEMMA BytesType ==
  ASSUME NEW k \in AllKeys
  PROVE  Bytes(k) \in Seq(Byte) /\ Len(Bytes(k)) \in 1 .. 6
<1> DEFINE Ok(s) == s \in Seq(Byte) /\ Len(s) \in 1 .. 6
<1>1. \A b1 \in Byte : Ok(<<b1>>)
  OBVIOUS
<1>2. \A b1, b2, b3 \in Byte : Ok(<<b1, b2>>) /\ Ok(<<b1, b2, b3>>)
  OBVIOUS
<1>3. \A b1, b2, b3, b4 \in Byte : Ok(<<b1, b2, b3, b4>>)
  OBVIOUS
<1>4. \A b1, b2, b3, b4, b5, b6 \in Byte : Ok(<<b1, b2, b3, b4, b5, b6>>)
  OBVIOUS
<1> HIDE DEF Ok
<1>5. k \in Simple => Ok(Bytes(k))
  BY <1>1, BytesTable, ZenonT(30) DEF Byte
<1>6. k \in {"accent", "wide", "left", "home"} => Ok(Bytes(k))
  BY <1>2, BytesTable, ZenonT(30) DEF Byte, Simple
<1>7. k \in {"emoji", "delete", "pageup"} => Ok(Bytes(k))
  BY <1>3, BytesTable, ZenonT(30) DEF Byte, Simple
<1>8. k \in Answers => Ok(Bytes(k))
  BY <1>4, BytesTable, ZenonT(30) DEF Answers, Byte, Simple
<1>9. Ok(Bytes(k))
  BY <1>5, <1>6, <1>7, <1>8 DEF AllKeys, Known, Answers
<1> QED BY <1>9 DEF Ok

LEMMA RoomForAnswers == AnswerRoom \in Nat /\ 6 <= AnswerRoom
BY KeysAssumption, BytesTable DEF Answers

-----------------------------------------------------------------------------
(* Whole keys.                                                             *)

LEMMA Joined ==
  ASSUME NEW S, NEW g \in Seq(S), NEW q \in Seq(S)
  PROVE  LET s == g \o q IN
           /\ s \in Seq(S) /\ Len(s) = Len(g) + Len(q)
           /\ \A i \in 1 .. Len(g) : s[i] = g[i]
           /\ \A i \in 1 .. Len(q) : s[Len(g) + i] = q[i]
OBVIOUS

LEMMA Concatenated ==
  ASSUME NEW S, NEW g \in Seq(S), NEW q \in Seq(S), NEW c \in Seq(S), NEW s, s = g \o q \o c
  PROVE  /\ s \in Seq(S) /\ Len(s) = Len(g) + Len(q) + Len(c)
         /\ \A i \in 1 .. Len(g) : s[i] = g[i]
         /\ \A i \in 1 .. Len(q) : s[Len(g) + i] = q[i]
         /\ \A i \in 1 .. Len(c) : s[Len(g) + Len(q) + i] = c[i]
OBVIOUS

LEMMA Forward ==
  ASSUME NEW keys, NEW s, Whole(s, keys), NEW i \in 1 .. Len(s), ~Closes(s[i], keys)
  PROVE  i < Len(s) /\ s[i + 1].key = s[i].key /\ s[i + 1].nth = s[i].nth + 1
BY DEF Whole, Follows

LEMMA Backward ==
  ASSUME NEW keys, NEW s, Whole(s, keys), NEW i \in 1 .. Len(s), s[i].nth > 1
  PROVE  i > 1 /\ s[i - 1].key = s[i].key /\ s[i - 1].nth = s[i].nth - 1
<1>1. i > 1
  BY DEF Whole
<1>2. s[i - 1] \in Item /\ s[i] \in Item /\ Follows(s[i - 1], s[i], keys)
  BY <1>1 DEF Whole
<1> QED BY <1>1, <1>2 DEF Follows, Item

\* Bytes of different keys: one ends and the other begins.
LEMMA Boundary ==
  ASSUME NEW keys, NEW s, Whole(s, keys), NEW i \in 1 .. Len(s) - 1,
         s[i].key # s[i + 1].key
  PROVE  Closes(s[i], keys) /\ s[i + 1].nth = 1
BY DEF Whole, Follows

LEMMA WholeRest ==
  ASSUME NEW keys, NEW s, Whole(s, keys), NEW m \in 0 .. Len(s),
         m = Len(s) \/ s[m + 1].nth = 1
  PROVE  Whole(SubSeq(s, m + 1, Len(s)), keys)
<1> DEFINE t == SubSeq(s, m + 1, Len(s))
<1>1. t \in Seq(Item) /\ Len(t) = Len(s) - m /\ \A i \in 1 .. Len(t) : t[i] = s[m + i]
  BY SMTT(30) DEF Whole
<1>2. \A i \in 1 .. Len(t) : m + i \in 1 .. Len(s)
  BY <1>1, SMTT(30)
<1>3. \A i \in 1 .. Len(t) : Belongs(t[i], keys)
  BY <1>1, <1>2 DEF Whole
<1>4. \A i \in 1 .. Len(t) - 1 : Follows(t[i], t[i + 1], keys)
  <2> TAKE i \in 1 .. Len(t) - 1
  <2>1. m + i \in 1 .. Len(s) - 1 /\ t[i] = s[m + i] /\ t[i + 1] = s[(m + i) + 1]
    BY <1>1
  <2> QED BY <2>1 DEF Whole
<1>5. \A i, j \in 1 .. Len(t) : i <= j => t[i].key <= t[j].key
  BY <1>1, <1>2 DEF Whole
<1>6. t # <<>> => t[1].nth = 1 /\ Closes(t[Len(t)], keys)
  <2>1. ASSUME t # <<>> PROVE 1 \in 1 .. Len(t) /\ Len(t) \in 1 .. Len(t) /\ s # <<>> /\ m # Len(s)
    BY <2>1, <1>1, SMTT(30) DEF Whole
  <2> HIDE DEF t
  <2>2. ASSUME t # <<>> PROVE t[1] = s[m + 1] /\ t[Len(t)] = s[Len(s)]
    <3>1. m + Len(t) = Len(s)
      BY <1>1 DEF Whole
    <3> QED BY <3>1, <2>1, <2>2, <1>1
  <2> QED BY <2>1, <2>2 DEF Whole
<1> QED BY <1>1, <1>3, <1>4, <1>5, <1>6 DEF Whole

LEMMA WholeStart ==
  ASSUME NEW keys, NEW s, Whole(s, keys), NEW m \in 0 .. Len(s),
         m = 0 \/ Closes(s[m], keys)
  PROVE  Whole(SubSeq(s, 1, m), keys)
<1> DEFINE t == SubSeq(s, 1, m)
<1>1. t \in Seq(Item) /\ Len(t) = m /\ \A i \in 1 .. Len(t) : t[i] = s[i]
  BY DEF Whole
<1> QED BY <1>1 DEF Whole

\* The bytes of a new key behind the others.
BytesOf(k, n) == [i \in DOMAIN Bytes(k) |-> [key |-> n, nth |-> i, byte |-> Bytes(k)[i]]]

LEMMA BytesOfType ==
  ASSUME NEW k \in AllKeys, NEW n \in Nat
  PROVE  LET b == BytesOf(k, n) IN
           /\ b \in Seq(Item) /\ Len(b) = Len(Bytes(k))
           /\ \A i \in 1 .. Len(b) : b[i].key = n /\ b[i].nth = i /\ b[i].byte = Bytes(k)[i]
<1> DEFINE m == Len(Bytes(k))
           e(i) == [key |-> n, nth |-> i, byte |-> Bytes(k)[i]]
           b == [i \in 1 .. m |-> e(i)]
<1>1. m \in Nat /\ DOMAIN Bytes(k) = 1 .. m /\ \A i \in 1 .. m : Bytes(k)[i] \in Byte
  BY BytesType
<1>2. BytesOf(k, n) = b
  BY <1>1 DEF BytesOf
<1>3. \A i \in 1 .. m : e(i) \in Item
  BY <1>1 DEF Item
<1>4. b \in Seq(Item) /\ Len(b) = m
  <2> HIDE DEF e, m
  <2> QED BY <1>1, <1>3
<1> QED BY <1>2, <1>4

LEMMA WholeMore ==
  ASSUME NEW keys \in Seq(AllKeys), NEW k \in AllKeys, NEW s, Whole(s, keys),
         s # <<>> => s[Len(s)].key = Len(keys)
  PROVE  LET more == Append(keys, k)
             t    == s \o BytesOf(k, Len(more))
         IN  Whole(t, more) /\ t # <<>> /\ t[Len(t)].key = Len(more)
<1> DEFINE more == Append(keys, k)
           b    == BytesOf(k, Len(more))
           t    == s \o b
<1>1. more \in Seq(AllKeys) /\ Len(more) = Len(keys) + 1 /\ more[Len(more)] = k
      /\ \A i \in 1 .. Len(keys) : more[i] = keys[i]
  OBVIOUS
<1>2. Bytes(k) \in Seq(Byte) /\ Len(Bytes(k)) \in 1 .. 6
  BY BytesType
<1>3. b \in Seq(Item) /\ Len(b) = Len(Bytes(k))
      /\ \A i \in 1 .. Len(b) : b[i].key = Len(more) /\ b[i].nth = i /\ b[i].byte = Bytes(k)[i]
  <2>1. Len(more) \in Nat
    BY <1>1
  <2> HIDE DEF more
  <2> QED BY <2>1, BytesOfType
<1> HIDE DEF b, more
<1>4. s \in Seq(Item) /\ t \in Seq(Item) /\ Len(t) = Len(s) + Len(b)
      /\ (\A i \in 1 .. Len(s) : t[i] = s[i]) /\ \A i \in 1 .. Len(b) : t[Len(s) + i] = b[i]
  <2>1. s \in Seq(Item) /\ b \in Seq(Item)
    BY <1>3 DEF Whole
  <2> QED BY <2>1, Joined
<1>5. \A i \in 1 .. Len(s) : s[i].key \in 1 .. Len(keys) /\ more[s[i].key] = keys[s[i].key]
  BY <1>1 DEF Whole, Belongs
<1> HIDE DEF t
<1>6. \A i \in 1 .. Len(t) : i > Len(s) => i - Len(s) \in 1 .. Len(b) /\ t[i] = b[i - Len(s)]
  BY <1>3, <1>4
<1>7. \A i \in 1 .. Len(t) : Belongs(t[i], more)
  <2> TAKE i \in 1 .. Len(t)
  <2>1. CASE i <= Len(s)
    <3>1. i \in 1 .. Len(s)
      BY <2>1, <1>4
    <3>2. t[i] = s[i] /\ Belongs(s[i], keys) /\ s[i].key \in DOMAIN more
          /\ more[s[i].key] = keys[s[i].key]
      BY <3>1, <1>1, <1>4, <1>5 DEF Whole
    <3> QED BY <3>2 DEF Belongs
  <2>2. CASE i > Len(s)
    <3>1. PICK j \in 1 .. Len(b) : t[i] = b[j]
      BY <2>2, <1>6
    <3>2. t[i].key = Len(more) /\ t[i].nth = j /\ t[i].byte = Bytes(k)[j] /\ j \in 1 .. Len(Bytes(k))
      BY <3>1, <1>3
    <3>3. Len(more) \in DOMAIN more /\ more[Len(more)] = k
      BY <1>1
    <3> QED BY <3>2, <3>3 DEF Belongs
  <2> QED BY <2>1, <2>2, <1>4
<1>8. \A i \in 1 .. Len(t) - 1 : Follows(t[i], t[i + 1], more)
  <2> TAKE i \in 1 .. Len(t) - 1
  <2>1. CASE i < Len(s)
    <3>1. i \in 1 .. Len(s) - 1 /\ i \in 1 .. Len(s) /\ i + 1 \in 1 .. Len(s)
      BY <2>1, <1>4
    <3>2. t[i] = s[i] /\ t[i + 1] = s[i + 1] /\ Follows(s[i], s[i + 1], keys)
          /\ more[s[i].key] = keys[s[i].key]
      BY <3>1, <1>4, <1>5 DEF Whole
    <3> QED BY <3>2 DEF Follows, Closes
  <2>2. CASE i = Len(s)
    <3>1. s # <<>> /\ i \in 1 .. Len(s) /\ 1 \in 1 .. Len(b)
      BY <2>2, <1>2, <1>3, <1>4
    <3>2. t[i] = s[i] /\ Closes(s[i], keys) /\ s[i].key = Len(keys) /\ more[s[i].key] = keys[s[i].key]
      BY <3>1, <2>2, <1>4, <1>5 DEF Whole
    <3>3. t[i + 1] = b[1] /\ b[1].key = Len(keys) + 1 /\ b[1].nth = 1
      BY <3>1, <2>2, <1>1, <1>3, <1>4
    <3> QED BY <3>2, <3>3 DEF Follows, Closes
  <2>3. CASE i > Len(s)
    <3>1. PICK j \in 1 .. Len(b) - 1 : t[i] = b[j] /\ t[i + 1] = b[j + 1]
      <4>1. i - Len(s) \in 1 .. Len(b) - 1 /\ i \in 1 .. Len(t) /\ i + 1 \in 1 .. Len(t)
            /\ (i + 1) - Len(s) = (i - Len(s)) + 1
        BY <2>3, <1>3, <1>4
      <4> QED BY <4>1, <2>3, <1>4, <1>6
    <3>2. j \in 1 .. Len(b) /\ j + 1 \in 1 .. Len(b) /\ j # Len(Bytes(k))
      BY <1>3
    <3>3. t[i].key = Len(more) /\ t[i].nth = j /\ t[i + 1].key = Len(more) /\ t[i + 1].nth = j + 1
      BY <3>1, <3>2, <1>3
    <3> QED BY <3>2, <3>3, <1>1 DEF Follows, Closes
  <2> QED BY <2>1, <2>2, <2>3, <1>4
<1>9. \A i, j \in 1 .. Len(t) : i <= j => t[i].key <= t[j].key
  <2>1. \A i \in 1 .. Len(t) : i <= Len(s) => i \in 1 .. Len(s) /\ t[i] = s[i] /\ s[i].key \in 1 .. Len(keys)
    BY <1>4, <1>5
  <2>2. \A i \in 1 .. Len(t) : i > Len(s) => t[i].key = Len(keys) + 1
    BY <1>1, <1>3, <1>6, SMTT(30)
  <2>3. Len(s) \in Nat /\ Len(t) \in Nat /\ Len(keys) \in Nat
    BY <1>4
  <2>4. \A i, j \in 1 .. Len(s) : i <= j => s[i].key <= s[j].key
    BY DEF Whole
  <2> TAKE i, j \in 1 .. Len(t)
  <2>5. CASE j <= Len(s)
    BY <2>1, <2>3, <2>4, <2>5
  <2>6. CASE j > Len(s) /\ i <= Len(s)
    BY <2>1, <2>2, <2>3, <2>6
  <2>7. CASE i > Len(s) /\ j > Len(s)
    BY <2>2, <2>3, <2>7
  <2> QED BY <2>3, <2>5, <2>6, <2>7
<1>10. t # <<>> /\ t[1].nth = 1 /\ Closes(t[Len(t)], more) /\ t[Len(t)].key = Len(more)
  <2>1. Len(b) \in 1 .. Len(b) /\ 1 \in 1 .. Len(b) /\ Len(t) >= 1 /\ t # <<>>
    BY <1>2, <1>3, <1>4
  <2>2. t[Len(t)] = b[Len(b)] /\ b[Len(b)].key = Len(more) /\ b[Len(b)].nth = Len(Bytes(k))
    BY <2>1, <1>3, <1>4
  <2>3. t[1].nth = 1
    <3>1. CASE s = <<>>
      BY <3>1, <2>1, <1>3, <1>4
    <3>2. CASE s # <<>>
      <4>1. 1 \in 1 .. Len(s)
        BY <3>2, <1>4
      <4> QED BY <4>1, <3>2, <1>4 DEF Whole
    <3> QED BY <3>1, <3>2
  <2> QED BY <2>1, <2>2, <2>3, <1>1 DEF Closes
<1>11. Whole(t, more)
  BY <1>4, <1>7, <1>8, <1>9, <1>10 DEF Whole
<1> QED BY <1>10, <1>11 DEF t, b, more

\* Consumed bytes.
LEMMA Shifted ==
  ASSUME NEW S, NEW g \in Seq(S), NEW q \in Seq(S), NEW c \in Seq(S), q # <<>>
  PROVE  Append(g, Head(q)) \o Tail(q) \o c = g \o q \o c
<1>1. Append(g, Head(q)) \o Tail(q) = g \o q
  OBVIOUS
<1> QED BY <1>1

\* The stream before and after n of its queued bytes are read.
Less(g, q, c, n, s, t) == s = g \o q \o c /\ t = <<>> \o SubSeq(q, n + 1, Len(q)) \o c

LEMMA Dropped ==
  ASSUME NEW S, NEW g \in Seq(S), NEW q \in Seq(S), NEW c \in Seq(S), NEW n \in 0 .. Len(q),
         NEW z, NEW y, Less(g, q, c, n, z, y)
  PROVE  y = SubSeq(z, Len(g) + n + 1, Len(z))
<1> DEFINE t == SubSeq(q, n + 1, Len(q))
           s == g \o q \o c
           v == t \o c
           u == SubSeq(s, Len(g) + n + 1, Len(s))
<1>1. t \in Seq(S) /\ Len(t) = Len(q) - n /\ \A i \in 1 .. Len(t) : t[i] = q[n + i]
  OBVIOUS
<1>2. s \in Seq(S) /\ Len(s) = Len(g) + Len(q) + Len(c)
      /\ (\A i \in 1 .. Len(q) : s[Len(g) + i] = q[i])
      /\ \A i \in 1 .. Len(c) : s[Len(g) + Len(q) + i] = c[i]
  BY Concatenated
<1> HIDE DEF t, s
<1>3. <<>> \o t = t
  BY <1>1
<1>4. v \in Seq(S) /\ Len(v) = Len(t) + Len(c)
      /\ (\A i \in 1 .. Len(t) : v[i] = t[i]) /\ \A i \in 1 .. Len(c) : v[Len(t) + i] = c[i]
  <2>1. t \in Seq(S)
    BY <1>1
  <2> QED BY <2>1, Joined
<1>5. u \in Seq(S) /\ Len(u) = Len(s) - (Len(g) + n) /\ \A i \in 1 .. Len(u) : u[i] = s[Len(g) + n + i]
  BY <1>2
<1> HIDE DEF u, v
<1>6. Len(u) = Len(v)
  BY <1>1, <1>2, <1>4, <1>5
<1>7. ASSUME NEW i \in 1 .. Len(u) PROVE u[i] = v[i]
  <2>1. CASE i <= Len(t)
    <3>1. i \in 1 .. Len(t) /\ n + i \in 1 .. Len(q) /\ Len(g) + n + i = Len(g) + (n + i)
      BY <2>1, <1>1
    <3> QED BY <3>1, <1>1, <1>2, <1>4, <1>5, SMTT(30)
  <2>2. CASE i > Len(t)
    <3>1. PICK j \in 1 .. Len(c) : i = Len(t) + j
      <4>1. i - Len(t) \in 1 .. Len(c) /\ i = Len(t) + (i - Len(t))
        BY <2>2, <1>1, <1>4, <1>6
      <4> QED BY <4>1
    <3>2. Len(g) + n + i = Len(g) + Len(q) + j
      BY <3>1, <1>1
    <3> QED BY <3>1, <3>2, <1>2, <1>4, <1>5
  <2> QED BY <2>1, <2>2, <1>1
<1>8. u = v
  <2>1. u \in Seq(S) /\ v \in Seq(S)
    BY <1>4, <1>5
  <2> QED BY <2>1, <1>6, <1>7, SeqEqual
<1>9. z = s /\ y = v
  BY <1>3 DEF t, s, v, Less
<1> QED BY <1>8, <1>9 DEF u

\* The key behind a byte that closes one is the next.
LEMMA NextKey ==
  ASSUME NEW keys, NEW s, Whole(s, keys), NEW m \in 1 .. Len(s) - 1, Closes(s[m], keys)
  PROVE  s[m + 1].nth = 1 /\ s[m + 1].key = s[m].key + 1
BY DEF Whole, Follows

\* t is what s holds behind its first m elements.
IsRest(t, s, m) ==
  /\ t \in Seq(Item) /\ Len(t) = Len(s) - m
  /\ \A i \in 1 .. Len(t) : m + i \in 1 .. Len(s) /\ t[i] = s[m + i]
  /\ \A i \in 1 .. Len(s) : i > m => i - m \in 1 .. Len(t) /\ s[i] = t[i - m]

LEMMA RestOf ==
  ASSUME NEW keys, NEW s, Whole(s, keys), NEW m \in 0 .. Len(s), NEW t, t = SubSeq(s, m + 1, Len(s))
  PROVE  IsRest(t, s, m)
<1>1. s \in Seq(Item)
  BY DEF Whole
<1>2. t \in Seq(Item) /\ Len(t) = Len(s) - m /\ \A i \in 1 .. Len(t) : t[i] = s[m + i]
  BY <1>1
<1>3. \A i \in 1 .. Len(t) : m + i \in 1 .. Len(s)
  BY <1>1, <1>2
<1>4. ASSUME NEW i \in 1 .. Len(s), i > m PROVE i - m \in 1 .. Len(t) /\ s[i] = t[i - m]
  <2>1. i - m \in 1 .. Len(t) /\ m + (i - m) = i
    BY <1>1, <1>2, <1>4
  <2> QED BY <2>1, <1>2
<1> QED BY <1>2, <1>3, <1>4 DEF IsRest

LEMMA LatestRest ==
  ASSUME NEW keys, NEW s, Whole(s, keys), NEW m \in 0 .. Len(s), Latest(s, keys),
         NEW t, t = SubSeq(s, m + 1, Len(s))
  PROVE  Latest(t, keys)
<1>1. t \in Seq(Item) /\ Len(t) = Len(s) - m /\ \A i \in 1 .. Len(t) : t[i] = s[m + i]
  BY RestOf DEF IsRest
<1>2. ASSUME t # <<>> PROVE t[Len(t)].key = Len(keys)
  <2>1. s \in Seq(Item) /\ Len(s) \in Nat
    BY DEF Whole
  <2>2. Len(t) \in 1 .. Len(t) /\ m + Len(t) = Len(s) /\ s # <<>>
    BY <1>1, <1>2, <2>1
  <2> QED BY <2>2, <1>1 DEF Latest
<1> QED BY <1>2 DEF Latest

-----------------------------------------------------------------------------
(* Keys before the stream.                                                 *)

KeysAre(s) ==
  /\ \A i \in 1 .. Len(s) : s[i].key \in KeysOf(s)
  /\ \A x \in KeysOf(s) : \E i \in 1 .. Len(s) : s[i].key = x

LEMMA KeysIn ==
  ASSUME NEW S, NEW s \in Seq(S)
  PROVE  KeysAre(s)
BY DEF KeysOf, KeysAre

\* What is known of the bytes of a stream.
LEMMA WholeTypes ==
  ASSUME NEW keys \in Seq(AllKeys), NEW s, Whole(s, keys)
  PROVE  /\ s \in Seq(Item) /\ Len(s) \in Nat
         /\ \A i \in 1 .. Len(s) : /\ s[i] \in Item /\ s[i].key \in Nat /\ s[i].nth \in Nat
                                  /\ s[i].key \in 1 .. Len(keys) /\ keys[s[i].key] \in AllKeys
                                  /\ s[i].nth \in 1 .. Len(Bytes(keys[s[i].key]))
                                  /\ s[i].byte = Bytes(keys[s[i].key])[s[i].nth]
<1>1. s \in Seq(Item) /\ Len(s) \in Nat /\ \A i \in 1 .. Len(s) : s[i] \in Item
  BY DEF Whole
<1>2. \A i \in 1 .. Len(s) : s[i].key \in Nat /\ s[i].nth \in Nat
  BY <1>1 DEF Item
<1>3. \A i \in 1 .. Len(s) : s[i].key \in 1 .. Len(keys) /\ Belongs(s[i], keys)
  BY DEF Whole, Belongs
<1> QED BY <1>1, <1>2, <1>3 DEF Belongs

Deed == [key : Nat, what : What]

\* A key whose bytes are all read is done.
LEMMA DoneKey ==
  ASSUME NEW keys \in Seq(AllKeys), NEW s, Whole(s, keys), NEW d, NEW l, DoneBefore(d, l, s, keys),
         NEW m \in 1 .. Len(s), Closes(s[m], keys), NEW k, \A i \in 1 .. m : s[i].key = k,
         NEW w, w = Meaning(keys[k]), NEW t, t = SubSeq(s, m + 1, Len(s)),
         NEW e, e = Append(d, Did(k, w))
  PROVE  DoneBefore(e, l, t, keys)
<1>1. /\ t \in Seq(Item) /\ Len(t) = Len(s) - m
      /\ \A i \in 1 .. Len(t) : m + i \in 1 .. Len(s) /\ t[i] = s[m + i]
      /\ \A i \in 1 .. Len(s) : i > m => i - m \in 1 .. Len(t) /\ s[i] = t[i - m]
  <2>1. m \in 0 .. Len(s)
    BY WholeTypes
  <2>2. IsRest(t, s, m)
    BY <2>1, RestOf
  <2> QED BY <2>2 DEF IsRest
<1>2. s[m].key = k /\ k \in DOMAIN keys /\ k \in Nat /\ keys[k] \in AllKeys
  BY WholeTypes, SMTT(30)
<1>3. Did(k, w) \in Deed /\ Did(k, w).key = k /\ Did(k, w).what = w
  BY <1>2 DEF Meaning, What, Did, Deed
<1>4. d \in Seq(Deed) /\ Len(d) \in Nat /\ \A i \in 1 .. Len(d) : d[i].key \in Nat
  <2>1. d \in Seq(Deed)
    BY DEF DoneBefore, Deed
  <2>2. Len(d) \in Nat /\ \A i \in 1 .. Len(d) : d[i] \in Deed
    BY <2>1
  <2> QED BY <2>1, <2>2 DEF Deed
<1>k. KeysAre(s) /\ KeysAre(t) /\ KeysAre(d) /\ KeysAre(e)
  <2>1. s \in Seq(Item)
    BY WholeTypes
  <2>2. e \in Seq(Deed)
    BY <1>3, <1>4
  <2> QED BY <1>1, <1>4, <2>1, <2>2, KeysIn
<1>5. e \in Seq(Deed) /\ Len(e) = Len(d) + 1 /\ e[Len(d) + 1].key = k /\ e[Len(d) + 1].what = w
      /\ \A i \in 1 .. Len(d) : e[i] = d[i]
  <2> HIDE DEF Did
  <2> QED BY <1>3, <1>4
<1>6. \A i \in 1 .. Len(e) : i = Len(d) + 1 \/ i \in 1 .. Len(d)
  BY <1>4, <1>5
<1>7. \A i \in 1 .. Len(e) : e[i].key \in DOMAIN keys /\ e[i].what = Meaning(keys[e[i].key])
  BY <1>2, <1>5, <1>6 DEF DoneBefore
<1>8. \A i \in 1 .. Len(d) : d[i].key < k
  <2>1. 1 \in 1 .. m /\ 1 \in 1 .. Len(s) /\ s[1].key = k
    BY WholeTypes
  <2> QED BY <2>1 DEF DoneBefore
<1>9. \A j \in 1 .. Len(t) : k < t[j].key
  <2> TAKE j \in 1 .. Len(t)
  <2>1. m + 1 \in 1 .. Len(s) /\ m + j \in 1 .. Len(s) /\ m + 1 <= m + j /\ m \in 1 .. Len(s) - 1
    <3>1. Len(s) \in Nat /\ Len(t) = Len(s) - m
      BY <1>1, WholeTypes
    <3> QED BY <3>1, SMTT(30)
  <2>2. s[m + 1].key = k + 1
    BY <2>1, <1>2, NextKey, ZenonT(30)
  <2>3. s[m + 1].key <= s[m + j].key
    BY <2>1 DEF Whole
  <2>4. t[j].key = s[m + j].key
    BY <2>1, <1>1
  <2>5. t[j].key \in Nat
    <3>1. s[m + j].key \in Nat
      BY <2>1, WholeTypes, ZenonT(30)
    <3> QED BY <3>1, <2>4, ZenonT(30)
  <2>6. k + 1 <= t[j].key
    BY <2>2, <2>3, <2>4
  <2> DEFINE x == t[j].key
  <2>7. x \in Nat /\ k \in Nat /\ k + 1 <= x
    BY <2>5, <2>6, <1>2, ZenonT(30)
  <2> HIDE DEF x
  <2>8. k < x
    BY <2>7, SMTT(30)
  <2> QED BY <2>8 DEF x
<1>10. \A i, j \in 1 .. Len(e) : i < j => e[i].key < e[j].key
  <2> TAKE i, j \in 1 .. Len(e)
  <2>1. CASE j \in 1 .. Len(d)
    <3>1. i < j => i \in 1 .. Len(d)
      BY <2>1, <1>4, <1>6
    <3> QED BY <3>1, <2>1, <1>5 DEF DoneBefore
  <2>2. CASE j = Len(d) + 1
    <3>1. i < j => i \in 1 .. Len(d)
      BY <2>2, <1>4, <1>6
    <3> QED BY <3>1, <2>2, <1>5, <1>8
  <2> QED BY <2>1, <2>2, <1>6
<1>11. \A i \in 1 .. Len(e), j \in 1 .. Len(t) : e[i].key < t[j].key
  <2> TAKE i \in 1 .. Len(e), j \in 1 .. Len(t)
  <2>1. CASE i \in 1 .. Len(d)
    <3>1. e[i].key = d[i].key /\ m + j \in 1 .. Len(s) /\ t[j] = s[m + j]
      BY <2>1, <1>1, <1>5
    <3> QED BY <3>1, <2>1 DEF DoneBefore
  <2>2. CASE i = Len(d) + 1
    BY <2>2, <1>5, <1>9
  <2> QED BY <2>1, <2>2, <1>6
<1>12. DOMAIN keys = l \cup KeysOf(t) \cup KeysOf(e)
  <2>1. ASSUME NEW x \in KeysOf(s) PROVE x \in KeysOf(t) \cup KeysOf(e)
    <3>1. PICK i \in 1 .. Len(s) : s[i].key = x
      BY <1>k DEF KeysAre
    <3>2. CASE i > m
      <4>1. i - m \in 1 .. Len(t) /\ t[i - m].key = x
        BY <3>1, <3>2, <1>1
      <4> QED BY <4>1, <1>k DEF KeysAre
    <3>3. CASE i <= m
      <4>1. x = k /\ Len(d) + 1 \in 1 .. Len(e)
        BY <3>1, <3>3, <1>4, <1>5
      <4>2. e[Len(d) + 1].key = x
        BY <4>1, <1>5
      <4>3. KeysAre(e)
        BY <1>k
      <4>4. e[Len(d) + 1].key \in KeysOf(e)
        BY <4>1, <4>3 DEF KeysAre
      <4> QED BY <4>2, <4>4
    <3> QED BY <3>2, <3>3, WholeTypes
  <2>2. ASSUME NEW x \in KeysOf(d) PROVE x \in KeysOf(e)
    <3>1. PICK i \in 1 .. Len(d) : d[i].key = x
      BY <1>k DEF KeysAre
    <3>2. i \in 1 .. Len(e) /\ e[i].key = x
      BY <3>1, <1>4, <1>5
    <3> QED BY <3>2, <1>k DEF KeysAre
  <2>3. ASSUME NEW x \in KeysOf(t) \cup KeysOf(e) PROVE x \in DOMAIN keys
    <3>1. CASE x \in KeysOf(t)
      <4>1. PICK i \in 1 .. Len(t) : t[i].key = x
        BY <3>1, <1>k DEF KeysAre
      <4> QED BY <4>1, <1>1, WholeTypes, SMTT(30)
    <3>2. CASE x \in KeysOf(e)
      <4>1. PICK i \in 1 .. Len(e) : e[i].key = x
        BY <3>2, <1>k DEF KeysAre
      <4> QED BY <4>1, <1>7
    <3> QED BY <2>3, <3>1, <3>2
  <2>4. DOMAIN keys = l \cup KeysOf(s) \cup KeysOf(d)
    BY DEF DoneBefore
  <2> QED BY <2>1, <2>2, <2>3, <2>4
<1> QED BY <1>5, <1>7, <1>10, <1>11, <1>12 DEF DoneBefore, Deed

\* Keys at the start of the stream, or at its end, are dropped.
LEMMA DoneDrop ==
  ASSUME NEW keys \in Seq(AllKeys), NEW s, Whole(s, keys), NEW d, NEW l, DoneBefore(d, l, s, keys),
         NEW m \in 0 .. Len(s), NEW drop, \A i \in 1 .. m : s[i].key \in drop,
         drop \subseteq KeysOf(s), NEW t, t = SubSeq(s, m + 1, Len(s))
  PROVE  DoneBefore(d, l \cup drop, t, keys)
<1>1. /\ t \in Seq(Item) /\ Len(t) = Len(s) - m
      /\ \A i \in 1 .. Len(t) : m + i \in 1 .. Len(s) /\ t[i] = s[m + i]
      /\ \A i \in 1 .. Len(s) : i > m => i - m \in 1 .. Len(t) /\ s[i] = t[i - m]
  <2>1. IsRest(t, s, m)
    BY RestOf
  <2> QED BY <2>1 DEF IsRest
<1>k. KeysAre(s) /\ KeysAre(t)
  <2>1. s \in Seq(Item)
    BY WholeTypes
  <2> QED BY <1>1, <2>1, KeysIn
<1>2. ASSUME NEW x \in KeysOf(s) PROVE x \in drop \cup KeysOf(t)
  <2>1. PICK i \in 1 .. Len(s) : s[i].key = x
    BY <1>k DEF KeysAre
  <2>2. CASE i > m
    <3>1. i - m \in 1 .. Len(t) /\ t[i - m].key = x
      BY <2>1, <2>2, <1>1
    <3> QED BY <3>1, <1>k DEF KeysAre
  <2>3. CASE i <= m
    BY <2>1, <2>3
  <2> QED BY <2>2, <2>3, WholeTypes
<1>3. ASSUME NEW x \in KeysOf(t) PROVE x \in KeysOf(s)
  <2>1. PICK i \in 1 .. Len(t) : t[i].key = x
    BY <1>k DEF KeysAre
  <2> QED BY <2>1, <1>1, <1>k, SMTT(30) DEF KeysAre
<1>4. \A i \in 1 .. Len(d), j \in 1 .. Len(t) : d[i].key < t[j].key
  BY <1>1 DEF DoneBefore
<1>5. DOMAIN keys = (l \cup drop) \cup KeysOf(t) \cup KeysOf(d)
  BY <1>2, <1>3 DEF DoneBefore
<1> QED BY <1>4, <1>5 DEF DoneBefore

LEMMA DoneCut ==
  ASSUME NEW keys \in Seq(AllKeys), NEW s, Whole(s, keys), NEW d, NEW l, DoneBefore(d, l, s, keys),
         NEW m \in 0 .. Len(s), NEW drop, \A i \in 1 .. Len(s) : i > m => s[i].key \in drop,
         drop \subseteq KeysOf(s), NEW t, t = SubSeq(s, 1, m)
  PROVE  DoneBefore(d, l \cup drop, t, keys)
<1>1. t \in Seq(Item) /\ Len(t) = m /\ \A i \in 1 .. m : t[i] = s[i] /\ i \in 1 .. Len(s)
  BY WholeTypes
<1>k. KeysAre(s) /\ KeysAre(t)
  <2>1. s \in Seq(Item)
    BY WholeTypes
  <2> QED BY <1>1, <2>1, KeysIn
<1>2. ASSUME NEW x \in KeysOf(s) PROVE x \in drop \cup KeysOf(t)
  <2>1. PICK i \in 1 .. Len(s) : s[i].key = x
    BY <1>k DEF KeysAre
  <2>2. CASE i > m
    BY <2>1, <2>2
  <2>3. CASE i <= m
    <3>1. i \in 1 .. Len(t) /\ t[i].key = x
      BY <2>1, <2>3, <1>1
    <3> QED BY <3>1, <1>k DEF KeysAre
  <2> QED BY <2>2, <2>3, WholeTypes
<1>3. ASSUME NEW x \in KeysOf(t) PROVE x \in KeysOf(s)
  <2>1. PICK i \in 1 .. Len(t) : t[i].key = x
    BY <1>k DEF KeysAre
  <2> QED BY <2>1, <1>1, <1>k DEF KeysAre
<1>4. \A i \in 1 .. Len(d), j \in 1 .. Len(t) : d[i].key < t[j].key
  BY <1>1 DEF DoneBefore
<1>5. DOMAIN keys = (l \cup drop) \cup KeysOf(t) \cup KeysOf(d)
  BY <1>2, <1>3 DEF DoneBefore
<1> QED BY <1>4, <1>5 DEF DoneBefore

\* A key comes behind the others.
LEMMA DoneMore ==
  ASSUME NEW keys \in Seq(AllKeys), NEW k \in AllKeys, NEW s, Whole(s, keys),
         NEW d, NEW l, DoneBefore(d, l, s, keys),
         NEW more, more = Append(keys, k), NEW b, b = BytesOf(k, Len(more)), NEW t, t = s \o b
  PROVE  DoneBefore(d, l, t, more)
<1> DEFINE n == Len(keys) + 1
<1>1. more \in Seq(AllKeys) /\ Len(more) = n /\ DOMAIN more = 1 .. n /\ DOMAIN keys = 1 .. Len(keys)
      /\ n \in Nat /\ \A i \in 1 .. Len(keys) : more[i] = keys[i] /\ i \in 1 .. n
  OBVIOUS
<1> HIDE DEF n
<1>2. b \in Seq(Item) /\ Len(b) = Len(Bytes(k)) /\ \A i \in 1 .. Len(b) : b[i].key = n
  BY <1>1, BytesOfType
<1>3. Len(b) \in Nat /\ Len(b) >= 1
  <2>1. Len(Bytes(k)) \in 1 .. 6
    BY BytesType
  <2> QED BY <2>1, <1>2
<1>4. s \in Seq(Item) /\ Len(s) \in Nat
  BY WholeTypes
<1>5. t \in Seq(Item) /\ Len(t) = Len(s) + Len(b)
      /\ (\A i \in 1 .. Len(s) : t[i] = s[i]) /\ \A i \in 1 .. Len(b) : t[Len(s) + i] = b[i]
  <2>1. s \in Seq(Item) /\ b \in Seq(Item)
    BY <1>2, <1>4
  <2> QED BY <2>1, Joined
<1>k. KeysAre(s) /\ KeysAre(t)
  BY <1>4, <1>5, KeysIn
<1>6. ASSUME NEW i \in 1 .. Len(t) PROVE (i \in 1 .. Len(s) /\ t[i] = s[i]) \/ t[i].key = n
  <2>1. CASE i <= Len(s)
    BY <2>1, <1>4, <1>5
  <2>2. CASE i > Len(s)
    <3>1. i - Len(s) \in 1 .. Len(b) /\ i = Len(s) + (i - Len(s))
      BY <2>2, <1>3, <1>4, <1>5
    <3> QED BY <3>1, <1>2, <1>5
  <2> QED BY <2>1, <2>2, <1>4, <1>5
<1>7. \A i \in 1 .. Len(d) : d[i].key \in 1 .. Len(keys) /\ d[i].key < n /\ more[d[i].key] = keys[d[i].key]
  <2>1. \A i \in 1 .. Len(d) : d[i].key \in 1 .. Len(keys)
    BY <1>1 DEF DoneBefore
  <2>2. \A i \in 1 .. Len(keys) : i < n
    BY DEF n
  <2> QED BY <2>1, <2>2, <1>1
<1>8. ASSUME NEW x \in KeysOf(s) \cup {n} PROVE x \in KeysOf(t)
  <2>1. PICK i \in 1 .. Len(t) : t[i].key = x
    <3>1. CASE x \in KeysOf(s)
      <4>1. PICK i \in 1 .. Len(s) : s[i].key = x
        BY <3>1, <1>k DEF KeysAre
      <4>2. i \in 1 .. Len(t) /\ t[i].key = x
        BY <4>1, <1>3, <1>4, <1>5
      <4> QED BY <4>2
    <3>2. CASE x = n
      <4>1. Len(s) + 1 \in 1 .. Len(t) /\ 1 \in 1 .. Len(b)
        BY <1>3, <1>4, <1>5
      <4>2. t[Len(s) + 1].key = n
        BY <4>1, <1>2, <1>5
      <4> QED BY <4>1, <4>2, <3>2
    <3> QED BY <1>8, <3>1, <3>2
  <2> QED BY <2>1, <1>k DEF KeysAre
<1>9. ASSUME NEW x \in KeysOf(t) PROVE x \in KeysOf(s) \cup {n}
  <2>1. PICK i \in 1 .. Len(t) : t[i].key = x
    BY <1>k DEF KeysAre
  <2>2. CASE i \in 1 .. Len(s) /\ t[i] = s[i]
    BY <2>1, <2>2, <1>k DEF KeysAre
  <2> QED BY <2>1, <2>2, <1>6
<1>10. DOMAIN more = l \cup KeysOf(t) \cup KeysOf(d)
  <2>1. 1 .. n = (1 .. Len(keys)) \cup {n}
    BY <1>1 DEF n
  <2> QED BY <2>1, <1>1, <1>8, <1>9 DEF DoneBefore
<1>11. \A i \in 1 .. Len(d), j \in 1 .. Len(t) : d[i].key < t[j].key
  BY <1>6, <1>7 DEF DoneBefore
<1>12. \A i \in 1 .. Len(d) : d[i].key \in DOMAIN more /\ d[i].what = Meaning(more[d[i].key])
  BY <1>1, <1>7 DEF DoneBefore
<1> QED BY <1>10, <1>11, <1>12 DEF DoneBefore

-----------------------------------------------------------------------------
(* Where a key begins and ends.                                            *)

LEMMA Begins ==
  ASSUME NEW keys \in Seq(AllKeys), NEW s, Whole(s, keys), NEW i \in 1 .. Len(s)
  PROVE  \E p \in 1 .. i : s[p].nth = 1 /\ s[p].key = s[i].key
<1> DEFINE B(n) == \A j \in 1 .. Len(s) : s[j].nth = n => \E p \in 1 .. j : s[p].nth = 1 /\ s[p].key = s[j].key
<1>1. B(1)
  <2> SUFFICES ASSUME NEW j \in 1 .. Len(s), s[j].nth = 1
               PROVE  \E p \in 1 .. j : s[p].nth = 1 /\ s[p].key = s[j].key
    OBVIOUS
  <2>1. j \in 1 .. j
    OBVIOUS
  <2> QED BY <2>1
<1>2. ASSUME NEW n \in 1 .. 5, B(n) PROVE B(n + 1)
  <2> SUFFICES ASSUME NEW j \in 1 .. Len(s), s[j].nth = n + 1
               PROVE  \E p \in 1 .. j : s[p].nth = 1 /\ s[p].key = s[j].key
    OBVIOUS
  <2>1. j > 1 /\ s[j - 1].key = s[j].key /\ s[j - 1].nth = n
    <3>1. s[j].nth > 1
      OBVIOUS
    <3> QED BY <3>1, Backward
  <2>2. j - 1 \in 1 .. Len(s)
    BY <2>1, WholeTypes
  <2>3. PICK p \in 1 .. j - 1 : s[p].nth = 1 /\ s[p].key = s[j - 1].key
    BY <2>1, <2>2, <1>2
  <2> QED BY <2>1, <2>2, <2>3
<1> HIDE DEF B
<1>3. B(2) /\ B(3) /\ B(4) /\ B(5) /\ B(6)
  <2>1. B(1 + 1) /\ (B(2) => B(2 + 1)) /\ (B(3) => B(3 + 1)) /\ (B(4) => B(4 + 1)) /\ (B(5) => B(5 + 1))
    BY <1>1, <1>2
  <2>2. 1 + 1 = 2 /\ 2 + 1 = 3 /\ 3 + 1 = 4 /\ 4 + 1 = 5 /\ 5 + 1 = 6
    OBVIOUS
  <2> QED BY <2>1, <2>2
<1>4. s[i].nth \in {1, 2, 3, 4, 5, 6}
  <2>1. keys[s[i].key] \in AllKeys /\ s[i].nth \in 1 .. Len(Bytes(keys[s[i].key]))
    BY WholeTypes
  <2> DEFINE n == s[i].nth
             m == Len(Bytes(keys[s[i].key]))
  <2>2. m \in 1 .. 6 /\ n \in 1 .. m
    BY <2>1, BytesType
  <2> HIDE DEF n, m
  <2>3. n \in {1, 2, 3, 4, 5, 6}
    BY <2>2
  <2> QED BY <2>3 DEF n
<1>5. B(s[i].nth)
  BY <1>1, <1>3, <1>4
<1> QED BY <1>5 DEF B

\* The key k of n bytes begins at p.
Starts(s, keys, p, k, n) == s[p].nth = 1 /\ k = s[p].key /\ n = Len(Bytes(keys[k]))

LEMMA Run ==
  ASSUME NEW keys \in Seq(AllKeys), NEW s, Whole(s, keys), NEW p \in 1 .. Len(s),
         NEW k, NEW n, Starts(s, keys, p, k, n)
  PROVE  /\ n \in 1 .. 6 /\ p + n - 1 \in 1 .. Len(s) /\ Closes(s[p + n - 1], keys)
         /\ \A i \in 1 .. n : /\ p + i - 1 \in 1 .. Len(s)
                             /\ s[p + i - 1].key = k /\ s[p + i - 1].nth = i
                             /\ s[p + i - 1].byte = Bytes(keys[k])[i]
<1> DEFINE At(i) == p + i - 1 \in 1 .. Len(s) /\ s[p + i - 1].key = k /\ s[p + i - 1].nth = i
<1>1. keys[k] \in AllKeys /\ n \in 1 .. 6
  <2>1. keys[k] \in AllKeys
    BY WholeTypes DEF Starts
  <2> QED BY <2>1, BytesType DEF Starts
<1>2. At(1)
  <2>1. p + 1 - 1 = p
    OBVIOUS
  <2> QED BY <2>1 DEF Starts
<1>3. ASSUME NEW i \in 1 .. 5, i < n, At(i) PROVE At(i + 1)
  <2> DEFINE j == p + i - 1
  <2>1. j \in 1 .. Len(s) /\ s[j].key = k /\ s[j].nth = i /\ ~Closes(s[j], keys)
    BY <1>3 DEF Closes, Starts
  <2> HIDE DEF j
  <2>2. j < Len(s) /\ s[j + 1].key = k /\ s[j + 1].nth = i + 1
    BY <2>1, Forward
  <2>3. j + 1 = p + (i + 1) - 1 /\ j + 1 \in 1 .. Len(s)
    <3>1. Len(s) \in Nat
      BY WholeTypes
    <3> QED BY <3>1, <2>1, <2>2 DEF j
  <2> QED BY <2>2, <2>3
<1> HIDE DEF At
<1>4. /\ n >= 2 => At(2)
      /\ n >= 3 => At(3)
      /\ n >= 4 => At(4)
      /\ n >= 5 => At(5)
      /\ n >= 6 => At(6)
  <2>1. /\ n >= 2 => At(1 + 1)
        /\ n >= 3 /\ At(2) => At(2 + 1)
        /\ n >= 4 /\ At(3) => At(3 + 1)
        /\ n >= 5 /\ At(4) => At(4 + 1)
        /\ n >= 6 /\ At(5) => At(5 + 1)
    BY <1>1, <1>2, <1>3
  <2>2. 1 + 1 = 2 /\ 2 + 1 = 3 /\ 3 + 1 = 4 /\ 4 + 1 = 5 /\ 5 + 1 = 6
    OBVIOUS
  <2> QED BY <2>1, <2>2, <1>1
<1>5. \A i \in 1 .. n : At(i)
  <2> TAKE i \in 1 .. n
  <2>1. \A m \in 1 .. 6 : \A j \in 1 .. m : j \in {1, 2, 3, 4, 5, 6} /\ j <= m
    OBVIOUS
  <2>2. i \in {1, 2, 3, 4, 5, 6} /\ i <= n
    BY <2>1, <1>1
  <2> QED BY <2>2, <1>1, <1>2, <1>4
<1>6. ASSUME NEW i \in 1 .. n
      PROVE  p + i - 1 \in 1 .. Len(s) /\ s[p + i - 1].key = k /\ s[p + i - 1].nth = i
             /\ s[p + i - 1].byte = Bytes(keys[k])[i]
  <2>1. p + i - 1 \in 1 .. Len(s) /\ s[p + i - 1].key = k /\ s[p + i - 1].nth = i
    BY <1>5 DEF At
  <2> DEFINE j == p + i - 1
  <2> HIDE DEF j
  <2>2. j \in 1 .. Len(s) /\ s[j].key = k /\ s[j].nth = i
    BY <2>1 DEF j
  <2>3. s[j].byte = Bytes(keys[s[j].key])[s[j].nth]
    BY <2>2, WholeTypes
  <2> QED BY <2>2, <2>3 DEF j
<1>7. n \in 1 .. n
  <2>1. \A m \in 1 .. 6 : m \in 1 .. m
    OBVIOUS
  <2> QED BY <2>1, <1>1
<1> QED BY <1>1, <1>6, <1>7 DEF Closes, Starts

\* What the bytes tell.
LEMMA Tuple1 == ASSUME NEW b, NEW x1, b = <<x1>> PROVE Len(b) = 1 /\ b[1] = x1
OBVIOUS
LEMMA Tuple2 == ASSUME NEW b, NEW x1, NEW x2, b = <<x1, x2>> PROVE Len(b) = 2 /\ b[1] = x1 /\ b[2] = x2
OBVIOUS
LEMMA Tuple3 ==
  ASSUME NEW b, NEW x1, NEW x2, NEW x3, b = <<x1, x2, x3>>
  PROVE  Len(b) = 3 /\ b[1] = x1 /\ b[2] = x2 /\ b[3] = x3
OBVIOUS
LEMMA Tuple4 ==
  ASSUME NEW b, NEW x1, NEW x2, NEW x3, NEW x4, b = <<x1, x2, x3, x4>>
  PROVE  Len(b) = 4 /\ b[1] = x1 /\ b[2] = x2 /\ b[3] = x3 /\ b[4] = x4
OBVIOUS
LEMMA Tuple6 ==
  ASSUME NEW b, NEW x1, NEW x2, NEW x3, NEW x4, NEW x5, NEW x6, b = <<x1, x2, x3, x4, x5, x6>>
  PROVE  Len(b) = 6 /\ b[1] = x1 /\ b[2] = x2 /\ b[3] = x3 /\ b[4] = x4 /\ b[5] = x5 /\ b[6] = x6
OBVIOUS

LEMMA SimpleBytes ==
  ASSUME NEW k \in Simple
  PROVE  Len(Bytes(k)) = 1 /\ Bytes(k)[1] = k
<1>1. Bytes(k) = <<k>>
  BY BytesTable
<1> QED BY <1>1, Tuple1

LEMMA CharacterBytes ==
  /\ Len(Bytes("accent")) = 2 /\ Bytes("accent")[1] = "lead2"
  /\ Len(Bytes("wide")) = 3 /\ Bytes("wide")[1] = "lead3"
  /\ Len(Bytes("emoji")) = 4 /\ Bytes("emoji")[1] = "lead4"
<1>1. Bytes("accent") = <<"lead2", "more">> /\ Bytes("wide") = <<"lead3", "more", "more">>
      /\ Bytes("emoji") = <<"lead4", "more", "more", "more">>
  BY BytesTable
<1>2. Len(Bytes("accent")) = 2 /\ Bytes("accent")[1] = "lead2"
  BY <1>1, Tuple2
<1>3. Len(Bytes("wide")) = 3 /\ Bytes("wide")[1] = "lead3"
  BY <1>1, Tuple3
<1>4. Len(Bytes("emoji")) = 4 /\ Bytes("emoji")[1] = "lead4"
  BY <1>1, Tuple4
<1> QED BY <1>2, <1>3, <1>4

LEMMA SequenceBytes ==
  /\ Len(Bytes("left")) = 3 /\ Bytes("left")[1] = "esc" /\ Bytes("left")[2] = "[" /\ Bytes("left")[3] = "D"
  /\ Len(Bytes("home")) = 3 /\ Bytes("home")[1] = "esc" /\ Bytes("home")[2] = "O" /\ Bytes("home")[3] = "H"
  /\ Len(Bytes("delete")) = 4 /\ Bytes("delete")[1] = "esc" /\ Bytes("delete")[2] = "[" /\ Bytes("delete")[3] = "digit3"
     /\ Bytes("delete")[4] = "~"
  /\ Len(Bytes("pageup")) = 4 /\ Bytes("pageup")[1] = "esc" /\ Bytes("pageup")[2] = "[" /\ Bytes("pageup")[3] = "digit5"
     /\ Bytes("pageup")[4] = "~"
  /\ Len(Bytes("atStart")) = 6 /\ Bytes("atStart")[1] = "esc" /\ Bytes("atStart")[2] = "[" /\ Bytes("atStart")[3] = "digit5"
     /\ Bytes("atStart")[4] = ";" /\ Bytes("atStart")[5] = "column1" /\ Bytes("atStart")[6] = "R"
  /\ Len(Bytes("atMargin")) = 6 /\ Bytes("atMargin")[1] = "esc" /\ Bytes("atMargin")[2] = "[" /\ Bytes("atMargin")[3] = "digit5"
     /\ Bytes("atMargin")[4] = ";" /\ Bytes("atMargin")[5] = "column2" /\ Bytes("atMargin")[6] = "R"
<1>1. Len(Bytes("left")) = 3 /\ Bytes("left")[1] = "esc" /\ Bytes("left")[2] = "[" /\ Bytes("left")[3] = "D"
  <2>1. Bytes("left") = <<"esc", "[", "D">>
    BY BytesTable
  <2> QED BY <2>1, Tuple3
<1>2. Len(Bytes("home")) = 3 /\ Bytes("home")[1] = "esc" /\ Bytes("home")[2] = "O" /\ Bytes("home")[3] = "H"
  <2>1. Bytes("home") = <<"esc", "O", "H">>
    BY BytesTable
  <2> QED BY <2>1, Tuple3
<1>3. Len(Bytes("delete")) = 4 /\ Bytes("delete")[1] = "esc" /\ Bytes("delete")[2] = "[" /\ Bytes("delete")[3] = "digit3"
      /\ Bytes("delete")[4] = "~"
  <2>1. Bytes("delete") = <<"esc", "[", "digit3", "~">>
    BY BytesTable
  <2> QED BY <2>1, Tuple4
<1>4. Len(Bytes("pageup")) = 4 /\ Bytes("pageup")[1] = "esc" /\ Bytes("pageup")[2] = "[" /\ Bytes("pageup")[3] = "digit5"
      /\ Bytes("pageup")[4] = "~"
  <2>1. Bytes("pageup") = <<"esc", "[", "digit5", "~">>
    BY BytesTable
  <2> QED BY <2>1, Tuple4
<1>5. Len(Bytes("atStart")) = 6 /\ Bytes("atStart")[1] = "esc" /\ Bytes("atStart")[2] = "[" /\ Bytes("atStart")[3] = "digit5"
      /\ Bytes("atStart")[4] = ";" /\ Bytes("atStart")[5] = "column1" /\ Bytes("atStart")[6] = "R"
  <2> DEFINE b == Bytes("atStart")
  <2>1. b = <<"esc", "[", "digit5", ";", "column1", "R">>
    BY BytesTable
  <2> HIDE DEF b
  <2>2. Len(b) = 6 /\ b[1] = "esc" /\ b[2] = "[" /\ b[3] = "digit5" /\ b[4] = ";" /\ b[5] = "column1" /\ b[6] = "R"
    BY <2>1, Tuple6
  <2> QED BY <2>2 DEF b
<1>6. Len(Bytes("atMargin")) = 6 /\ Bytes("atMargin")[1] = "esc" /\ Bytes("atMargin")[2] = "[" /\ Bytes("atMargin")[3] = "digit5"
      /\ Bytes("atMargin")[4] = ";" /\ Bytes("atMargin")[5] = "column2" /\ Bytes("atMargin")[6] = "R"
  <2> DEFINE b == Bytes("atMargin")
  <2>1. b = <<"esc", "[", "digit5", ";", "column2", "R">>
    BY BytesTable
  <2> HIDE DEF b
  <2>2. Len(b) = 6 /\ b[1] = "esc" /\ b[2] = "[" /\ b[3] = "digit5" /\ b[4] = ";" /\ b[5] = "column2" /\ b[6] = "R"
    BY <2>1, Tuple6
  <2> QED BY <2>2 DEF b
<1> QED BY <1>1, <1>2, <1>3, <1>4, <1>5, <1>6

Sequences == {"left", "home", "delete", "pageup", "atStart", "atMargin"}

LEMMA FirstByte ==
  ASSUME NEW k \in AllKeys, NEW b, b = Bytes(k)[1]
  PROVE  /\ b \in Simple => k = b /\ Len(Bytes(k)) = 1
         /\ b \notin Simple => b \in {"lead2", "lead3", "lead4", "esc"}
         /\ b = "lead2" => k = "accent"
         /\ b = "lead3" => k = "wide"
         /\ b = "lead4" => k = "emoji"
         /\ b = "esc" => k \in Sequences
<1>1. CASE k \in Simple
  BY <1>1, SimpleBytes DEF Simple
<1>2. CASE k \in {"accent", "wide", "emoji"}
  BY <1>2, CharacterBytes DEF Simple
<1>3. CASE k \in Sequences
  BY <1>3, SequenceBytes, ZenonT(30) DEF Simple, Sequences
<1> QED BY <1>1, <1>2, <1>3 DEF AllKeys, Known, Answers, Sequences

-----------------------------------------------------------------------------
(* One step.                                                               *)

\* A key is sent behind the others.
Grown(s, keys, k, t, more) == more = Append(keys, k) /\ t = s \o BytesOf(k, Len(more))

LEMMA SendsKey ==
  ASSUME NEW keys \in Seq(AllKeys), NEW k \in AllKeys, NEW s, Whole(s, keys), Latest(s, keys),
         NEW d, NEW l, DoneBefore(d, l, s, keys), NEW more, NEW t, Grown(s, keys, k, t, more)
  PROVE  /\ more \in Seq(AllKeys) /\ Whole(t, more) /\ Latest(t, more) /\ DoneBefore(d, l, t, more)
         /\ k \notin Answers /\ NoneAnswers(s, keys) => NoneAnswers(t, more)
         /\ \A a : k \notin Answers /\ LastAnswers(s, keys, a) => LastAnswers(t, more, a)
         /\ SomeAnswers(s, keys) => SomeAnswers(t, more)
         /\ k \in Answers /\ NoneAnswers(s, keys) => LastAnswers(t, more, k) /\ SomeAnswers(t, more)
<1> DEFINE b == BytesOf(k, Len(more))
           n == Len(keys) + 1
<1>1. more \in Seq(AllKeys) /\ Len(more) = n /\ DOMAIN more = 1 .. n /\ DOMAIN keys = 1 .. Len(keys)
      /\ n \in Nat /\ more[n] = k /\ \A i \in 1 .. Len(keys) : more[i] = keys[i] /\ i \in 1 .. n
  BY DEF Grown
<1>2. Whole(t, more) /\ t # <<>> /\ t[Len(t)].key = Len(more)
  BY WholeMore DEF Latest, Grown
<1>3. DoneBefore(d, l, t, more)
  BY DoneMore DEF Grown
<1>4. s \in Seq(Item) /\ Len(s) \in Nat /\ \A i \in 1 .. Len(s) : s[i].key \in 1 .. Len(keys)
  BY WholeTypes
<1> HIDE DEF n
<1>5. b \in Seq(Item) /\ Len(b) \in Nat /\ \A i \in 1 .. Len(b) : b[i].key = n
  BY <1>1, BytesOfType
<1> HIDE DEF b
<1>6. /\ Len(t) = Len(s) + Len(b) /\ \A i \in 1 .. Len(s) : t[i] = s[i]
      /\ \A i \in 1 .. Len(b) : t[Len(s) + i] = b[i]
  <2>1. s \in Seq(Item) /\ b \in Seq(Item) /\ t = s \o b
    BY <1>4, <1>5 DEF b, Grown
  <2> QED BY <2>1, Joined
<1>7. \A i \in 1 .. Len(s) : i \in 1 .. Len(t) /\ t[i] = s[i] /\ more[t[i].key] = keys[s[i].key]
  BY <1>1, <1>4, <1>5, <1>6
<1>8. ASSUME NEW i \in 1 .. Len(t)
      PROVE  i \in 1 .. Len(s) \/ t[i].key = n
  <2>1. CASE i <= Len(s)
    BY <2>1, <1>4
  <2>2. CASE i > Len(s)
    <3>1. i - Len(s) \in 1 .. Len(b) /\ i = Len(s) + (i - Len(s))
      BY <2>2, <1>4, <1>5, <1>6
    <3> QED BY <3>1, <1>5, <1>6
  <2> QED BY <2>1, <2>2, <1>4
<1>9. ASSUME k \notin Answers, NoneAnswers(s, keys) PROVE NoneAnswers(t, more)
  <2> SUFFICES ASSUME NEW i \in 1 .. Len(t) PROVE more[t[i].key] \notin Answers
    BY DEF NoneAnswers
  <2>1. CASE i \in 1 .. Len(s)
    BY <2>1, <1>7, <1>9 DEF NoneAnswers
  <2>2. CASE t[i].key = n
    BY <2>2, <1>1, <1>9
  <2> QED BY <2>1, <2>2, <1>8
<1>10. ASSUME NEW a, k \notin Answers, LastAnswers(s, keys, a) PROVE LastAnswers(t, more, a)
  <2> SUFFICES ASSUME NEW i \in 1 .. Len(t), more[t[i].key] \in Answers
               PROVE  more[t[i].key] = a /\ \A j \in DOMAIN more : j > t[i].key => more[j] \notin Answers
    BY DEF LastAnswers
  <2>1. i \in 1 .. Len(s)
    BY <1>1, <1>8, <1>10
  <2>2. keys[s[i].key] \in Answers /\ more[t[i].key] = keys[s[i].key] /\ t[i] = s[i]
    BY <2>1, <1>7
  <2>3. keys[s[i].key] = a /\ \A j \in DOMAIN keys : j > s[i].key => keys[j] \notin Answers
    BY <2>1, <2>2, <1>10 DEF LastAnswers
  <2>4. \A j \in DOMAIN more : j \in DOMAIN keys \/ j = n
    BY <1>1 DEF n
  <2> QED BY <2>2, <2>3, <2>4, <1>1, <1>10
<1>11. SomeAnswers(s, keys) => SomeAnswers(t, more)
  BY <1>7 DEF SomeAnswers
<1>12. ASSUME k \in Answers, NoneAnswers(s, keys) PROVE LastAnswers(t, more, k) /\ SomeAnswers(t, more)
  <2>1. ASSUME NEW i \in 1 .. Len(t), more[t[i].key] \in Answers PROVE t[i].key = n
    BY <2>1, <1>7, <1>8, <1>12 DEF NoneAnswers
  <2>2. \A j \in DOMAIN more : ~(j > n)
    BY <1>1
  <2>3. LastAnswers(t, more, k)
    BY <2>1, <2>2, <1>1 DEF LastAnswers
  <2>4. Len(t) \in 1 .. Len(t)
    BY <1>2 DEF Whole
  <2> QED BY <2>3, <2>4, <1>1, <1>2, <1>12 DEF SomeAnswers
<1> QED BY <1>1, <1>2, <1>3, <1>9, <1>10, <1>11, <1>12 DEF Latest

LEMMA AnswersRest ==
  ASSUME NEW keys, NEW s, NEW m, NEW t, IsRest(t, s, m)
  PROVE  /\ NoneAnswers(s, keys) => NoneAnswers(t, keys)
         /\ \A a : LastAnswers(s, keys, a) => LastAnswers(t, keys, a)
<1>1. \A i \in 1 .. Len(t) : m + i \in 1 .. Len(s) /\ t[i] = s[m + i]
  BY DEF IsRest
<1>2. NoneAnswers(s, keys) => NoneAnswers(t, keys)
  BY <1>1 DEF NoneAnswers
<1>3. ASSUME NEW a, LastAnswers(s, keys, a) PROVE LastAnswers(t, keys, a)
  BY <1>1, <1>3 DEF LastAnswers
<1> QED BY <1>2, <1>3

\* Concatenation, unexpanded.
Cat(s, t) == s \o t

LEMMA CatFacts ==
  ASSUME NEW S
  PROVE  /\ \A s, t \in Seq(S) : Cat(s, t) \in Seq(S)
         /\ \A s, t, u \in Seq(S) : Cat(Cat(s, t), u) = Cat(s, Cat(t, u))
<1>1. \A s, t \in Seq(S) : Cat(s, t) \in Seq(S)
  BY DEF Cat
<1>2. \A s, t, u \in Seq(S) : Cat(Cat(s, t), u) = Cat(s, Cat(t, u))
  BY ConcatAssociative DEF Cat
<1> QED BY <1>1, <1>2

LEMMA Appended ==
  ASSUME NEW S, NEW g \in Seq(S), NEW q \in Seq(S), NEW c \in Seq(S), NEW b \in Seq(S),
         NEW s, s = g \o q \o c, NEW t, t = g \o q \o (c \o b)
  PROVE  t = s \o b
<1>1. s = Cat(Cat(g, q), c) /\ t = Cat(Cat(g, q), Cat(c, b))
  BY ZenonT(30) DEF Cat
<1>2. Cat(Cat(Cat(g, q), c), b) = Cat(Cat(g, q), Cat(c, b))
  BY CatFacts, SMTT(30)
<1> HIDE DEF Cat
<1>3. t = Cat(s, b)
  BY <1>1, <1>2, SMTT(30)
<1> QED BY <1>3, ZenonT(30) DEF Cat

LEMMA StreamTypes ==
  ASSUME Types
  PROVE  /\ Stream \in Seq(Item) /\ Len(Stream) = Len(got) + Len(queue) + Len(coming)
         /\ Len(got) \in Nat /\ Len(queue) \in Nat /\ Len(coming) \in Nat
         /\ \A i \in 1 .. Len(got) : Stream[i] = got[i]
         /\ \A i \in 1 .. Len(queue) : Stream[Len(got) + i] = queue[i]
         /\ \A i \in 1 .. Len(coming) : Stream[Len(got) + Len(queue) + i] = coming[i]
<1>1. got \in Seq(Item) /\ queue \in Seq(Item) /\ coming \in Seq(Item)
  BY DEF Types
<1>2. Len(got) \in Nat /\ Len(queue) \in Nat /\ Len(coming) \in Nat
  BY <1>1
<1>3. Stream = got \o queue \o coming
  BY DEF Stream
<1> QED BY <1>1, <1>2, <1>3, Concatenated

\* The keys that were answers, and why the width is assumed, stay when a key comes.
LEMMA TypeStep ==
  ASSUME Inv, NEW k \in Typed, Type(k)
  PROVE  Inv'
<1> DEFINE b == BytesOf(k, Len(sent'))
<1>1. k \in AllKeys /\ k \notin Answers
  <2>1. k \in Known
    BY KeysAssumption
  <2>2. Known \cap Answers = {}
    BY DEF Known, Simple, Answers
  <2> QED BY <2>1, <2>2 DEF AllKeys
<1>2. open /\ sent' = Append(sent, k) /\ coming' = coming \o b
      /\ UNCHANGED <<width, queue, got, at, open, done, lost, cut>>
  BY DEF Type, Sends, BytesOf
<1>3. sent \in Seq(AllKeys) /\ got \in Seq(Item) /\ queue \in Seq(Item) /\ coming \in Seq(Item)
  BY DEF Inv, Types
<1>4. sent' \in Seq(AllKeys) /\ Len(sent') = Len(sent) + 1 /\ Len(sent') \in Nat
  BY <1>1, <1>2, <1>3
<1>5. b \in Seq(Item)
  BY <1>1, <1>4, BytesOfType
<1>6. Stream' = Stream \o b
  <2> HIDE DEF b
  <2>1. Stream' = got \o queue \o (coming \o b)
    BY <1>2 DEF Stream
  <2>2. Stream = got \o queue \o coming
    BY DEF Stream
  <2> QED BY <2>1, <2>2, <1>3, <1>5, Appended, SMTT(30)
<1>7. Whole(Stream, sent) /\ Latest(Stream, sent) /\ DoneBefore(done, lost, Stream, sent)
  BY <1>2 DEF Inv, StreamInv, DoneInv
<1>8. /\ Whole(Stream', sent') /\ Latest(Stream', sent') /\ DoneBefore(done, lost, Stream', sent')
      /\ NoneAnswers(Stream, sent) => NoneAnswers(Stream', sent')
      /\ \A a : LastAnswers(Stream, sent, a) => LastAnswers(Stream', sent', a)
      /\ SomeAnswers(Stream, sent) => SomeAnswers(Stream', sent')
  <2> DEFINE s == Stream
             t == Stream'
             more == sent'
  <2>1. Grown(s, sent, k, t, more)
    BY <1>2, <1>6 DEF Grown
  <2>2. Whole(s, sent) /\ Latest(s, sent) /\ DoneBefore(done, lost, s, sent)
    BY <1>7
  <2> HIDE DEF s, t, more, b
  <2>3. /\ Whole(t, more) /\ Latest(t, more) /\ DoneBefore(done, lost, t, more)
        /\ NoneAnswers(s, sent) => NoneAnswers(t, more)
        /\ \A a : LastAnswers(s, sent, a) => LastAnswers(t, more, a)
        /\ SomeAnswers(s, sent) => SomeAnswers(t, more)
    BY <2>1, <2>2, <1>1, <1>3, SendsKey
  <2> QED BY <2>3 DEF s, t, more
<1>9. Types'
  <2>1. coming' \in Seq(Item)
    <3> HIDE DEF b
    <3> QED BY <1>2, <1>3, <1>5
  <2> QED BY <2>1, <1>2, <1>4 DEF Inv, Types, width
<1>10. StreamInv' /\ DoneInv'
  BY <1>2, <1>8 DEF StreamInv, DoneInv
<1>11. ReadInv' /\ AnswerInv'
  BY <1>2, <1>8 DEF Inv, ReadInv, AnswerInv, Inside, Asking, Awaited
<1>12. WidthAsked => WidthAsked'
  <2>1. \A j \in DOMAIN sent : j \in DOMAIN sent' /\ sent'[j] = sent[j]
    BY <1>2, <1>3
  <2>2. \A j \in DOMAIN sent' : j \in DOMAIN sent \/ sent'[j] = k
    BY <1>2, <1>3
  <2>3. TypedKeys \subseteq TypedKeys' /\ DOMAIN sent' \ TypedKeys' \subseteq DOMAIN sent \ TypedKeys
    BY <2>1, <2>2, <1>1 DEF TypedKeys
  <2>4. lost \subseteq DOMAIN sent
    BY <1>7 DEF DoneBefore
  <2> QED BY <2>1, <2>3, <2>4, <1>2 DEF WidthAsked, width
<1>13. SizeInv'
  BY <1>2, <1>12 DEF Inv, SizeInv, Asking, width
<1> QED BY <1>9, <1>10, <1>11, <1>13 DEF Inv

\* Whose bytes are where in the stream.
LEMMA StreamKeys ==
  ASSUME Types
  PROVE  /\ \A i \in 1 .. Len(Stream) : i <= Len(got) => Stream[i].key \in KeysOf(got)
         /\ \A i \in 1 .. Len(Stream) : Len(got) < i /\ i <= Len(got) + Len(queue) => Stream[i].key \in KeysOf(queue)
         /\ \A i \in 1 .. Len(Stream) : Len(got) + Len(queue) < i => Stream[i].key \in KeysOf(coming)
         /\ KeysOf(got) \cup KeysOf(queue) \cup KeysOf(coming) \subseteq KeysOf(Stream)
<1>0. /\ Stream \in Seq(Item) /\ Len(Stream) = Len(got) + Len(queue) + Len(coming)
      /\ Len(got) \in Nat /\ Len(queue) \in Nat /\ Len(coming) \in Nat
      /\ \A i \in 1 .. Len(got) : Stream[i] = got[i]
      /\ \A i \in 1 .. Len(queue) : Stream[Len(got) + i] = queue[i]
      /\ \A i \in 1 .. Len(coming) : Stream[Len(got) + Len(queue) + i] = coming[i]
  BY StreamTypes
<1> DEFINE g == Len(got)
           q == Len(queue)
           c == Len(coming)
<1>1. /\ Stream \in Seq(Item) /\ Len(Stream) = g + q + c /\ g \in Nat /\ q \in Nat /\ c \in Nat
      /\ \A i \in 1 .. g : Stream[i] = got[i]
      /\ \A i \in 1 .. q : Stream[g + i] = queue[i]
      /\ \A i \in 1 .. c : Stream[g + q + i] = coming[i]
  BY <1>0
<1>2. KeysAre(got) /\ KeysAre(queue) /\ KeysAre(coming)
  <2>1. got \in Seq(Item) /\ queue \in Seq(Item) /\ coming \in Seq(Item)
    BY DEF Types
  <2> QED BY <2>1, KeysIn
<1>3. KeysAre(Stream)
  BY <1>1, KeysIn
<1>4. ASSUME NEW i \in 1 .. Len(Stream), i <= g PROVE Stream[i].key \in KeysOf(got)
  <2>1. i \in 1 .. g
    BY <1>1, <1>4
  <2> QED BY <2>1, <1>1, <1>2 DEF KeysAre
<1>5. ASSUME NEW i \in 1 .. Len(Stream), g < i, i <= g + q PROVE Stream[i].key \in KeysOf(queue)
  <2>1. PICK j \in 1 .. q : i = g + j
    <3>1. i - g \in 1 .. q /\ i = g + (i - g)
      BY <1>1, <1>5
    <3> QED BY <3>1
  <2> QED BY <2>1, <1>1, <1>2 DEF KeysAre
<1>6. ASSUME NEW i \in 1 .. Len(Stream), g + q < i PROVE Stream[i].key \in KeysOf(coming)
  <2>1. PICK j \in 1 .. c : i = g + q + j
    <3>1. i - (g + q) \in 1 .. c /\ i = g + q + (i - (g + q))
      BY <1>1, <1>6
    <3> QED BY <3>1
  <2> QED BY <2>1, <1>1, <1>2 DEF KeysAre
<1>7. ASSUME NEW x \in KeysOf(got) PROVE x \in KeysOf(Stream)
  <2>1. PICK i \in 1 .. g : got[i].key = x
    BY <1>2 DEF KeysAre
  <2>2. i \in 1 .. Len(Stream) /\ Stream[i].key = x
    BY <2>1, <1>1
  <2> QED BY <2>2, <1>3 DEF KeysAre
<1>8. ASSUME NEW x \in KeysOf(queue) PROVE x \in KeysOf(Stream)
  <2>1. PICK i \in 1 .. q : queue[i].key = x
    BY <1>2 DEF KeysAre
  <2>2. g + i \in 1 .. Len(Stream) /\ Stream[g + i].key = x
    BY <2>1, <1>1
  <2> QED BY <2>2, <1>3 DEF KeysAre
<1>9. ASSUME NEW x \in KeysOf(coming) PROVE x \in KeysOf(Stream)
  <2>1. PICK i \in 1 .. c : coming[i].key = x
    BY <1>2 DEF KeysAre
  <2>2. g + q + i \in 1 .. Len(Stream) /\ Stream[g + q + i].key = x
    BY <2>1, <1>1
  <2> QED BY <2>2, <1>3 DEF KeysAre
<1> QED BY <1>4, <1>5, <1>6, <1>7, <1>8, <1>9

\* A step that leaves the stream as it is.
LEMMA Kept ==
  ASSUME StreamInv, DoneInv, AnswerInv, Stream' = Stream, UNCHANGED <<sent, open, done, lost>>,
         ~open => coming' = <<>>, Asking' = Asking, Asking => Awaited' = Awaited
  PROVE  StreamInv' /\ DoneInv' /\ AnswerInv'
BY DEF StreamInv, DoneInv, AnswerInv

LEMMA Regrouped ==
  ASSUME NEW S, NEW g \in Seq(S), NEW q \in Seq(S), NEW a \in Seq(S), NEW t \in Seq(S)
  PROVE  Cat(q, a) \in Seq(S) /\ Cat(Cat(g, Cat(q, a)), t) = Cat(Cat(g, q), Cat(a, t))
BY CatFacts

Divided(c, n, a, t) == a = SubSeq(c, 1, n) /\ t = SubSeq(c, n + 1, Len(c))

LEMMA Parted ==
  ASSUME NEW S, NEW c \in Seq(S), NEW n \in 1 .. Len(c), NEW a, NEW t, Divided(c, n, a, t)
  PROVE  a \in Seq(S) /\ t \in Seq(S) /\ Cat(a, t) = c
<1>1. a \in Seq(S) /\ t \in Seq(S) /\ a \o t = c
  <2>1. a \in Seq(S) /\ Len(a) = n /\ \A i \in 1 .. n : a[i] = c[i]
    BY DEF Divided
  <2>2. t \in Seq(S) /\ Len(t) = Len(c) - n /\ \A i \in 1 .. Len(t) : t[i] = c[n + i]
    BY DEF Divided
  <2> DEFINE u == a \o t
  <2>3. u \in Seq(S) /\ Len(u) = Len(a) + Len(t) /\ (\A i \in 1 .. Len(a) : u[i] = a[i])
        /\ \A i \in 1 .. Len(t) : u[Len(a) + i] = t[i]
    <3>1. a \in Seq(S) /\ t \in Seq(S)
      BY <2>1, <2>2
    <3> QED BY <3>1, Joined
  <2> HIDE DEF u
  <2>4. Len(u) = Len(c) /\ n \in Nat /\ Len(c) \in Nat
    BY <2>1, <2>2, <2>3
  <2>5. ASSUME NEW i \in 1 .. Len(c) PROVE u[i] = c[i]
    <3>1. CASE i <= n
      <4>1. i \in 1 .. n
        BY <3>1, <2>4
      <4> QED BY <4>1, <2>1, <2>3
    <3>2. CASE i > n
      <4>1. i - n \in 1 .. Len(t) /\ i = n + (i - n)
        BY <3>2, <2>2, <2>4
      <4>2. u[n + (i - n)] = t[i - n] /\ t[i - n] = c[n + (i - n)]
        BY <4>1, <2>1, <2>2, <2>3
      <4> QED BY <4>1, <4>2
    <3> QED BY <3>1, <3>2, <2>4
  <2>6. u = c
    BY <2>3, <2>4, <2>5
  <2> QED BY <2>1, <2>2, <2>6 DEF u
<1> QED BY <1>1 DEF Cat

LEMMA ArriveStep ==
  ASSUME Inv, NEW n \in 1 .. Len(coming), Arrive(n)
  PROVE  Inv'
<1> DEFINE a == SubSeq(coming, 1, n)
           t == SubSeq(coming, n + 1, Len(coming))
<1>1. queue' = Cat(queue, a) /\ coming' = t /\ UNCHANGED <<width, sent, got, at, open, done, lost, cut>>
  BY DEF Arrive, Cat
<1>2. sent \in Seq(AllKeys) /\ got \in Seq(Item) /\ queue \in Seq(Item) /\ coming \in Seq(Item)
  BY DEF Inv, Types
<1>3. a \in Seq(Item) /\ t \in Seq(Item) /\ Cat(a, t) = coming
  <2>1. Divided(coming, n, a, t)
    BY DEF Divided
  <2> HIDE DEF a, t
  <2> QED BY <2>1, <1>2, Parted
<1>4. open
  <2>1. coming # <<>>
    BY <1>2
  <2> QED BY <2>1 DEF Inv, StreamInv
<1> HIDE DEF a, t
<1>5. queue' \in Seq(Item) /\ Cat(Cat(got, queue'), coming') = Cat(Cat(got, queue), coming)
  BY <1>1, <1>2, <1>3, Regrouped
<1>6. Stream' = Stream
  BY <1>1, <1>5 DEF Stream, Cat
<1>7. StreamInv' /\ DoneInv' /\ AnswerInv'
  <2>1. UNCHANGED <<sent, open, done, lost>> /\ Asking' = Asking /\ Awaited' = Awaited
    BY <1>1 DEF Asking, Awaited
  <2> QED BY <2>1, <1>4, <1>6, Kept DEF Inv
<1>8. Types'
  BY <1>1, <1>2, <1>3, <1>5 DEF Inv, Types, width
<1>9. ReadInv' /\ SizeInv'
  BY <1>1 DEF Inv, ReadInv, SizeInv, WidthAsked, TypedKeys, Asking, Inside, width
<1> QED BY <1>7, <1>8, <1>9 DEF Inv

LEMMA HangUpStep ==
  ASSUME Inv, HangUp, ~cut'
  PROVE  Inv'
<1> DEFINE m == Len(got) + Len(queue)
           drop == KeysOf(coming)
<1>1. /\ open' = FALSE /\ coming' = <<>> /\ lost' = lost \cup drop
      /\ UNCHANGED <<width, sent, queue, got, at, done>>
      /\ drop \cap (KeysOf(queue) \cup KeysOf(got)) = {}
  BY DEF HangUp
<1>2. Types /\ sent \in Seq(AllKeys) /\ got \in Seq(Item) /\ queue \in Seq(Item)
  BY DEF Inv, Types
<1>3. Whole(Stream, sent) /\ DoneBefore(done, lost, Stream, sent)
  BY DEF Inv, StreamInv, DoneInv
<1>4. m \in 0 .. Len(Stream) /\ Len(got) \in Nat /\ Len(queue) \in Nat
  BY <1>2, StreamTypes
<1>5. \A i \in 1 .. Len(Stream) : i > m => Stream[i].key \in drop
  BY <1>2, StreamKeys
<1>6. \A i \in 1 .. Len(Stream) : i <= m => Stream[i].key \in KeysOf(got) \cup KeysOf(queue)
  <2> TAKE i \in 1 .. Len(Stream)
  <2>1. i <= m => i <= Len(got) \/ (Len(got) < i /\ i <= m)
    BY <1>4
  <2> QED BY <2>1, <1>2, StreamKeys
<1>7. drop \subseteq KeysOf(Stream)
  BY <1>2, StreamKeys
<1>8. Stream' = SubSeq(Stream, 1, m)
  <2>1. Stream' = got \o queue
    BY <1>1, <1>2 DEF Stream
  <2>2. Stream' \in Seq(Item) /\ Len(Stream') = m /\ (\A i \in 1 .. Len(got) : Stream'[i] = got[i])
        /\ \A i \in 1 .. Len(queue) : Stream'[Len(got) + i] = queue[i]
    BY <2>1, <1>2, Joined
  <2>3. /\ Stream \in Seq(Item)
        /\ \A i \in 1 .. Len(got) : Stream[i] = got[i]
        /\ \A i \in 1 .. Len(queue) : Stream[Len(got) + i] = queue[i]
    BY <1>2, StreamTypes
  <2>4. ASSUME NEW i \in 1 .. m PROVE Stream'[i] = Stream[i]
    <3>1. CASE i <= Len(got)
      <4>1. i \in 1 .. Len(got)
        BY <3>1, <1>4
      <4> QED BY <4>1, <2>2, <2>3
    <3>2. CASE i > Len(got)
      <4>1. PICK j \in 1 .. Len(queue) : i = Len(got) + j
        <5>1. i - Len(got) \in 1 .. Len(queue) /\ i = Len(got) + (i - Len(got))
          BY <3>2, <1>4
        <5> QED BY <5>1
      <4> QED BY <4>1, <2>2, <2>3
    <3> QED BY <3>1, <3>2, <1>4
  <2> HIDE DEF m
  <2>5. DOMAIN Stream' = 1 .. m /\ \A i \in 1 .. m : Stream'[i] = Stream[i]
    BY <2>2, <2>4
  <2> QED BY <2>2, <2>3, <2>5, <1>4
<1>9. m = 0 \/ Closes(Stream[m], sent)
  <2>1. CASE m = Len(Stream)
    <3>1. m = 0 \/ Stream # <<>>
      BY <2>1, <1>4
    <3> QED BY <3>1, <2>1, <1>3 DEF Whole
  <2>2. CASE m # 0 /\ m # Len(Stream)
    <3> HIDE DEF m
    <3>1. m \in 1 .. Len(Stream) - 1 /\ m \in 1 .. Len(Stream) /\ m + 1 \in 1 .. Len(Stream) /\ m <= m /\ m + 1 > m
      BY <2>2, <1>4
    <3>2. Stream[m].key \in KeysOf(got) \cup KeysOf(queue) /\ Stream[m + 1].key \in drop
      BY <3>1, <1>5, <1>6
    <3>3. Stream[m].key # Stream[m + 1].key
      BY <3>2, <1>1
    <3> QED BY <3>1, <3>3, <1>3, Boundary
  <2> QED BY <2>1, <2>2
<1> HIDE DEF m, drop
<1>10. Whole(Stream', sent)
  BY <1>3, <1>4, <1>8, <1>9, WholeStart
<1>11. DoneBefore(done, lost', Stream', sent)
  BY <1>1, <1>2, <1>3, <1>4, <1>5, <1>7, <1>8, DoneCut
<1>12. StreamInv' /\ DoneInv'
  BY <1>1, <1>10, <1>11 DEF StreamInv, DoneInv
<1>13. AnswerInv'
  <2>1. /\ NoneAnswers(Stream, sent) => NoneAnswers(Stream', sent)
        /\ \A a : LastAnswers(Stream, sent, a) => LastAnswers(Stream', sent, a)
    <3>1. Stream \in Seq(Item)
      BY <1>2, StreamTypes
    <3>2. \A i \in 1 .. Len(Stream') : i \in 1 .. Len(Stream) /\ Stream'[i] = Stream[i]
      BY <3>1, <1>4, <1>8
    <3> QED BY <3>2 DEF NoneAnswers, LastAnswers
  <2> QED BY <2>1, <1>1 DEF Inv, AnswerInv, Asking, Awaited
<1>14. Types' /\ ReadInv' /\ SizeInv'
  <2>1. Types'
    <3>1. coming' \in Seq(Item)
      BY <1>1
    <3> QED BY <3>1, <1>1 DEF Inv, Types, width
  <2>2. ReadInv'
    BY <1>1 DEF Inv, ReadInv, Asking, Inside
  <2>3. SizeInv'
    BY <1>1 DEF Inv, SizeInv, Asking, width
  <2> QED BY <2>1, <2>2, <2>3
<1> QED BY <1>12, <1>13, <1>14 DEF Inv

-----------------------------------------------------------------------------
(* Reading.                                                                *)

LEMMA Ahead ==
  ASSUME Types, queue # <<>>
  PROVE  /\ Head(queue) \in Item /\ Len(got) + 1 \in 1 .. Len(Stream) /\ Len(queue) >= 1
         /\ Head(queue) = Stream[Len(got) + 1] /\ Tail(queue) = SubSeq(queue, 2, Len(queue))
<1>1. queue \in Seq(Item) /\ Len(queue) \in Nat /\ Len(queue) >= 1 /\ Head(queue) = queue[1]
      /\ queue[1] \in Item /\ Tail(queue) = SubSeq(queue, 2, Len(queue))
  BY DEF Types
<1>2. Len(Stream) = Len(got) + Len(queue) + Len(coming) /\ Len(got) \in Nat /\ Len(coming) \in Nat
      /\ \A i \in 1 .. Len(queue) : Stream[Len(got) + i] = queue[i]
  BY StreamTypes
<1>3. 1 \in 1 .. Len(queue)
  BY <1>1
<1> QED BY <1>1, <1>2, <1>3

\* One more byte is read: nothing else changes.
LEMMA ReadsStep ==
  ASSUME Inv, NEW place, Reads(place), Asking' = Asking, Asking => Awaited' = Awaited
  PROVE  /\ got' \in Seq(Item) /\ Len(got') = Len(got) + 1 /\ got'[Len(got) + 1] = Head(queue)
         /\ \A i \in 1 .. Len(got) : got'[i] = got[i]
         /\ queue' \in Seq(Item) /\ StreamInv' /\ DoneInv' /\ AnswerInv'
<1>1. /\ queue # <<>> /\ queue' = Tail(queue) /\ got' = Append(got, Head(queue)) /\ at' = place
      /\ UNCHANGED <<width, sent, coming, open, done, lost, cut>>
  BY DEF Reads
<1>2. Types /\ got \in Seq(Item) /\ queue \in Seq(Item) /\ coming \in Seq(Item)
  BY DEF Inv, Types
<1>3. Head(queue) \in Item
  BY <1>1, <1>2, Ahead
<1>4. Stream' = Stream
  <2>1. Append(got, Head(queue)) \o Tail(queue) \o coming = got \o queue \o coming
    BY <1>1, <1>2, Shifted, SMTT(30)
  <2> QED BY <2>1, <1>1 DEF Stream
<1>5. StreamInv' /\ DoneInv' /\ AnswerInv'
  <2>1. UNCHANGED <<sent, open, done, lost>> /\ (~open => coming' = <<>>)
    BY <1>1 DEF Inv, StreamInv
  <2> QED BY <2>1, <1>4, Kept DEF Inv
<1> QED BY <1>1, <1>2, <1>3, <1>5

\* After n more bytes, q is queued and t is the stream.
Behind(n, q, t) == q = SubSeq(queue, n + 1, Len(queue)) /\ t = <<>> \o q \o coming

LEMMA BehindStream ==
  ASSUME Types, NEW n \in 0 .. Len(queue), NEW q, NEW t, Behind(n, q, t),
         NEW m, m = Len(got) + n
  PROVE  q \in Seq(Item) /\ m \in 0 .. Len(Stream) /\ t = SubSeq(Stream, m + 1, Len(Stream))
<1>1. got \in Seq(Item) /\ queue \in Seq(Item) /\ coming \in Seq(Item)
  BY DEF Types
<1>2. q \in Seq(Item)
  BY <1>1 DEF Behind
<1>3. m \in 0 .. Len(Stream)
  <2>1. Len(Stream) = Len(got) + Len(queue) + Len(coming)
        /\ Len(got) \in Nat /\ Len(queue) \in Nat /\ Len(coming) \in Nat
    BY StreamTypes
  <2> QED BY <2>1
<1>4. t = SubSeq(Stream, m + 1, Len(Stream))
  <2>1. Less(got, queue, coming, n, Stream, t)
    BY DEF Behind, Stream, Less
  <2>2. t = SubSeq(Stream, Len(got) + n + 1, Len(Stream))
    BY <1>1, <2>1, Dropped
  <2> QED BY <2>2
<1> QED BY <1>2, <1>3, <1>4

\* The rest of a key is read, and the key does what it is for.
LEMMA TakesKey ==
  ASSUME Types, StreamInv, DoneInv, NEW n \in 0 .. Len(queue), NEW q, NEW t, Behind(n, q, t),
         NEW m, m = Len(got) + n, m # 0, Closes(Stream[m], sent), NEW k, \A i \in 1 .. m : Stream[i].key = k,
         NEW w, w = Meaning(sent[k])
  PROVE  /\ q \in Seq(Item) /\ IsRest(t, Stream, m) /\ Whole(t, sent) /\ (open => Latest(t, sent))
         /\ DoneBefore(Append(done, Did(k, w)), lost, t, sent)
<1> DEFINE s == Stream
<1>1. q \in Seq(Item) /\ m \in 0 .. Len(s) /\ t = SubSeq(s, m + 1, Len(s))
  BY BehindStream
<1>2. Whole(s, sent) /\ (open => Latest(s, sent)) /\ DoneBefore(done, lost, s, sent) /\ sent \in Seq(AllKeys)
  BY DEF StreamInv, DoneInv, Types
<1>3. Closes(s[m], sent) /\ \A i \in 1 .. m : s[i].key = k
  OBVIOUS
<1> HIDE DEF s
<1>4. m \in 1 .. Len(s)
  BY <1>1
<1>5. IsRest(t, s, m)
  BY <1>1, <1>2, RestOf
<1>6. m = Len(s) \/ s[m + 1].nth = 1
  <2>1. CASE m # Len(s)
    <3>1. m \in 1 .. Len(s) - 1
      BY <2>1, <1>4
    <3> QED BY <3>1, <1>2, <1>3, NextKey
  <2> QED BY <2>1
<1>7. Whole(t, sent)
  BY <1>1, <1>2, <1>6, WholeRest
<1>8. open => Latest(t, sent)
  BY <1>1, <1>2, LatestRest
<1>9. DoneBefore(Append(done, Did(k, w)), lost, t, sent)
  BY <1>1, <1>2, <1>3, <1>4, DoneKey
<1> QED BY <1>1, <1>5, <1>7, <1>8, <1>9 DEF s

LEMMA EndsStep ==
  ASSUME Inv, NEW what, NEW place \in {"first", "given"}, Ends(what, place), ~Asking, at # "given",
         Closes(Stream[Len(got) + 1], sent), NEW k, \A i \in 1 .. Len(got) + 1 : Stream[i].key = k,
         what = Meaning(sent[k])
  PROVE  Inv'
<1>1. /\ queue # <<>> /\ queue' = Tail(queue) /\ done' = Append(done, Did(Head(queue).key, what))
      /\ got' = <<>> /\ at' = place /\ UNCHANGED <<width, sent, coming, open, lost, cut>>
  BY DEF Ends, Does, Did
<1>2. Types /\ StreamInv /\ DoneInv
  BY DEF Inv
<1>3. Len(queue) >= 1 /\ Head(queue) = Stream[Len(got) + 1] /\ Tail(queue) = SubSeq(queue, 2, Len(queue))
  BY <1>1, <1>2, Ahead
<1>4. Len(got) \in Nat /\ Len(queue) \in Nat
  BY <1>2, StreamTypes
<1>5. 1 \in 0 .. Len(queue) /\ Len(got) + 1 # 0 /\ Head(queue).key = k
  <2>1. Len(got) + 1 \in 1 .. Len(got) + 1
    BY <1>4
  <2> QED BY <2>1, <1>3, <1>4
<1>6. Behind(1, queue', Stream')
  BY <1>1, <1>3 DEF Behind, Stream
<1>7. /\ queue' \in Seq(Item) /\ IsRest(Stream', Stream, Len(got) + 1) /\ Whole(Stream', sent)
      /\ open => Latest(Stream', sent)
      /\ DoneBefore(Append(done, Did(k, what)), lost, Stream', sent)
  <2> DEFINE q == queue'
             t == Stream'
             m == Len(got) + 1
  <2>1. Behind(1, q, t) /\ m = Len(got) + 1 /\ m # 0 /\ Closes(Stream[m], sent)
        /\ \A i \in 1 .. m : Stream[i].key = k
    BY <1>5, <1>6
  <2> HIDE DEF q, t, m
  <2>2. q \in Seq(Item) /\ IsRest(t, Stream, m) /\ Whole(t, sent) /\ (open => Latest(t, sent))
        /\ DoneBefore(Append(done, Did(k, what)), lost, t, sent)
    BY <2>1, <1>2, <1>5, TakesKey
  <2> QED BY <2>2 DEF q, t, m
<1>8. StreamInv' /\ DoneInv'
  BY <1>1, <1>2, <1>5, <1>7 DEF StreamInv, DoneInv
<1>9. AnswerInv' /\ ~Asking'
  BY <1>1, <1>7, AnswersRest DEF Inv, AnswerInv, Asking
<1>10. Types' /\ ReadInv'
  <2>1. got' \in Seq(Item)
    BY <1>1
  <2> QED BY <2>1, <1>1, <1>7 DEF Inv, Types, ReadInv, Asking, Inside, width
<1>11. SizeInv'
  BY <1>1, <1>9 DEF Inv, SizeInv, WidthAsked, TypedKeys, Asking, width
<1> QED BY <1>8, <1>9, <1>10, <1>11 DEF Inv

LEMMA ReadsOn ==
  ASSUME Inv, NEW place \in {"rest", "second", "third", "fourth"}, Reads(place),
         at \in {"first", "second", "third"}, ReadInv'
  PROVE  Inv'
<1>1. at' = place /\ UNCHANGED <<width, sent, coming, open, done, lost, cut>>
  BY DEF Reads
<1>2. Asking = FALSE /\ Asking' = FALSE
  BY <1>1 DEF Asking
<1>3. got' \in Seq(Item) /\ queue' \in Seq(Item) /\ StreamInv' /\ DoneInv' /\ AnswerInv'
  BY <1>2, ReadsStep
<1>4. Types'
  BY <1>1, <1>3 DEF Inv, Types, width
<1>5. SizeInv'
  BY <1>1, <1>2 DEF Inv, SizeInv, WidthAsked, TypedKeys, Asking, width
<1> QED BY <1>3, <1>4, <1>5 DEF Inv

\* The bytes of the present key.
FirstKey(k, n) == k = Stream[1].key /\ n = Len(Bytes(sent[k]))

LEMMA Present ==
  ASSUME Types, StreamInv, Stream # <<>>, NEW k, NEW n, FirstKey(k, n)
  PROVE  /\ sent[k] \in AllKeys /\ n \in 1 .. 6 /\ n \in 1 .. Len(Stream) /\ Closes(Stream[n], sent)
         /\ \A i \in 1 .. n : Stream[i].key = k /\ Stream[i].nth = i /\ Stream[i].byte = Bytes(sent[k])[i]
<1> DEFINE s == Stream
<1>1. sent \in Seq(AllKeys) /\ Whole(s, sent) /\ s \in Seq(Item) /\ k = s[1].key
  BY StreamTypes DEF Types, StreamInv, FirstKey
<1>2. s # <<>>
  OBVIOUS
<1> HIDE DEF s
<1>3. 1 \in 1 .. Len(s) /\ s[1].nth = 1 /\ Len(s) \in Nat
  BY <1>1, <1>2 DEF Whole
<1>4. sent[k] \in AllKeys
  BY <1>1, <1>3, WholeTypes
<1> DEFINE p == 1
<1>p. p \in 1 .. Len(s) /\ Starts(s, sent, p, k, n)
  BY <1>1, <1>3 DEF Starts, FirstKey, s
<1> HIDE DEF p
<1>5. /\ n \in 1 .. 6 /\ p + n - 1 \in 1 .. Len(s) /\ Closes(s[p + n - 1], sent)
      /\ \A i \in 1 .. n : s[p + i - 1].key = k /\ s[p + i - 1].nth = i /\ s[p + i - 1].byte = Bytes(sent[k])[i]
  BY <1>1, <1>p, Run
<1>6. p + n - 1 = n /\ \A i \in 1 .. n : p + i - 1 = i
  BY <1>5 DEF p
<1>7. n \in 1 .. Len(s) /\ Closes(s[n], sent)
  BY <1>5, <1>6
<1>8. \A i \in 1 .. n : s[i].key = k /\ s[i].nth = i /\ s[i].byte = Bytes(sent[k])[i]
  BY <1>5, <1>6
<1> QED BY <1>4, <1>5, <1>7, <1>8 DEF s

LEMMA FirstStep ==
  ASSUME Inv, First
  PROVE  Inv'
<1> DEFINE b == Head(queue).byte
           k == Stream[1].key
<1>1. at = "first" /\ queue # <<>> /\ Types /\ StreamInv
  BY DEF First, Inv
<1>2. got = <<>> /\ ~Asking
  BY <1>1 DEF Inv, ReadInv, Asking, Inside
<1>3. Len(got) = 0 /\ Len(got) + 1 = 1
  BY <1>2
<1>4. Head(queue) = Stream[1] /\ 1 \in 1 .. Len(Stream)
  BY <1>1, <1>3, Ahead
<1>5. Stream # <<>>
  BY <1>4
<1>6. sent[k] \in AllKeys /\ b = Bytes(sent[k])[1] /\ (Len(Bytes(sent[k])) = 1 => Closes(Stream[1], sent))
  <2> DEFINE n == Len(Bytes(sent[k]))
  <2>0. FirstKey(k, n) /\ b = Stream[1].byte
    BY <1>4 DEF FirstKey
  <2> HIDE DEF b, k, n
  <2>1. /\ sent[k] \in AllKeys /\ n \in 1 .. 6 /\ Closes(Stream[n], sent)
        /\ \A i \in 1 .. n : Stream[i].byte = Bytes(sent[k])[i]
    BY <1>1, <1>5, <2>0, Present
  <2> QED BY <2>0, <2>1 DEF n
<1> HIDE DEF b, k
<1>7. /\ b \in Simple => sent[k] = b /\ Len(Bytes(sent[k])) = 1
      /\ b \notin Simple => b \in {"lead2", "lead3", "lead4", "esc"}
  BY <1>6, FirstByte
<1>8. ASSUME b \in {"lead2", "lead3", "lead4"}, Reads("rest") PROVE Inv'
  <2>1. Len(got') = 1 /\ got'[1] = Head(queue) /\ at' = "rest"
    <3>1. Asking = FALSE /\ Asking' = FALSE /\ at' = "rest"
      BY <1>1, <1>8 DEF Asking, Reads
    <3> QED BY <3>1, <1>3, <1>8, ReadsStep
  <2>2. ReadInv'
    BY <2>1, <1>8 DEF ReadInv, Inside, Asking, b
  <2> QED BY <2>2, <1>1, <1>8, ReadsOn
<1>9. ASSUME b = "esc", Reads("second") PROVE Inv'
  <2>1. Len(got') = 1 /\ got'[1] = Head(queue) /\ at' = "second"
    <3>1. Asking = FALSE /\ Asking' = FALSE /\ at' = "second"
      BY <1>1, <1>9 DEF Asking, Reads
    <3> QED BY <3>1, <1>3, <1>9, ReadsStep
  <2>2. ReadInv'
    BY <2>1, <1>9 DEF ReadInv, Inside, Asking, b
  <2> QED BY <2>2, <1>1, <1>9, ReadsOn
<1>10. ASSUME NEW what, NEW place \in {"first", "given"}, Ends(what, place), b \in Simple, what = b PROVE Inv'
  <2>1. what = Meaning(sent[k]) /\ Closes(Stream[Len(got) + 1], sent)
    BY <1>3, <1>6, <1>7, <1>10 DEF Meaning, Simple
  <2>2. \A i \in 1 .. Len(got) + 1 : Stream[i].key = k
    BY <1>3 DEF k
  <2> QED BY <2>1, <2>2, <1>1, <1>2, <1>10, EndsStep
<1>11. b # "more"
  BY <1>7 DEF Simple
<1>12. "enter" \in Simple
  BY DEF Simple
<1>13. \/ b \in {"lead2", "lead3", "lead4"} /\ Reads("rest")
       \/ b = "esc" /\ Reads("second")
       \/ b = "enter" /\ Ends("enter", "given")
       \/ b \in Simple /\ Ends(b, "first")
  <2>1. \/ b \in {"lead2", "lead3", "lead4"} /\ Reads("rest")
        \/ b = "esc" /\ Reads("second")
        \/ b = "enter" /\ Ends("enter", "given")
        \/ b \notin {"lead2", "lead3", "lead4", "esc", "enter", "more"}
           /\ Ends(IF b \in Simple THEN b ELSE "letter", "first")
    BY <1>11 DEF First, b
  <2> QED BY <2>1, <1>7
<1> QED BY <1>8, <1>9, <1>10, <1>12, <1>13

\* In an escape sequence, and not in an answer.
LEMMA InSequence ==
  ASSUME Inv, at \in {"second", "third", "fourth"}, NEW k, NEW n, FirstKey(k, n)
  PROVE  /\ sent[k] \in {"left", "home", "delete", "pageup"} /\ Len(got) < n /\ Len(got) \in Nat
         /\ n \in 1 .. Len(Stream) /\ Closes(Stream[n], sent)
         /\ \A i \in 1 .. n : Stream[i].key = k /\ Stream[i].byte = Bytes(sent[k])[i]
         /\ \A i \in 1 .. Len(got) : got[i].byte = Bytes(sent[k])[i]
         /\ n = IF sent[k] \in {"left", "home"} THEN 3 ELSE 4
         /\ at = "fourth" => sent[k] = IF got[3].byte = "digit3" THEN "delete" ELSE "pageup"
<1>1. Types /\ StreamInv /\ ReadInv /\ AnswerInv
  BY DEF Inv
<1>2. Len(got) = (IF at = "second" THEN 1 ELSE IF at = "third" THEN 2 ELSE 3) /\ got[1].byte = "esc"
      /\ (at = "fourth" => got[3].byte \in {"digit3", "digit5"})
  BY <1>1 DEF ReadInv
<1>3. /\ Stream \in Seq(Item) /\ Len(Stream) = Len(got) + Len(queue) + Len(coming)
      /\ Len(queue) \in Nat /\ Len(coming) \in Nat
      /\ \A i \in 1 .. Len(got) : Stream[i] = got[i]
  BY <1>1, StreamTypes
<1>4. 1 \in 1 .. Len(got) /\ Len(got) \in Nat /\ Len(got) <= 3 /\ 1 \in 1 .. Len(Stream) /\ Stream # <<>>
  BY <1>2, <1>3
<1>5. /\ sent[k] \in AllKeys /\ n \in 1 .. 6 /\ n \in 1 .. Len(Stream) /\ Closes(Stream[n], sent)
      /\ \A i \in 1 .. n : Stream[i].key = k /\ Stream[i].nth = i /\ Stream[i].byte = Bytes(sent[k])[i]
  BY <1>1, <1>4, Present
<1>6. sent[k] \in Sequences
  <2>1. Stream[1].byte = "esc" /\ 1 \in 1 .. n
    BY <1>2, <1>3, <1>4, <1>5
  <2>2. Bytes(sent[k])[1] = "esc"
    BY <2>1, <1>5
  <2> QED BY <2>2, <1>5, FirstByte
<1>7. sent[k] \notin Answers
  <2>1. ~Asking
    BY DEF Asking
  <2> QED BY <2>1, <1>1, <1>4 DEF AnswerInv, NoneAnswers, FirstKey
<1>8. sent[k] \in {"left", "home", "delete", "pageup"}
  BY <1>6, <1>7 DEF Sequences, Answers
<1>9. n = IF sent[k] \in {"left", "home"} THEN 3 ELSE 4
  BY <1>8, SequenceBytes DEF FirstKey
<1>10. at = "fourth" => sent[k] = IF got[3].byte = "digit3" THEN "delete" ELSE "pageup"
  <2> SUFFICES ASSUME at = "fourth" PROVE sent[k] = IF got[3].byte = "digit3" THEN "delete" ELSE "pageup"
    OBVIOUS
  <2>1. 3 \in 1 .. Len(got) /\ 3 \in 1 .. n
    BY <1>2, <1>9
  <2>2. got[3].byte = Bytes(sent[k])[3]
    BY <2>1, <1>3, <1>5
  <2> QED BY <2>2, <1>2, <1>8, SequenceBytes, ZenonT(30)
<1>11. Len(got) < n
  BY <1>2, <1>8, <1>9, <1>10
<1>12. \A i \in 1 .. Len(got) : got[i].byte = Bytes(sent[k])[i]
  <2> TAKE i \in 1 .. Len(got)
  <2>1. i \in 1 .. n
    BY <1>4, <1>5, <1>11
  <2> QED BY <2>1, <1>3, <1>5
<1> QED BY <1>4, <1>5, <1>8, <1>9, <1>10, <1>11, <1>12

LEMMA SecondStep ==
  ASSUME Inv, Second
  PROVE  Inv'
<1>1. at = "second" /\ Reads("third") /\ at' = "third"
  BY DEF Second, Reads
<1>2. Asking = FALSE /\ Asking' = FALSE
  BY <1>1 DEF Asking
<1>3. Len(got) = 1 /\ got[1].byte = "esc"
  BY <1>1 DEF Inv, ReadInv
<1>4. Len(got') = 2 /\ got'[1] = got[1]
  <2>1. 1 \in 1 .. Len(got) /\ Len(got) + 1 = 2
    BY <1>3
  <2> QED BY <1>1, <1>2, <2>1, ReadsStep
<1>5. ReadInv'
  BY <1>1, <1>3, <1>4 DEF ReadInv, Asking, Inside
<1> QED BY <1>1, <1>5, ReadsOn

LEMMA ThirdStep ==
  ASSUME Inv, Third
  PROVE  Inv'
<1> DEFINE k == Stream[1].key
           n == Len(Bytes(sent[k]))
<1>1. at = "third" /\ queue # <<>> /\ Types /\ ~Asking
  BY DEF Third, Inv, Asking
<1>2. Len(got) = 2 /\ got[1].byte = "esc"
  BY <1>1 DEF Inv, ReadInv
<1>3. FirstKey(k, n)
  BY DEF FirstKey
<1> HIDE DEF k, n
<1>4. /\ sent[k] \in {"left", "home", "delete", "pageup"}
      /\ n \in 1 .. Len(Stream) /\ Closes(Stream[n], sent)
      /\ \A i \in 1 .. n : Stream[i].key = k /\ Stream[i].byte = Bytes(sent[k])[i]
      /\ \A i \in 1 .. Len(got) : got[i].byte = Bytes(sent[k])[i]
      /\ n = IF sent[k] \in {"left", "home"} THEN 3 ELSE 4
  BY <1>1, <1>3, InSequence
<1>5. got[2].byte = Bytes(sent[k])[2]
  BY <1>2, <1>4
<1>6. Head(queue).byte = Bytes(sent[k])[3]
  <2>1. Head(queue) = Stream[3]
    BY <1>1, <1>2, Ahead
  <2>2. 3 \in 1 .. n
    BY <1>4
  <2> QED BY <2>1, <2>2, <1>4
<1>7. CASE sent[k] \in {"delete", "pageup"}
  <2>1. got[2].byte = "[" /\ Head(queue).byte \in {"digit3", "digit5"}
    BY <1>5, <1>6, <1>7, SequenceBytes, ZenonT(30)
  <2>2. Reads("fourth") /\ at' = "fourth"
    BY <2>1 DEF Third, Extended, Reads
  <2>3. Asking = FALSE /\ Asking' = FALSE
    BY <1>1, <2>2 DEF Asking
  <2>4. Len(got') = 3 /\ got'[1] = got[1] /\ got'[2] = got[2] /\ got'[3] = Head(queue)
    <3>1. 1 \in 1 .. Len(got) /\ 2 \in 1 .. Len(got) /\ Len(got) + 1 = 3
      BY <1>2
    <3> QED BY <2>2, <2>3, <3>1, ReadsStep
  <2>5. ReadInv'
    BY <1>2, <2>1, <2>2, <2>4 DEF ReadInv, Asking, Inside
  <2> QED BY <1>1, <2>2, <2>5, ReadsOn
<1>8. CASE sent[k] \in {"left", "home"}
  <2>1. \/ sent[k] = "left" /\ got[2].byte = "[" /\ Head(queue).byte = "D"
        \/ sent[k] = "home" /\ got[2].byte = "O" /\ Head(queue).byte = "H"
    BY <1>5, <1>6, <1>8, SequenceBytes, ZenonT(30)
  <2>2. Ends(sent[k], "first")
    BY <2>1 DEF Third, Extended
  <2>3. sent[k] = Meaning(sent[k]) /\ Len(got) + 1 = n
    BY <1>2, <1>4, <1>8 DEF Meaning
  <2> QED BY <1>1, <1>4, <2>2, <2>3, EndsStep
<1> QED BY <1>4, <1>7, <1>8

LEMMA FourthStep ==
  ASSUME Inv, Fourth
  PROVE  Inv'
<1> DEFINE k == Stream[1].key
           n == Len(Bytes(sent[k]))
<1>1. at = "fourth" /\ queue # <<>> /\ Types /\ ~Asking
  BY DEF Fourth, Inv, Asking
<1>2. Len(got) = 3
  BY <1>1 DEF Inv, ReadInv
<1>3. FirstKey(k, n)
  BY DEF FirstKey
<1> HIDE DEF k, n
<1>4. /\ sent[k] \in {"left", "home", "delete", "pageup"} /\ Len(got) < n
      /\ n \in 1 .. Len(Stream) /\ Closes(Stream[n], sent)
      /\ \A i \in 1 .. n : Stream[i].key = k /\ Stream[i].byte = Bytes(sent[k])[i]
      /\ n = IF sent[k] \in {"left", "home"} THEN 3 ELSE 4
      /\ sent[k] = IF got[3].byte = "digit3" THEN "delete" ELSE "pageup"
  BY <1>1, <1>3, InSequence
<1>5. n = 4 /\ Len(got) + 1 = n
  BY <1>2, <1>4
<1>6. Head(queue).byte = "~"
  <2>1. Head(queue) = Stream[4]
    BY <1>1, <1>2, Ahead
  <2>2. Head(queue).byte = Bytes(sent[k])[4]
    BY <2>1, <1>4, <1>5
  <2> QED BY <2>2, <1>4, SequenceBytes, ZenonT(30)
<1>7. Ends(Meaning(sent[k]), "first")
  BY <1>4, <1>6 DEF Fourth, Meaning
<1> QED BY <1>1, <1>4, <1>5, <1>7, EndsStep

\* In a character.
LEMMA InCharacter ==
  ASSUME Inv, at = "rest", NEW k, NEW n, FirstKey(k, n)
  PROVE  /\ sent[k] \in {"accent", "wide", "emoji"} /\ Len(got) = 1 /\ got[1].key = k
         /\ n \in 2 .. 4 /\ n \in 1 .. Len(Stream) /\ Closes(Stream[n], sent)
         /\ \A i \in 1 .. n : Stream[i].key = k /\ Stream[i].byte = Bytes(sent[k])[i]
         /\ Missing(got[1].byte) = n - 1
<1>1. Types /\ StreamInv /\ ReadInv
  BY DEF Inv
<1>2. Len(got) = 1 /\ got[1].byte \in {"lead2", "lead3", "lead4"}
  BY <1>1 DEF ReadInv
<1>3. /\ Stream \in Seq(Item) /\ Len(Stream) = Len(got) + Len(queue) + Len(coming)
      /\ Len(queue) \in Nat /\ Len(coming) \in Nat
      /\ \A i \in 1 .. Len(got) : Stream[i] = got[i]
  BY <1>1, StreamTypes
<1>4. Stream[1] = got[1] /\ Stream # <<>>
  BY <1>2, <1>3
<1>5. /\ sent[k] \in AllKeys /\ n \in 1 .. 6 /\ n \in 1 .. Len(Stream) /\ Closes(Stream[n], sent)
      /\ \A i \in 1 .. n : Stream[i].key = k /\ Stream[i].nth = i /\ Stream[i].byte = Bytes(sent[k])[i]
  BY <1>1, <1>4, Present
<1>6. 1 \in 1 .. n /\ got[1].byte = Bytes(sent[k])[1] /\ got[1].key = k
  BY <1>4, <1>5
<1>7. \/ got[1].byte = "lead2" /\ sent[k] = "accent"
      \/ got[1].byte = "lead3" /\ sent[k] = "wide"
      \/ got[1].byte = "lead4" /\ sent[k] = "emoji"
  BY <1>2, <1>5, <1>6, FirstByte
<1>8. n \in 2 .. 4 /\ Missing(got[1].byte) = n - 1
  <2>1. Missing("lead2") = 1 /\ Missing("lead3") = 2 /\ Missing("lead4") = 3
    BY DEF Missing
  <2>2. n = Len(Bytes(sent[k]))
    BY DEF FirstKey
  <2>3. CASE got[1].byte = "lead2" /\ sent[k] = "accent"
    <3>1. n = 2 /\ Missing(got[1].byte) = 1
      BY <2>1, <2>2, <2>3, CharacterBytes
    <3> QED BY <3>1
  <2>4. CASE got[1].byte = "lead3" /\ sent[k] = "wide"
    <3>1. n = 3 /\ Missing(got[1].byte) = 2
      BY <2>1, <2>2, <2>4, CharacterBytes
    <3> QED BY <3>1
  <2>5. CASE got[1].byte = "lead4" /\ sent[k] = "emoji"
    <3>1. n = 4 /\ Missing(got[1].byte) = 3
      BY <2>1, <2>2, <2>5, CharacterBytes
    <3> QED BY <3>1
  <2> QED BY <1>7, <2>3, <2>4, <2>5
<1> QED BY <1>2, <1>5, <1>6, <1>7, <1>8

LEMMA RestStep ==
  ASSUME Inv, Rest, ~cut'
  PROVE  Inv'
<1> DEFINE k == Stream[1].key
           n == Len(Bytes(sent[k]))
<1>1. at = "rest" /\ queue # <<>> /\ Types /\ StreamInv /\ DoneInv /\ ~Asking
  BY DEF Rest, Inv, Asking
<1>2. FirstKey(k, n)
  BY DEF FirstKey
<1>n. n = Len(Bytes(sent[k]))
  OBVIOUS
<1> HIDE DEF k, n
<1>3. /\ sent[k] \in {"accent", "wide", "emoji"} /\ Len(got) = 1 /\ got[1].key = k
      /\ n \in 2 .. 4 /\ n \in 1 .. Len(Stream) /\ Closes(Stream[n], sent)
      /\ \A i \in 1 .. n : Stream[i].key = k /\ Stream[i].byte = Bytes(sent[k])[i]
      /\ Missing(got[1].byte) = n - 1
  BY <1>1, <1>2, InCharacter
<1>4. /\ Stream \in Seq(Item) /\ Len(Stream) = 1 + Len(queue) + Len(coming)
      /\ Len(queue) \in Nat /\ Len(coming) \in Nat
      /\ \A i \in 1 .. Len(got) : Stream[i] = got[i]
      /\ \A i \in 1 .. Len(queue) : Stream[1 + i] = queue[i]
  <2>1. /\ Stream \in Seq(Item) /\ Len(Stream) = Len(got) + Len(queue) + Len(coming)
        /\ Len(queue) \in Nat /\ Len(coming) \in Nat
        /\ \A i \in 1 .. Len(got) : Stream[i] = got[i]
        /\ \A i \in 1 .. Len(queue) : Stream[Len(got) + i] = queue[i]
    BY <1>1, StreamTypes
  <2> QED BY <2>1, <1>3
<1>5. n - 1 <= Len(queue)
  <2>1. k \notin KeysOf(coming)
    BY <1>3 DEF Rest
  <2>2. Stream[n].key = k
    BY <1>3
  <2>3. ~(Len(got) + Len(queue) < n)
    BY <2>1, <2>2, <1>1, <1>3, StreamKeys
  <2> QED BY <2>3, <1>3, <1>4
<1>6. Lesser(Missing(got[1].byte), Len(queue)) = n - 1 /\ n - 1 \in 0 .. Len(queue)
  BY <1>3, <1>4, <1>5 DEF Lesser
<1> DEFINE read == got \o SubSeq(queue, 1, n - 1)
<1>7. [i \in DOMAIN read |-> read[i].byte] = Bytes(sent[k])
  <2>1. got \in Seq(Item) /\ queue \in Seq(Item)
    BY <1>1 DEF Types
  <2> DEFINE h == SubSeq(queue, 1, n - 1)
  <2>2. h \in Seq(Item) /\ Len(h) = n - 1 /\ \A i \in 1 .. n - 1 : h[i] = queue[i]
    BY <2>1, <1>6
  <2> HIDE DEF h
  <2>3. read \in Seq(Item) /\ Len(read) = n /\ read[1] = got[1] /\ \A i \in 1 .. n - 1 : read[1 + i] = h[i]
    <3>1. /\ got \o h \in Seq(Item) /\ Len(got \o h) = Len(got) + Len(h)
          /\ \A i \in 1 .. Len(got) : (got \o h)[i] = got[i]
          /\ \A i \in 1 .. Len(h) : (got \o h)[Len(got) + i] = h[i]
      <4>1. h \in Seq(Item)
        BY <2>2
      <4> QED BY <2>1, <4>1, Joined
    <3>2. 1 \in 1 .. Len(got)
      BY <1>3
    <3> QED BY <3>1, <3>2, <2>2, <1>3 DEF h
  <2> HIDE DEF read
  <2>4. \A i \in 1 .. n : read[i] = Stream[i]
    <3> TAKE i \in 1 .. n
    <3>1. CASE i = 1
      <4>1. 1 \in 1 .. Len(got)
        BY <1>3
      <4> QED BY <3>1, <4>1, <2>3, <1>4
    <3>2. CASE i # 1
      <4>1. PICK j \in 1 .. n - 1 : i = 1 + j
        <5>1. i - 1 \in 1 .. n - 1 /\ i = 1 + (i - 1)
          BY <3>2, <1>3
        <5> QED BY <5>1
      <4>2. j \in 1 .. Len(queue)
        BY <1>6
      <4> QED BY <4>1, <4>2, <2>2, <2>3, <1>4
    <3> QED BY <3>1, <3>2
  <2>5. \A i \in 1 .. n : read[i].byte = Bytes(sent[k])[i]
    BY <2>4, <1>3
  <2>6. sent[k] \in AllKeys
    BY <1>3 DEF AllKeys, Known
  <2>7. Bytes(sent[k]) \in Seq(Byte) /\ Len(Bytes(sent[k])) = n
    BY <2>6, <1>n, BytesType
  <2>8. DOMAIN read = 1 .. n /\ DOMAIN Bytes(sent[k]) = 1 .. n
    BY <2>3, <2>7
  <2>9. Bytes(sent[k]) = [i \in 1 .. n |-> Bytes(sent[k])[i]]
    BY <2>7, <2>8
  <2> QED BY <2>5, <2>8, <2>9
<1>8. /\ queue' = SubSeq(queue, (n - 1) + 1, Len(queue))
      /\ done' = Append(done, Did(k, sent[k])) /\ got' = <<>> /\ at' = "first"
      /\ UNCHANGED <<width, sent, coming, open, lost>>
  <2>1. got[1].key = k /\ [i \in DOMAIN read |-> read[i].byte] = Bytes(sent[k])
    BY <1>3, <1>7
  <2> QED BY <2>1, <1>6 DEF Rest, Does, Did
<1> HIDE DEF read
<1>9. Behind(n - 1, queue', Stream')
  BY <1>8 DEF Behind, Stream
<1>10. /\ queue' \in Seq(Item) /\ IsRest(Stream', Stream, n) /\ Whole(Stream', sent)
       /\ open => Latest(Stream', sent)
       /\ DoneBefore(Append(done, Did(k, sent[k])), lost, Stream', sent)
  <2> DEFINE q == queue'
             t == Stream'
             m == n - 1
  <2>1. Behind(m, q, t) /\ n = Len(got) + m /\ n # 0 /\ m \in 0 .. Len(queue) /\ \A i \in 1 .. n : Stream[i].key = k
    BY <1>3, <1>6, <1>9
  <2> HIDE DEF q, t, m
  <2>2. sent[k] = Meaning(sent[k])
    BY <1>3 DEF Meaning
  <2>3. /\ q \in Seq(Item) /\ IsRest(t, Stream, n) /\ Whole(t, sent) /\ (open => Latest(t, sent))
        /\ DoneBefore(Append(done, Did(k, sent[k])), lost, t, sent)
    BY <2>1, <2>2, <1>1, <1>3, TakesKey
  <2> QED BY <2>3 DEF q, t
<1>11. StreamInv' /\ DoneInv'
  BY <1>1, <1>8, <1>10 DEF StreamInv, DoneInv
<1>12. AnswerInv' /\ ~Asking'
  BY <1>1, <1>8, <1>10, AnswersRest DEF Inv, AnswerInv, Asking
<1>13. Types' /\ ReadInv'
  <2>1. got' \in Seq(Item)
    BY <1>8
  <2> QED BY <2>1, <1>8, <1>10 DEF Inv, Types, ReadInv, Asking, Inside, width
<1>14. SizeInv'
  <2>1. ~cut
    BY DEF Rest
  <2> QED BY <1>1, <1>8, <1>12, <2>1 DEF Inv, SizeInv, WidthAsked, TypedKeys, Asking, width
<1> QED BY <1>11, <1>12, <1>13, <1>14 DEF Inv

-----------------------------------------------------------------------------
(* The end of the input.                                                   *)

\* When the terminal is closed and nothing is queued, the stream is what was read,
\* and it is whole.
LEMMA AtTheEnd ==
  ASSUME Types, StreamInv, Closed
  PROVE  /\ Stream = got /\ open = FALSE /\ queue = <<>> /\ coming = <<>>
         /\ \A k, n : FirstKey(k, n) /\ got # <<>> => n <= Len(got)
<1>1. open = FALSE /\ queue = <<>> /\ coming = <<>>
  BY DEF Closed, StreamInv, Types
<1>2. Stream = got
  <2>1. got \in Seq(Item)
    BY DEF Types
  <2> QED BY <2>1, <1>1 DEF Stream
<1>3. ASSUME NEW k, NEW n, FirstKey(k, n), got # <<>> PROVE n <= Len(got)
  <2>1. n \in 1 .. Len(Stream)
    BY <1>2, <1>3, Present
  <2>2. Len(got) \in Nat
    BY DEF Types
  <2> QED BY <2>1, <2>2, <1>2
<1> QED BY <1>1, <1>2, <1>3

LEMMA EndOfInputStep ==
  ASSUME Inv, EndOfInput
  PROVE  Inv'
<1>1. /\ at \in {"first", "rest"} /\ Closed /\ got' = <<>> /\ at' = "closed"
      /\ UNCHANGED <<width, sent, coming, queue, open, done, lost, cut>> /\ Types /\ StreamInv
  BY DEF EndOfInput, Inv
<1>2. Stream = got /\ open = FALSE /\ queue = <<>> /\ coming = <<>>
      /\ \A k, n : FirstKey(k, n) /\ got # <<>> => n <= Len(got)
  BY <1>1, AtTheEnd
<1>3. at # "rest"
  <2> SUFFICES ASSUME at = "rest" PROVE FALSE
    OBVIOUS
  <2> DEFINE k == Stream[1].key
             n == Len(Bytes(sent[k]))
  <2>1. FirstKey(k, n)
    BY DEF FirstKey
  <2> HIDE DEF k, n
  <2>2. Len(got) = 1 /\ n \in 2 .. 4
    BY <2>1, InCharacter
  <2>3. got # <<>>
    BY <2>2
  <2>4. n <= Len(got)
    BY <2>1, <2>3, <1>2
  <2> QED BY <2>2, <2>4
<1>4. got = <<>>
  BY <1>1, <1>3 DEF Inv, ReadInv, Asking, Inside
<1>5. Asking = FALSE /\ Asking' = FALSE /\ Stream' = Stream
  BY <1>1, <1>4 DEF Asking, Stream
<1>6. StreamInv' /\ DoneInv' /\ AnswerInv'
  BY <1>1, <1>2, <1>5, Kept DEF Inv
<1>7. Types' /\ ReadInv'
  <2>1. got' \in Seq(Item)
    BY <1>1
  <2> QED BY <2>1, <1>1 DEF Inv, Types, ReadInv, Asking, Inside, width
<1>8. SizeInv'
  BY <1>1, <1>2, <1>5 DEF SizeInv, Asking
<1> QED BY <1>6, <1>7, <1>8 DEF Inv

\* The bytes of one key have not been separated, so it does not happen.
LEMMA EndInEscapeStep ==
  ASSUME Inv, EndInEscape
  PROVE  FALSE
<1>1. at \in {"second", "third", "fourth"} /\ Closed /\ Types /\ StreamInv
  BY DEF EndInEscape, Inv
<1>2. \A k, n : FirstKey(k, n) /\ got # <<>> => n <= Len(got)
  BY <1>1, AtTheEnd
<1> DEFINE k == Stream[1].key
           n == Len(Bytes(sent[k]))
<1>3. FirstKey(k, n)
  BY DEF FirstKey
<1> HIDE DEF k, n
<1>4. Len(got) < n /\ n \in 1 .. Len(Stream) /\ Len(got) \in Nat
  BY <1>1, <1>3, InSequence
<1>5. got # <<>>
  BY <1>1 DEF Inv, ReadInv
<1>6. n <= Len(got)
  BY <1>2, <1>3, <1>5
<1> QED BY <1>4, <1>6

-----------------------------------------------------------------------------
(* The next line, and the width of the terminal.                           *)

\* A question is asked, and its answer comes behind all keys.
Queued(q, t) == t = <<>> \o q \o coming

LEMMA AsksStep ==
  ASSUME sent \in Seq(AllKeys), coming \in Seq(Item), NEW k \in Answers, Sends(k),
         NEW q \in Seq(Item), NEW t, Queued(q, t), got' = <<>>, queue' = q,
         Whole(t, sent), Latest(t, sent), NEW d, NEW l, DoneBefore(d, l, t, sent), NoneAnswers(t, sent)
  PROVE  /\ sent' \in Seq(AllKeys) /\ coming' \in Seq(Item)
         /\ Whole(Stream', sent') /\ Latest(Stream', sent') /\ DoneBefore(d, l, Stream', sent')
         /\ LastAnswers(Stream', sent', k) /\ SomeAnswers(Stream', sent')
<1> DEFINE b == BytesOf(k, Len(sent'))
           u == Stream'
           more == sent'
<1>1. k \in AllKeys
  BY DEF AllKeys
<1>2. more = Append(sent, k) /\ coming' = coming \o b
  BY DEF Sends, BytesOf
<1>3. more \in Seq(AllKeys) /\ Len(more) \in Nat
  BY <1>1, <1>2
<1>4. b \in Seq(Item)
  BY <1>1, <1>3, BytesOfType
<1>b. b = BytesOf(k, Len(more))
  OBVIOUS
<1> HIDE DEF b, more
<1>5. coming' \in Seq(Item)
  BY <1>2, <1>4
<1>6. u = t \o b
  <2> DEFINE e == <<>>
  <2>1. e \in Seq(Item) /\ t = e \o q \o coming /\ u = e \o q \o (coming \o b)
    BY <1>2 DEF Queued, Stream
  <2> HIDE DEF e, u
  <2> QED BY <2>1, <1>4, Appended, SMTT(30)
<1> HIDE DEF u
<1>7. Grown(t, sent, k, u, more)
  BY <1>2, <1>6, <1>b DEF Grown
<1>8. /\ Whole(u, more) /\ Latest(u, more) /\ DoneBefore(d, l, u, more)
      /\ LastAnswers(u, more, k) /\ SomeAnswers(u, more)
  BY <1>1, <1>7, SendsKey
<1> QED BY <1>3, <1>5, <1>8 DEF u, more

LEMMA NextLineStep ==
  ASSUME Inv, NextLine, ~cut'
  PROVE  Inv'
<1> DEFINE m == Len(queue)
           drop == KeysOf(queue)
           s == Stream
<1>1. /\ at = "given" /\ queue' = <<>> /\ lost' = lost \cup drop /\ column' = Start
      /\ drop \cap KeysOf(coming) = {} /\ UNCHANGED <<sized, from, got, open, done>>
  BY DEF NextLine
<1>2. Types /\ sent \in Seq(AllKeys) /\ queue \in Seq(Item) /\ coming \in Seq(Item)
  BY DEF Inv, Types
<1>3. got = <<>>
  BY <1>1 DEF Inv, ReadInv, Asking, Inside
<1>4. /\ Len(got) = 0 /\ s \in Seq(Item) /\ Len(s) = m + Len(coming) /\ m \in Nat /\ Len(coming) \in Nat
  <2>1. Len(got) = 0
    BY <1>3
  <2> QED BY <2>1, <1>2, StreamTypes
<1>5. Whole(s, sent) /\ (open => Latest(s, sent)) /\ DoneBefore(done, lost, s, sent) /\ NoneAnswers(s, sent)
  BY <1>1 DEF Inv, StreamInv, DoneInv, AnswerInv, Asking
<1>6. /\ \A i \in 1 .. m : s[i].key \in drop
      /\ \A i \in 1 .. Len(s) : m < i => s[i].key \in KeysOf(coming)
      /\ drop \subseteq KeysOf(s)
  <2>1. /\ \A i \in 1 .. Len(Stream) : Len(got) < i /\ i <= Len(got) + Len(queue) => Stream[i].key \in KeysOf(queue)
        /\ \A i \in 1 .. Len(Stream) : Len(got) + Len(queue) < i => Stream[i].key \in KeysOf(coming)
        /\ KeysOf(got) \cup KeysOf(queue) \cup KeysOf(coming) \subseteq KeysOf(Stream)
    BY <1>2, StreamKeys
  <2> QED BY <2>1, <1>4
<1>7. coming = SubSeq(s, m + 1, Len(s))
  <2> DEFINE q == SubSeq(queue, m + 1, Len(queue))
  <2>1. q = <<>>
    BY <1>2
  <2>2. Behind(m, q, coming)
    BY <2>1, <1>2 DEF Behind
  <2> HIDE DEF q
  <2>3. m \in 0 .. Len(queue) /\ m = Len(got) + m
    BY <1>4
  <2> QED BY <2>2, <2>3, <1>2, BehindStream
<1> HIDE DEF m, drop, s
<1>8. m \in 0 .. Len(s)
  BY <1>4
<1>9. m = Len(s) \/ s[m + 1].nth = 1
  <2>1. CASE m = 0 /\ m # Len(s)
    <3>1. s # <<>> /\ m + 1 = 1
      BY <2>1, <1>4
    <3> QED BY <3>1, <1>5 DEF Whole
  <2>2. CASE m # 0 /\ m # Len(s)
    <3>1. m \in 1 .. Len(s) - 1 /\ m \in 1 .. m /\ m + 1 \in 1 .. Len(s) /\ m < m + 1
      BY <2>2, <1>4
    <3>2. s[m].key # s[m + 1].key
      BY <3>1, <1>1, <1>6
    <3> QED BY <3>1, <3>2, <1>5, Boundary
  <2> QED BY <2>1, <2>2
<1>10. Whole(coming, sent)
  BY <1>5, <1>7, <1>8, <1>9, WholeRest
<1>11. IsRest(coming, s, m) /\ (open => Latest(coming, sent))
  BY <1>5, <1>7, <1>8, LatestRest, RestOf
<1>12. DoneBefore(done, lost', coming, sent)
  BY <1>1, <1>2, <1>5, <1>6, <1>7, <1>8, DoneDrop
<1>13. NoneAnswers(coming, sent)
  BY <1>5, <1>11, AnswersRest
<1>14. <<>> \o <<>> \o coming = coming
  BY <1>2
<1>15. ASSUME sized, columns' = Margin, at' = "first", UNCHANGED <<sent, coming>> PROVE Inv'
  <2>1. Stream' = coming
    BY <1>1, <1>3, <1>14, <1>15 DEF Stream
  <2>2. StreamInv' /\ DoneInv'
    <3>1. ~open => coming = <<>>
      BY DEF Inv, StreamInv
    <3> QED BY <3>1, <2>1, <1>1, <1>10, <1>11, <1>12, <1>15 DEF StreamInv, DoneInv
  <2>3. AnswerInv' /\ ReadInv'
    BY <2>1, <1>1, <1>3, <1>13, <1>15 DEF AnswerInv, ReadInv, Asking, Inside
  <2>4. Types'
    <3>1. queue' \in Seq(Item)
      BY <1>1
    <3> QED BY <3>1, <1>1, <1>15 DEF Inv, Types
  <2>5. SizeInv'
    BY <1>1, <1>15 DEF SizeInv, WidthAsked, Asking
  <2> QED BY <2>2, <2>3, <2>4, <2>5 DEF Inv
<1>16. ASSUME ~sized, at' = "from" PROVE ReadInv' /\ SizeInv' /\ Asking' /\ Awaited' = "atStart"
  <2>1. Asking' /\ Awaited' = "atStart" /\ ~Inside'
    BY <1>16 DEF Asking, Awaited, Inside
  <2>2. ReadInv'
    <3>1. got' = <<>> /\ Len(got') = 0
      BY <1>1, <1>3
    <3> QED BY <3>1, <1>16, RoomForAnswers DEF ReadInv, Inside, Asking
  <2>3. SizeInv'
    BY <1>1, <1>16 DEF SizeInv, Asking
  <2> QED BY <2>1, <2>2, <2>3
<1>17. ASSUME ~sized, at' = "from", open, Sends("atStart") PROVE Inv'
  <2>1. "atStart" \in Answers /\ Queued(<<>>, coming) /\ <<>> \in Seq(Item) /\ got' = <<>>
    BY <1>1, <1>3, <1>14 DEF Answers, Queued
  <2>2. /\ sent' \in Seq(AllKeys) /\ coming' \in Seq(Item)
        /\ Whole(Stream', sent') /\ Latest(Stream', sent') /\ DoneBefore(done, lost', Stream', sent')
        /\ LastAnswers(Stream', sent', "atStart") /\ SomeAnswers(Stream', sent')
    <3> DEFINE k == "atStart"
               q == <<>>
    <3>1. k \in Answers /\ q \in Seq(Item) /\ Queued(q, coming) /\ got' = <<>> /\ queue' = q /\ Sends(k)
      BY <2>1, <1>1, <1>17
    <3> HIDE DEF k, q
    <3>2. /\ sent' \in Seq(AllKeys) /\ coming' \in Seq(Item)
          /\ Whole(Stream', sent') /\ Latest(Stream', sent') /\ DoneBefore(done, lost', Stream', sent')
          /\ LastAnswers(Stream', sent', k) /\ SomeAnswers(Stream', sent')
      BY <3>1, <1>2, <1>10, <1>11, <1>12, <1>13, <1>17, AsksStep
    <3> QED BY <3>2 DEF k
  <2>3. StreamInv' /\ DoneInv'
    BY <2>2, <1>1, <1>17 DEF StreamInv, DoneInv
  <2>4. AnswerInv'
    BY <2>2, <1>16, <1>17 DEF AnswerInv
  <2>5. Types'
    <3>1. queue' \in Seq(Item)
      BY <1>1
    <3> QED BY <3>1, <2>2, <1>1, <1>17 DEF Inv, Types
  <2> QED BY <2>3, <2>4, <2>5, <1>16, <1>17 DEF Inv
<1>18. ASSUME ~sized, at' = "from", ~open, UNCHANGED <<sent, coming>> PROVE Inv'
  <2>1. Stream' = coming /\ coming = <<>>
    BY <1>1, <1>3, <1>14, <1>18 DEF Stream, Inv, StreamInv
  <2>2. StreamInv' /\ DoneInv'
    BY <2>1, <1>1, <1>10, <1>12, <1>18 DEF StreamInv, DoneInv
  <2>3. AnswerInv'
    BY <2>1, <1>1, <1>16, <1>18 DEF AnswerInv, LastAnswers
  <2>4. Types'
    <3>1. queue' \in Seq(Item)
      BY <1>1
    <3> QED BY <3>1, <1>1, <1>18 DEF Inv, Types
  <2> QED BY <2>2, <2>3, <2>4, <1>16, <1>18 DEF Inv
<1> QED BY <1>15, <1>17, <1>18 DEF NextLine, Ask

LEMMA AnswerBytes ==
  ASSUME NEW a \in Answers
  PROVE  a \in Sequences /\ a \in AllKeys /\ Len(Bytes(a)) = 6 /\ Bytes(a) \in Seq(Byte) /\ Meaning(a) = a
         /\ Bytes(a)[5] # "R" /\ Bytes(a)[6] = "R" /\ (Bytes(a)[5] = "column1" <=> a = "atStart")
<1>1. a \in Sequences /\ a \in AllKeys /\ Meaning(a) = a
  BY DEF Sequences, Answers, AllKeys, Meaning
<1>2. Len(Bytes(a)) = 6
  BY SequenceBytes DEF Answers
<1>3. Bytes(a)[5] # "R" /\ Bytes(a)[6] = "R" /\ (Bytes(a)[5] = "column1" <=> a = "atStart")
  BY SequenceBytes DEF Answers
<1> QED BY <1>1, <1>2, <1>3, BytesType

LEMMA Recognized ==
  ASSUME NEW a \in Answers, NEW read \in Seq(Item)
  PROVE  IsAnswer(read, a) <=> Len(read) >= 5 /\ \A i \in 1 .. 5 : read[i].byte = Bytes(a)[i]
<1> DEFINE u == SubSeq(Bytes(a), 1, 5)
           v == [i \in 1 .. 5 |-> read[i].byte]
<1>1. Bytes(a) \in Seq(Byte) /\ Len(Bytes(a)) = 6
  BY AnswerBytes
<1>2. DOMAIN u = 1 .. 5 /\ \A i \in 1 .. 5 : u[i] = Bytes(a)[i]
  BY <1>1
<1>3. u \in Seq(Byte)
  <2>1. \A b \in Seq(Byte) : \A m \in 0 .. Len(b) : SubSeq(b, 1, m) \in Seq(Byte)
    OBVIOUS
  <2>2. 5 \in 0 .. Len(Bytes(a))
    BY <1>1
  <2> QED BY <2>1, <2>2, <1>1
<1> HIDE DEF u
<1>4. u = [i \in 1 .. 5 |-> u[i]]
  BY <1>2, <1>3
<1>5. DOMAIN v = 1 .. 5 /\ \A i \in 1 .. 5 : v[i] = read[i].byte
  OBVIOUS
<1>6. v = u <=> \A i \in 1 .. 5 : read[i].byte = Bytes(a)[i]
  BY <1>2, <1>4, <1>5
<1> QED BY <1>6 DEF IsAnswer, u

\* read is the start of the stream.
Prefix(read) ==
  /\ read \in Seq(Item) /\ Len(read) <= Len(Stream)
  /\ \A i \in 1 .. Len(read) : read[i] = Stream[i]

\* What starts as an answer is one, whole.
LEMMA AnswerHere ==
  ASSUME Types, StreamInv, NEW read, Prefix(read), NEW a \in Answers, IsAnswer(read, a),
         NEW k, NEW n, FirstKey(k, n)
  PROVE  /\ sent[k] = a /\ n = 6 /\ 6 \in 1 .. Len(Stream) /\ Closes(Stream[6], sent)
         /\ \A i \in 1 .. 6 : Stream[i].key = k /\ Stream[i].byte = Bytes(a)[i]
<1>1. Len(read) \in Nat /\ Len(read) >= 5 /\ \A i \in 1 .. 5 : read[i].byte = Bytes(a)[i]
  BY Recognized DEF Prefix
<1>2. \A i \in 1 .. 5 : Stream[i].byte = Bytes(a)[i]
  <2>1. \A i \in 1 .. 5 : i \in 1 .. Len(read)
    BY <1>1
  <2> QED BY <2>1, <1>1 DEF Prefix
<1>3. Stream # <<>>
  <2>1. Len(Stream) \in Nat
    BY StreamTypes
  <2>2. Len(Stream) >= 5
    BY <2>1, <1>1 DEF Prefix
  <2> QED BY <2>2
<1>4. /\ sent[k] \in AllKeys /\ n \in 1 .. 6 /\ n \in 1 .. Len(Stream) /\ Closes(Stream[n], sent)
      /\ \A i \in 1 .. n : Stream[i].key = k /\ Stream[i].nth = i /\ Stream[i].byte = Bytes(sent[k])[i]
  BY <1>3, Present
<1>5. /\ Bytes(a)[1] = "esc" /\ Bytes(a)[3] = "digit5" /\ Bytes(a)[4] = ";"
      /\ Bytes(a)[5] = (IF a = "atStart" THEN "column1" ELSE "column2")
  BY SequenceBytes, ZenonT(30) DEF Answers
<1>6. sent[k] \in Sequences
  <2>1. 1 \in 1 .. n /\ 1 \in 1 .. 5
    BY <1>4
  <2>2. Bytes(sent[k])[1] = "esc"
    BY <2>1, <1>2, <1>4, <1>5
  <2> QED BY <2>2, <1>4, FirstByte
<1>7. n = Len(Bytes(sent[k]))
  BY DEF FirstKey
<1>8. sent[k] \in Answers
  <2>1. n >= 3
    <3>1. CASE sent[k] \in {"left", "home"}
      <4>1. Len(Bytes(sent[k])) = 3
        BY <3>1, SequenceBytes
      <4> QED BY <4>1, <1>7
    <3>2. CASE sent[k] \in {"delete", "pageup"}
      <4>1. Len(Bytes(sent[k])) = 4
        BY <3>2, SequenceBytes
      <4> QED BY <4>1, <1>7
    <3>3. CASE sent[k] \in Answers
      <4>1. Len(Bytes(sent[k])) = 6
        BY <3>3, AnswerBytes
      <4> QED BY <4>1, <1>7
    <3> QED BY <3>1, <3>2, <3>3, <1>6 DEF Sequences, Answers
  <2>2. 3 \in 1 .. n /\ 3 \in 1 .. 5
    BY <2>1, <1>4
  <2>3. Bytes(sent[k])[3] = "digit5"
    BY <2>2, <1>2, <1>4, <1>5
  <2>4. sent[k] \in {"pageup", "atStart", "atMargin"}
    BY <2>3, <1>6, SequenceBytes DEF Sequences
  <2>5. ASSUME sent[k] = "pageup" PROVE FALSE
    <3>1. n = 4 /\ Bytes(sent[k])[4] = "~"
      BY <2>5, <1>7, SequenceBytes
    <3>2. 4 \in 1 .. n /\ 4 \in 1 .. 5
      BY <3>1
    <3>3. Bytes(sent[k])[4] = ";"
      BY <3>2, <1>2, <1>4, <1>5
    <3> QED BY <3>1, <3>3
  <2> QED BY <2>4, <2>5 DEF Answers
<1>9. n = 6
  BY <1>7, <1>8, AnswerBytes
<1>10. sent[k] = a
  <2>1. 5 \in 1 .. n /\ 5 \in 1 .. 5
    BY <1>9
  <2>2. Bytes(sent[k])[5] = Bytes(a)[5]
    BY <2>1, <1>2, <1>4
  <2> QED BY <2>2, <1>8, AnswerBytes DEF Answers
<1> QED BY <1>4, <1>9, <1>10

\* Does the read of an answer end without one?
Unanswered(read, n) ==
  /\ Prefix(read) /\ n \in 0 .. Len(queue) /\ Len(read) = Len(got) + n
  /\ \A i \in 1 .. Len(read) : i # Len(read) => read[i].byte # "R"
  /\ \A a \in Answers : ~IsAnswer(read, a)

\* An answer that was read but not at the start: the key before it is typed and
\* was read, too.
LEMMA KeyBefore ==
  ASSUME Types, StreamInv, AnswerInv, Asking, NEW read, NEW n, Unanswered(read, n),
         NEW x, \A i \in 1 .. Len(Stream) : i > Len(read) => Stream[i].key # x,
         NEW j \in 1 .. Len(Stream), Stream[j].key = x, sent[x] \in Answers
  PROVE  x \in KeysOf(read) /\ x - 1 \in KeysOf(read) \cap TypedKeys /\ DOMAIN sent \ TypedKeys \subseteq 1 .. x
<1> DEFINE s == Stream
           m == Len(read)
<1>1. /\ Whole(s, sent) /\ sent \in Seq(AllKeys) /\ LastAnswers(s, sent, Awaited)
      /\ read \in Seq(Item) /\ m \in Nat /\ \A i \in 1 .. m : read[i] = s[i] /\ i \in 1 .. Len(s)
  <2>1. Len(Stream) \in Nat
    BY StreamTypes
  <2> QED BY <2>1 DEF Types, StreamInv, AnswerInv, Unanswered, Prefix
<1>2. /\ \A i \in 1 .. Len(s) : i > m => s[i].key # x
      /\ \A i \in 1 .. m : i # m => read[i].byte # "R"
      /\ j \in 1 .. Len(s) /\ s[j].key = x
  BY DEF Unanswered
<1> HIDE DEF s, m
<1>3. PICK p \in 1 .. j : s[p].nth = 1 /\ s[p].key = s[j].key
  BY <1>1, <1>2, Begins, SMTT(30)
<1> DEFINE c == 6
<1>c. c = 6
  OBVIOUS
<1>4. p \in 1 .. Len(s) /\ Starts(s, sent, p, x, c)
  <2>1. Len(Bytes(sent[x])) = 6
    BY AnswerBytes
  <2> QED BY <2>1, <1>2, <1>3 DEF Starts
<1> HIDE DEF c
<1>5. p + c - 1 \in 1 .. Len(s)
      /\ \A i \in 1 .. c : p + i - 1 \in 1 .. Len(s) /\ s[p + i - 1].key = x /\ s[p + i - 1].byte = Bytes(sent[x])[i]
  BY <1>1, <1>4, Run, SMTT(30)
<1>6. p + 5 \in 1 .. Len(s) /\ s[p + 5].key = x /\ s[p + 5].byte = "R"
  <2>1. c \in 1 .. c /\ p + c - 1 = p + 5
    BY <1>4, <1>c
  <2>2. s[p + c - 1].key = x /\ s[p + c - 1].byte = Bytes(sent[x])[c]
    BY <2>1, <1>5
  <2> QED BY <2>1, <2>2, <1>c, <1>5, AnswerBytes
<1>7. m = p + 5
  <2>1. ~(p + 5 > m)
    BY <1>2, <1>6
  <2>2. p + 5 \in 1 .. m
    BY <2>1, <1>1, <1>6
  <2>3. read[p + 5].byte = "R"
    BY <2>2, <1>1, <1>6
  <2> QED BY <2>2, <2>3, <1>2
<1>8. p # 1
  <2> SUFFICES ASSUME p = 1 PROVE FALSE
    OBVIOUS
  <2>1. \A i \in 1 .. 5 : read[i].byte = Bytes(sent[x])[i]
    <3> TAKE i \in 1 .. 5
    <3>1. i \in 1 .. c /\ i \in 1 .. m /\ p + i - 1 = i
      BY <1>c, <1>7
    <3> QED BY <3>1, <1>1, <1>5
  <2>2. m >= 5
    BY <1>7
  <2>3. IsAnswer(read, sent[x])
    BY <2>1, <2>2, <1>1, Recognized DEF m
  <2> QED BY <2>3 DEF Unanswered
<1>9. p - 1 \in 1 .. Len(s) - 1 /\ p - 1 \in 1 .. m /\ p \in 1 .. m /\ (p - 1) + 1 = p
  BY <1>4, <1>7, <1>8
<1>10. s[p - 1].key = x - 1 /\ x \in Nat
  <2>1. s[p].key = x /\ s[p].nth = 1
    BY <1>2, <1>3
  <2>2. p - 1 \in 1 .. Len(s) /\ s[p - 1].key \in Nat /\ s[p - 1].nth \in Nat /\ s[p - 1].nth \in 1 .. Len(Bytes(sent[s[p - 1].key]))
    <3>1. p - 1 \in 1 .. Len(s)
      BY <1>9
    <3> QED BY <3>1, <1>1, WholeTypes
  <2>3. Follows(s[p - 1], s[p], sent)
    BY <1>1, <1>9 DEF Whole
  <2>4. s[p].key = s[p - 1].key + 1
    BY <2>1, <2>2, <2>3 DEF Follows
  <2> QED BY <2>1, <2>2, <2>4
<1>11. KeysAre(read)
  BY <1>1, KeysIn
<1>12. x \in KeysOf(read) /\ x - 1 \in KeysOf(read)
  <2>1. read[p].key = x /\ read[p - 1].key = x - 1
    BY <1>1, <1>2, <1>3, <1>9, <1>10
  <2> QED BY <2>1, <1>9, <1>11 DEF KeysAre, m
<1>13. \A k \in DOMAIN sent : k > x => sent[k] \notin Answers
  BY <1>1, <1>2 DEF LastAnswers
<1>14. x - 1 \in TypedKeys
  <2>1. p - 1 \in 1 .. Len(s) /\ x - 1 \in DOMAIN sent /\ x \in DOMAIN sent
    <3>1. p - 1 \in 1 .. Len(s)
      BY <1>9
    <3>2. s[p - 1].key \in 1 .. Len(sent) /\ s[j].key \in 1 .. Len(sent)
      BY <3>1, <1>1, <1>2, WholeTypes
    <3>3. DOMAIN sent = 1 .. Len(sent)
      BY <1>1
    <3> QED BY <3>1, <3>2, <3>3, <1>2, <1>10
  <2>2. sent[x - 1] \in Answers => sent[x] \notin Answers
    BY <2>1, <1>1, <1>10 DEF LastAnswers
  <2> QED BY <2>1, <2>2 DEF TypedKeys
<1>15. DOMAIN sent \ TypedKeys \subseteq 1 .. x
  <2> SUFFICES ASSUME NEW k \in DOMAIN sent, sent[k] \in Answers PROVE k \in 1 .. x
    BY DEF TypedKeys
  <2> QED BY <1>1, <1>10, <1>13
<1> QED BY <1>12, <1>14, <1>15

LEMMA NoAnswerStep ==
  ASSUME Inv, Asking, NEW read, NEW n, Unanswered(read, n), NoAnswer(read), ~cut',
         queue' = SubSeq(queue, n + 1, Len(queue)), got' = <<>>, UNCHANGED open
  PROVE  Inv'
<1> DEFINE s == Stream
           t == Stream'
           m == Len(got) + n
           drop == KeysOf(read)
<1>1. /\ columns' = Assumed /\ at' = "first" /\ lost' = lost \cup drop
      /\ \A k \in KeysOf(coming) \cup KeysOf(queue') : sent[k] \notin Answers /\ k \notin drop
      /\ UNCHANGED <<sized, from, column, sent, coming, done>>
  BY DEF NoAnswer
<1>2. Types /\ StreamInv /\ DoneInv /\ AnswerInv /\ sent \in Seq(AllKeys) /\ coming \in Seq(Item)
  BY DEF Inv, Types
<1>3. /\ n \in 0 .. Len(queue) /\ Len(read) = m /\ read \in Seq(Item)
      /\ \A i \in 1 .. m : read[i] = s[i]
  BY DEF Unanswered, Prefix
<1>4. /\ Whole(s, sent) /\ (open => Latest(s, sent)) /\ DoneBefore(done, lost, s, sent)
      /\ s \in Seq(Item) /\ Len(s) \in Nat
  BY <1>2, WholeTypes DEF StreamInv, DoneInv
<1>5. queue' \in Seq(Item) /\ m \in 0 .. Len(s) /\ t = SubSeq(s, m + 1, Len(s))
  <2> DEFINE q == queue'
  <2>1. Behind(n, q, t) /\ m = Len(got) + n
    BY <1>1 DEF Behind, Stream
  <2> HIDE DEF q, t, m
  <2>2. q \in Seq(Item) /\ m \in 0 .. Len(Stream) /\ t = SubSeq(Stream, m + 1, Len(Stream))
    BY <2>1, <1>2, <1>3, BehindStream
  <2> QED BY <2>2 DEF q
<1> HIDE DEF s, t, m, drop
<1>6. IsRest(t, s, m)
  BY <1>4, <1>5, RestOf
<1>7. \A i \in 1 .. Len(t) : t[i].key \in KeysOf(coming) \cup KeysOf(queue')
  <2> DEFINE q == queue'
  <2>q. q \in Seq(Item)
    BY <1>5
  <2>1. t = q \o coming
    <3>1. t = <<>> \o queue' \o coming
      BY <1>1 DEF t, Stream
    <3> QED BY <3>1, <1>5
  <2> HIDE DEF q
  <2>2. /\ Len(t) = Len(q) + Len(coming)
        /\ \A i \in 1 .. Len(q) : t[i] = q[i]
        /\ \A i \in 1 .. Len(coming) : t[Len(q) + i] = coming[i]
    BY <2>1, <2>q, <1>2, Joined
  <2>3. KeysAre(q) /\ KeysAre(coming)
    BY <1>2, <2>q, KeysIn
  <2>4. Len(q) \in Nat /\ Len(coming) \in Nat
    BY <1>2, <2>q
  <2> SUFFICES ASSUME NEW i \in 1 .. Len(t) PROVE t[i].key \in KeysOf(coming) \cup KeysOf(q)
    BY DEF q
  <2>5. CASE i <= Len(q)
    <3>1. i \in 1 .. Len(q)
      BY <2>2, <2>4, <2>5
    <3> QED BY <3>1, <2>2, <2>3 DEF KeysAre
  <2>6. CASE i > Len(q)
    <3>1. PICK j \in 1 .. Len(coming) : i = Len(q) + j
      <4>1. i - Len(q) \in 1 .. Len(coming) /\ i = Len(q) + (i - Len(q))
        BY <2>2, <2>4, <2>6
      <4> QED BY <4>1
    <3>2. t[i].key \in KeysOf(coming)
      BY <3>1, <2>2, <2>3 DEF KeysAre
    <3> QED BY <3>2
  <2> QED BY <2>2, <2>4, <2>5, <2>6
<1>8. \A i \in 1 .. m : s[i].key \in drop
  <2>1. KeysAre(read)
    BY <1>3, KeysIn
  <2> QED BY <2>1, <1>3 DEF KeysAre, drop
<1>9. drop \subseteq KeysOf(s)
  <2>1. KeysAre(read) /\ KeysAre(s)
    BY <1>3, <1>4, KeysIn
  <2> SUFFICES ASSUME NEW y \in drop PROVE y \in KeysOf(s)
    OBVIOUS
  <2>2. PICK i \in 1 .. m : read[i].key = y
    BY <2>1, <1>3 DEF KeysAre, drop
  <2>3. i \in 1 .. Len(s) /\ s[i].key = y
    BY <2>2, <1>3, <1>4, <1>5
  <2> QED BY <2>1, <2>3 DEF KeysAre
<1>10. \A i \in 1 .. Len(s) : i > m => s[i].key \notin drop /\ sent[s[i].key] \notin Answers
  <2> TAKE i \in 1 .. Len(s)
  <2> HAVE i > m
  <2>1. i - m \in 1 .. Len(t) /\ s[i] = t[i - m]
    BY <1>6 DEF IsRest
  <2> QED BY <2>1, <1>1, <1>7
<1>11. m = Len(s) \/ s[m + 1].nth = 1
  <2>1. CASE m = 0 /\ m # Len(s)
    <3>1. s # <<>> /\ m + 1 = 1
      BY <2>1, <1>4
    <3> QED BY <3>1, <1>4 DEF Whole
  <2>2. CASE m # 0 /\ m # Len(s)
    <3>1. m \in 1 .. Len(s) - 1 /\ m \in 1 .. m /\ m + 1 \in 1 .. Len(s) /\ m + 1 > m
      BY <2>2, <1>4, <1>5
    <3>2. s[m].key # s[m + 1].key
      BY <3>1, <1>8, <1>10
    <3> QED BY <3>1, <3>2, <1>4, Boundary
  <2> QED BY <2>1, <2>2
<1>12. Whole(t, sent) /\ (open => Latest(t, sent))
  BY <1>4, <1>5, <1>11, LatestRest, WholeRest
<1>13. DoneBefore(done, lost', t, sent)
  BY <1>1, <1>2, <1>4, <1>5, <1>8, <1>9, DoneDrop
<1>14. StreamInv' /\ DoneInv'
  <2>1. ~open' => coming' = <<>>
    BY <1>1, <1>2 DEF StreamInv
  <2> QED BY <2>1, <1>1, <1>12, <1>13 DEF StreamInv, DoneInv, t
<1>15. AnswerInv' /\ ~Asking'
  <2>1. NoneAnswers(t, sent)
    BY <1>1, <1>7 DEF NoneAnswers
  <2> QED BY <2>1, <1>1 DEF AnswerInv, Asking, t
<1>16. Types' /\ ReadInv'
  <2>1. got' \in Seq(Item)
    OBVIOUS
  <2> QED BY <2>1, <1>1, <1>2, <1>5 DEF Types, ReadInv, Asking, Inside
<1>17. WidthAsked'
  <2> SUFFICES ASSUME open
               PROVE  /\ ~sized /\ columns' = Assumed
                      /\ \E k \in lost' : /\ sent[k] \in Answers /\ k - 1 \in lost' \cap TypedKeys
                                          /\ DOMAIN sent \ TypedKeys \subseteq 1 .. k
    BY <1>1 DEF WidthAsked, TypedKeys
  <2>1. PICK j \in 1 .. Len(s) : sent[s[j].key] \in Answers
    BY <1>2 DEF AnswerInv, SomeAnswers, s
  <2> DEFINE x == s[j].key
  <2>2. x \in KeysOf(read) /\ x - 1 \in KeysOf(read) \cap TypedKeys /\ DOMAIN sent \ TypedKeys \subseteq 1 .. x
    <3>1. \A i \in 1 .. Len(Stream) : i > Len(read) => Stream[i].key # x
      BY <2>1, <1>3, <1>10 DEF s
    <3>2. j \in 1 .. Len(Stream) /\ Stream[j].key = x /\ sent[x] \in Answers
      BY <2>1 DEF s
    <3> HIDE DEF x
    <3> QED BY <3>1, <3>2, <1>2, KeyBefore
  <2>3. ~sized
    BY DEF Inv, SizeInv
  <2> QED BY <2>1, <2>2, <2>3, <1>1 DEF drop
<1>18. SizeInv'
  BY <1>1, <1>15, <1>17 DEF SizeInv
<1> QED BY <1>14, <1>15, <1>16, <1>18 DEF Inv

\* One more byte of an answer.
LEMMA AnswerGrows ==
  ASSUME Inv, Asking, Reads(at), Head(queue).byte # "R", Len(got) + 1 # AnswerRoom
  PROVE  Inv'
<1>1. at' = at /\ UNCHANGED <<width, sent, coming, open, done, lost, cut>>
  BY DEF Reads
<1>2. Asking = TRUE /\ Asking' = Asking /\ Awaited' = Awaited
  BY <1>1 DEF Asking, Awaited
<1>3. /\ got' \in Seq(Item) /\ Len(got') = Len(got) + 1 /\ got'[Len(got) + 1] = Head(queue)
      /\ \A i \in 1 .. Len(got) : got'[i] = got[i]
      /\ queue' \in Seq(Item) /\ StreamInv' /\ DoneInv' /\ AnswerInv'
  <2>1. Asking' = Asking /\ (Asking => Awaited' = Awaited)
    BY <1>2
  <2> QED BY <2>1, ReadsStep
<1>4. got \in Seq(Item) /\ Len(got) < AnswerRoom /\ \A i \in 1 .. Len(got) : got[i].byte # "R"
  BY DEF Inv, Types, ReadInv
<1>5. Types'
  BY <1>1, <1>3 DEF Inv, Types, width
<1>6. ReadInv'
  <2>1. Len(got) \in Nat
    BY <1>4
  <2>2. Len(got') < AnswerRoom
    BY <2>1, <1>3, <1>4, RoomForAnswers
  <2>3. \A i \in 1 .. Len(got') : got'[i].byte # "R"
    <3> TAKE i \in 1 .. Len(got')
    <3>1. CASE i = Len(got) + 1
      BY <3>1, <1>3
    <3>2. CASE i # Len(got) + 1
      <4>1. i \in 1 .. Len(got)
        BY <2>1, <3>2, <1>3
      <4> QED BY <4>1, <1>3, <1>4
    <3> QED BY <3>1, <3>2
  <2>4. Asking' /\ ~Inside'
    BY <1>1 DEF Asking, Inside
  <2>5. at' \notin {"rest", "second", "third", "fourth"}
    BY <1>1 DEF Asking
  <2> QED BY <2>2, <2>3, <2>4, <2>5 DEF ReadInv
<1>7. SizeInv'
  BY <1>1, <1>2 DEF Inv, SizeInv, Asking, width
<1> QED BY <1>3, <1>5, <1>6, <1>7 DEF Inv

\* What is read of an answer, with the next byte.
WithNext(read) == queue # <<>> /\ read = Append(got, Head(queue))

LEMMA ReadMore ==
  ASSUME Types, NEW read, WithNext(read)
  PROVE  /\ Prefix(read) /\ Len(read) = Len(got) + 1 /\ read[Len(got) + 1] = Head(queue)
         /\ \A i \in 1 .. Len(got) : read[i] = got[i]
<1>1. Head(queue) \in Item /\ Len(got) + 1 \in 1 .. Len(Stream) /\ Head(queue) = Stream[Len(got) + 1]
  BY Ahead DEF WithNext
<1>2. got \in Seq(Item) /\ Len(got) \in Nat /\ read = Append(got, Head(queue))
  BY DEF Types, WithNext
<1>3. read \in Seq(Item) /\ Len(read) = Len(got) + 1 /\ read[Len(got) + 1] = Head(queue)
      /\ \A i \in 1 .. Len(got) : read[i] = got[i]
  BY <1>1, <1>2
<1>4. Len(Stream) \in Nat /\ \A i \in 1 .. Len(got) : Stream[i] = got[i]
  BY StreamTypes
<1>5. Len(read) <= Len(Stream)
  BY <1>1, <1>2, <1>3, <1>4
<1>6. \A i \in 1 .. Len(read) : i = Len(got) + 1 \/ i \in 1 .. Len(got)
  BY <1>2, <1>3
<1> QED BY <1>1, <1>3, <1>4, <1>5, <1>6 DEF Prefix

\* The answer is read up to its last byte, the one waited for.
LEMMA Answered ==
  ASSUME Inv, Asking, NEW read, WithNext(read),
         Head(queue).byte = "R" \/ Len(read) = AnswerRoom, NEW a \in Answers, IsAnswer(read, a),
         NEW k, NEW n, FirstKey(k, n), NEW q, NEW t, Behind(1, q, t)
  PROVE  /\ a = Awaited /\ sent[k] = a /\ read[1].key = k /\ q \in Seq(Item)
         /\ Whole(t, sent) /\ (open => Latest(t, sent)) /\ NoneAnswers(t, sent)
         /\ DoneBefore(Append(done, Did(k, a)), lost, t, sent)
<1>1. FirstKey(k, n) /\ Types /\ StreamInv /\ DoneInv
  BY DEF Inv
<1>2. /\ Prefix(read) /\ Len(read) = Len(got) + 1 /\ read[Len(got) + 1] = Head(queue)
      /\ \A i \in 1 .. Len(got) : read[i] = got[i]
  BY <1>1, ReadMore
<1>3. read \in Seq(Item) /\ Len(got) \in Nat /\ Len(read) <= Len(Stream) /\ Len(Stream) \in Nat
      /\ \A i \in 1 .. Len(read) : read[i] = Stream[i]
  BY <1>1, <1>2, StreamTypes DEF Prefix
<1>4. /\ sent[k] = a /\ 6 \in 1 .. Len(Stream) /\ Closes(Stream[6], sent)
      /\ \A i \in 1 .. 6 : Stream[i].key = k /\ Stream[i].byte = Bytes(a)[i]
  BY <1>1, <1>2, AnswerHere
<1>5. Len(read) >= 5 /\ \A i \in 1 .. 5 : read[i].byte = Bytes(a)[i]
  BY <1>3, Recognized
<1>6. Len(got) <= 5
  <2> SUFFICES ASSUME Len(got) > 5 PROVE FALSE
    BY <1>3
  <2>1. 6 \in 1 .. Len(got) /\ 6 \in 1 .. Len(read) /\ 6 \in 1 .. 6
    BY <1>2, <1>3
  <2>2. got[6].byte = "R"
    BY <2>1, <1>2, <1>3, <1>4, AnswerBytes
  <2> QED BY <2>1, <2>2 DEF Inv, ReadInv
<1>7. Len(got) # 4
  <2> SUFFICES ASSUME Len(got) = 4 PROVE FALSE
    OBVIOUS
  <2>1. Len(read) = 5 /\ Head(queue) = read[5] /\ 5 \in 1 .. 5
    BY <1>2
  <2>2. Head(queue).byte # "R"
    BY <2>1, <1>5, AnswerBytes
  <2>3. Len(read) # AnswerRoom
    BY <2>1, RoomForAnswers
  <2> QED BY <2>2, <2>3
<1>8. Len(got) = 5
  <2>1. Len(got) \in Nat /\ Len(read) = Len(got) + 1 /\ Len(read) >= 5
    BY <1>2, <1>3, <1>5
  <2> DEFINE x == Len(got)
  <2>2. x \in Nat /\ x + 1 >= 5 /\ x <= 5 /\ x # 4
    BY <2>1, <1>6, <1>7
  <2> HIDE DEF x
  <2>3. x = 5
    BY <2>2
  <2> QED BY <2>3 DEF x
<1>9. read[1].key = k
  <2>1. 1 \in 1 .. Len(read) /\ 1 \in 1 .. 6
    BY <1>3, <1>5
  <2> QED BY <2>1, <1>3, <1>4
<1>10. a = Awaited /\ \A j \in DOMAIN sent : j > k => sent[j] \notin Answers
  <2>1. LastAnswers(Stream, sent, Awaited) /\ 1 \in 1 .. Len(Stream) /\ Stream[1].key = k
    BY <1>3, <1>4 DEF Inv, AnswerInv
  <2> QED BY <2>1, <1>4 DEF LastAnswers
<1> DEFINE m == 6
<1>11. m # 0 /\ Closes(Stream[m], sent) /\ \A i \in 1 .. m : Stream[i].key = k
  BY <1>4
<1>12. m = Len(got) + 1 /\ 1 \in 0 .. Len(queue)
  <2>1. Len(queue) >= 1 /\ Len(queue) \in Nat
    BY <1>1, Ahead, StreamTypes DEF WithNext
  <2> QED BY <2>1, <1>8
<1> HIDE DEF m
<1>13. a = Meaning(sent[k])
  BY <1>4, AnswerBytes
<1>14. /\ q \in Seq(Item) /\ IsRest(t, Stream, m) /\ Whole(t, sent) /\ (open => Latest(t, sent))
       /\ DoneBefore(Append(done, Did(k, a)), lost, t, sent)
  BY <1>1, <1>11, <1>12, <1>13, TakesKey
<1>15. NoneAnswers(t, sent)
  <2> DEFINE d == Append(done, Did(k, a))
             e == Did(k, a)
  <2>1. done \in Seq(Deed)
    BY <1>1 DEF DoneInv, DoneBefore, Deed
  <2>2. e.key = k
    BY DEF Did
  <2>k. k \in Nat
    <3>1. 1 \in 1 .. Len(Stream) /\ Whole(Stream, sent) /\ sent \in Seq(AllKeys) /\ Stream[1].key = k
      BY <1>1, <1>3, <1>4 DEF StreamInv, Types
    <3> QED BY <3>1, WholeTypes
  <2>e. e \in Deed
    BY <2>k DEF Did, Deed, What, AllKeys
  <2> HIDE DEF e
  <2>3. Len(done) + 1 \in 1 .. Len(d) /\ d[Len(done) + 1].key = k
    <3>1. Len(done) \in Nat /\ Len(d) = Len(done) + 1 /\ d[Len(done) + 1] = e
      BY <2>1, <2>e DEF e
    <3> QED BY <3>1, <2>2
  <2>4. DoneBefore(d, lost, t, sent)
    BY <1>14 DEF e
  <2> HIDE DEF d
  <2>5. \A j \in 1 .. Len(t) : k < t[j].key
    BY <2>3, <2>4 DEF DoneBefore
  <2>6. \A j \in 1 .. Len(t) : t[j].key \in DOMAIN sent /\ t[j].key \in Nat
    <3>1. sent \in Seq(AllKeys) /\ DOMAIN sent = 1 .. Len(sent)
      BY <1>1 DEF Types
    <3> QED BY <3>1, <1>14, WholeTypes
  <2> QED BY <2>5, <2>6, <2>k, <1>10 DEF NoneAnswers
<1> QED BY <1>4, <1>9, <1>10, <1>14, <1>15

LEMMA AnsweredStep ==
  ASSUME Inv, Asking, NEW read, WithNext(read), Head(queue).byte = "R" \/ Len(read) = AnswerRoom,
         NEW a \in Answers, IsAnswer(read, a), queue' = Tail(queue), UNCHANGED open, Parse(read)
  PROVE  Inv'
<1> DEFINE q == Tail(queue)
           t == <<>> \o q \o coming
           k == Stream[1].key
           n == Len(Bytes(sent[k]))
           d == Append(done, Did(k, a))
           c == IF IsAnswer(read, "atStart") THEN Start ELSE Margin
<1>1. FirstKey(k, n) /\ Behind(1, q, t) /\ Queued(q, t) /\ Types
  <2>1. Types /\ queue # <<>>
    BY DEF Inv, WithNext
  <2>2. Tail(queue) = SubSeq(queue, 2, Len(queue))
    BY <2>1, Ahead
  <2>3. 1 + 1 = 2
    OBVIOUS
  <2> QED BY <2>1, <2>2, <2>3 DEF FirstKey, Behind, Queued
<1>2. got' = <<>> /\ (IF at = "from" THEN AtStart(read, c) ELSE AtMargin(read, c))
  BY DEF Parse
<1> HIDE DEF q, t, k, n
<1>3. /\ a = Awaited /\ sent[k] = a /\ read[1].key = k /\ q \in Seq(Item)
      /\ Whole(t, sent) /\ (open => Latest(t, sent)) /\ NoneAnswers(t, sent)
      /\ DoneBefore(d, lost, t, sent)
  BY <1>1, Answered
<1>4. IsAnswer(read, "atStart") => a = "atStart"
  <2> DEFINE b == "atStart"
  <2>1. b \in Answers
    BY DEF Answers
  <2> HIDE DEF b
  <2>2. IsAnswer(read, b) => sent[k] = b
    BY <2>1, <1>1, Answered
  <2> QED BY <2>2, <1>3 DEF b
<1>5. sent \in Seq(AllKeys) /\ coming \in Seq(Item) /\ queue' = q /\ queue' \in Seq(Item) /\ got' \in Seq(Item)
  <2>1. queue' = q
    BY DEF q
  <2>2. got' \in Seq(Item)
    BY <1>2
  <2> QED BY <2>1, <2>2, <1>1, <1>3 DEF Types
<1>6. ASSUME UNCHANGED <<sent, coming>> PROVE Stream' = t
  BY <1>1, <1>2, <1>5, <1>6 DEF Stream, Queued
<1>7. ASSUME at = "from" PROVE Inv'
  <2>1. /\ from' = Start /\ column' = Margin /\ at' = "to" /\ done' = d /\ UNCHANGED <<sized, columns, lost, cut, open>>
        /\ (IF open THEN Sends("atMargin") ELSE UNCHANGED <<sent, coming>>)
    BY <1>2, <1>3, <1>4, <1>7 DEF AtStart, Ask, Does, Did, Awaited
  <2>2. ~sized
    BY DEF Inv, SizeInv
  <2> HIDE DEF d
  <2>3. Asking' /\ Awaited' = "atMargin" /\ ~Inside'
    BY <2>1 DEF Asking, Awaited, Inside
  <2>4. ReadInv' /\ SizeInv'
    <3>1. Len(got') = 0 /\ \A i \in 1 .. Len(got') : FALSE
      BY <1>2
    <3>2. ReadInv'
      BY <3>1, <2>1, <2>3, RoomForAnswers DEF ReadInv
    <3>3. SizeInv'
      BY <2>1, <2>2, <2>3 DEF SizeInv
    <3> QED BY <3>2, <3>3
  <2>5. CASE open
    <3> DEFINE b == "atMargin"
    <3>1. b \in Answers /\ Sends(b)
      BY <2>1, <2>5 DEF Answers
    <3> HIDE DEF b
    <3>2. /\ sent' \in Seq(AllKeys) /\ coming' \in Seq(Item)
          /\ Whole(Stream', sent') /\ Latest(Stream', sent') /\ DoneBefore(d, lost, Stream', sent')
          /\ LastAnswers(Stream', sent', b) /\ SomeAnswers(Stream', sent')
      <4>1. Whole(t, sent) /\ Latest(t, sent) /\ DoneBefore(d, lost, t, sent) /\ NoneAnswers(t, sent) /\ Queued(q, t)
        BY <1>1, <1>3, <2>5 DEF d
      <4> QED BY <4>1, <3>1, <1>2, <1>3, <1>5, AsksStep
    <3>3. StreamInv' /\ DoneInv' /\ AnswerInv'
      BY <3>2, <2>1, <2>3, <2>5 DEF StreamInv, DoneInv, AnswerInv, b
    <3>4. Types'
      BY <3>2, <1>5, <2>1 DEF Inv, Types
    <3> QED BY <3>3, <3>4, <2>4 DEF Inv
  <2>6. CASE ~open
    <3>1. Stream' = t /\ UNCHANGED <<sent, coming>> /\ coming = <<>>
      BY <2>1, <2>6, <1>6 DEF Inv, StreamInv
    <3>2. StreamInv' /\ DoneInv'
      BY <3>1, <2>1, <2>6, <1>3 DEF StreamInv, DoneInv, d
    <3>3. AnswerInv'
      BY <3>1, <2>1, <2>3, <2>6, <1>3 DEF AnswerInv, NoneAnswers, LastAnswers
    <3>4. Types'
      BY <3>1, <1>5, <2>1 DEF Inv, Types
    <3> QED BY <3>2, <3>3, <3>4, <2>4 DEF Inv
  <2> QED BY <2>5, <2>6
<1>8. ASSUME at = "to" PROVE Inv'
  <2>1. a = "atMargin" /\ c = Margin /\ AtMargin(read, Margin)
    BY <1>2, <1>3, <1>4, <1>8 DEF Awaited
  <2>2. /\ columns' = Margin /\ at' = "first" /\ done' = d /\ UNCHANGED <<sized, from, sent, coming, lost, cut, open>>
        /\ column' = IF Margin > from THEN column - Back(from, Margin) ELSE column
    BY <2>1, <1>3 DEF AtMargin, Does, Did
  <2> HIDE DEF d
  <2>3. Stream' = t
    BY <2>2, <1>6
  <2>4. open => WidthAsked'
    <3> SUFFICES ASSUME open PROVE WidthAsked'
      OBVIOUS
    <3>1. from = Start /\ column = Margin
      BY <1>8 DEF Inv, SizeInv
    <3>2. column' = Start
      BY <3>1, <2>2 DEF Back, Start, Margin
    <3> QED BY <3>2, <2>2 DEF WidthAsked
  <2>5. StreamInv' /\ DoneInv'
    <3>1. ~open => coming = <<>>
      BY DEF Inv, StreamInv
    <3> QED BY <3>1, <2>2, <2>3, <1>3 DEF StreamInv, DoneInv, d
  <2>6. ~Asking' /\ ~Inside'
    BY <2>2 DEF Asking, Inside
  <2>7. AnswerInv'
    BY <2>2, <2>3, <2>6, <1>3 DEF AnswerInv
  <2>8. Types' /\ ReadInv'
    BY <1>2, <1>5, <2>2, <2>6 DEF Inv, Types, ReadInv
  <2>9. SizeInv'
    BY <2>2, <2>4, <2>6 DEF SizeInv
  <2> QED BY <2>5, <2>7, <2>8, <2>9 DEF Inv
<1> QED BY <1>7, <1>8 DEF Asking

LEMMA ReadAnswerStep ==
  ASSUME Inv, ReadAnswer, ~cut'
  PROVE  Inv'
<1> DEFINE read == Append(got, Head(queue))
           n == 1
<1>1. /\ Asking /\ WithNext(read) /\ Types
      /\ IF Head(queue).byte = "R" \/ Len(read) = AnswerRoom
         THEN queue' = Tail(queue) /\ Parse(read) /\ UNCHANGED open
         ELSE Reads(at)
  BY DEF ReadAnswer, Asking, WithNext, Inv
<1>2. Prefix(read) /\ Len(read) = Len(got) + 1 /\ \A i \in 1 .. Len(got) : read[i] = got[i]
  BY <1>1, ReadMore
<1>3. Len(got) \in Nat /\ \A i \in 1 .. Len(got) : got[i].byte # "R"
  BY <1>1 DEF Types, Inv, ReadInv
<1>4. n \in 0 .. Len(queue) /\ Tail(queue) = SubSeq(queue, n + 1, Len(queue)) /\ Len(read) = Len(got) + n
  <2>1. Len(queue) >= 1 /\ Tail(queue) = SubSeq(queue, 2, Len(queue))
    BY <1>1, Ahead DEF WithNext
  <2>2. Len(queue) \in Nat /\ n + 1 = 2
    BY <1>1 DEF Types
  <2> QED BY <2>1, <2>2, <1>2
<1> HIDE DEF read, n
<1>5. ASSUME ~(Head(queue).byte = "R" \/ Len(read) = AnswerRoom) PROVE Inv'
  <2>1. Reads(at) /\ Head(queue).byte # "R" /\ Len(got) + 1 # AnswerRoom
    BY <1>1, <1>2, <1>5
  <2> QED BY <2>1, <1>1, AnswerGrows
<1>6. ASSUME Head(queue).byte = "R" \/ Len(read) = AnswerRoom PROVE Inv'
  <2>1. queue' = Tail(queue) /\ Parse(read) /\ UNCHANGED open /\ got' = <<>>
    BY <1>1, <1>6 DEF Parse
  <2>2. ASSUME NEW a \in Answers, IsAnswer(read, a) PROVE Inv'
    BY <2>1, <2>2, <1>1, <1>6, AnsweredStep
  <2>3. ASSUME \A a \in Answers : ~IsAnswer(read, a) PROVE Inv'
    <3>1. NoAnswer(read)
      BY <2>1, <2>3 DEF Parse
    <3>2. \A i \in 1 .. Len(read) : i # Len(read) => read[i].byte # "R"
      <4> TAKE i \in 1 .. Len(read)
      <4> HAVE i # Len(read)
      <4>1. i \in 1 .. Len(got)
        BY <1>2, <1>3
      <4> QED BY <4>1, <1>2, <1>3
    <3>3. Unanswered(read, n)
      BY <3>2, <2>3, <1>2, <1>4 DEF Unanswered
    <3>4. queue' = SubSeq(queue, n + 1, Len(queue))
      BY <2>1, <1>4
    <3> QED BY <3>1, <3>3, <3>4, <2>1, <1>1, NoAnswerStep
  <2> QED BY <2>2, <2>3
<1> QED BY <1>5, <1>6

LEMMA EndInAnswerStep ==
  ASSUME Inv, EndInAnswer, ~cut'
  PROVE  Inv'
<1> DEFINE n == 0
<1>1. Asking /\ Closed /\ UNCHANGED <<queue, open>> /\ Parse(got) /\ Types /\ StreamInv /\ got' = <<>>
  BY DEF EndInAnswer, Asking, Inv, Parse
<1>2. Stream = got /\ queue = <<>>
  BY <1>1, AtTheEnd
<1>3. /\ got \in Seq(Item) /\ Len(got) \in Nat /\ \A i \in 1 .. Len(got) : got[i].byte # "R"
  BY <1>1 DEF Types, Inv, ReadInv
<1>4. Prefix(got)
  BY <1>2, <1>3 DEF Prefix
<1>5. ASSUME NEW a \in Answers PROVE ~IsAnswer(got, a)
  <2> SUFFICES ASSUME IsAnswer(got, a) PROVE FALSE
    OBVIOUS
  <2> DEFINE k == Stream[1].key
             m == Len(Bytes(sent[k]))
  <2>1. FirstKey(k, m)
    BY DEF FirstKey
  <2> HIDE DEF k, m
  <2>2. 6 \in 1 .. Len(Stream) /\ \A i \in 1 .. 6 : Stream[i].byte = Bytes(a)[i]
    BY <2>1, <1>1, <1>4, AnswerHere
  <2>3. 6 \in 1 .. 6
    OBVIOUS
  <2>4. got[6].byte = "R" /\ 6 \in 1 .. Len(got)
    BY <2>2, <2>3, <1>2, AnswerBytes
  <2> QED BY <2>4, <1>3
<1>6. NoAnswer(got)
  BY <1>1, <1>5 DEF Parse
<1>7. n \in 0 .. Len(queue) /\ queue' = SubSeq(queue, n + 1, Len(queue)) /\ Len(got) = Len(got) + n
  BY <1>1, <1>2, <1>3
<1> HIDE DEF n
<1>8. Unanswered(got, n)
  BY <1>3, <1>4, <1>5, <1>7 DEF Unanswered
<1> QED BY <1>1, <1>6, <1>7, <1>8, NoAnswerStep

-----------------------------------------------------------------------------
(* The theorems.                                                           *)

\* Nothing is waited for, typed or read before the first line.
LEMMA InitInv ==
  ASSUME Init
  PROVE  Inv
<1>1. /\ sized \in BOOLEAN /\ sent = <<>> /\ coming = <<>> /\ queue = <<>> /\ got = <<>>
      /\ at = "given" /\ open = TRUE /\ done = <<>> /\ lost = {}
  BY DEF Init
<1>2. Stream = <<>>
  BY <1>1 DEF Stream
<1>3. Types
  BY <1>1 DEF Types
<1>4. Whole(<<>>, <<>>) /\ Latest(<<>>, <<>>) /\ NoneAnswers(<<>>, <<>>)
  BY DEF Whole, Latest, NoneAnswers
<1>5. DoneBefore(<<>>, {}, <<>>, <<>>)
  <2>1. KeysOf(<<>>) = {} /\ DOMAIN <<>> = {}
    BY DEF KeysOf
  <2> QED BY <2>1 DEF DoneBefore
<1> QED BY <1>1, <1>2, <1>3, <1>4, <1>5 DEF Inv, StreamInv, DoneInv, ReadInv, AnswerInv, SizeInv, Asking, Inside

\* Bytes of a key that were once separated remain so.
LEMMA CutStays ==
  ASSUME [Next]_vars, cut
  PROVE  cut'
<1> DEFINE Stays == cut'
<1>1. \A k \in Typed : Type(k) => Stays
  BY DEF Type
<1>2. \A n \in 1 .. Len(coming) : Arrive(n) => Stays
  BY DEF Arrive
<1>3. HangUp \/ NextLine => Stays
  BY DEF HangUp, NextLine
<1>4. Reader => Stays
  BY DEF Reader, First, Rest, Second, Third, Fourth, EndOfInput, EndInEscape, Reads, Ends
<1>5. \A bytes : Parse(bytes) => Stays
  BY DEF Parse, NoAnswer, AtStart, AtMargin
<1>6. ReadAnswer \/ EndInAnswer => Stays
  BY <1>5 DEF ReadAnswer, EndInAnswer, Reads
<1>7. UNCHANGED vars => Stays
  BY DEF vars
<1> QED BY <1>1, <1>2, <1>3, <1>4, <1>6, <1>7 DEF Next

LEMMA StutterInv ==
  ASSUME Inv, UNCHANGED vars
  PROVE  Inv'
<1>1. UNCHANGED <<sized, from, column, columns, sent, coming, queue, got, at, open, done, lost, cut>>
  BY DEF vars, width
<1>2. Stream' = Stream /\ Asking' = Asking /\ Inside' = Inside /\ Awaited' = Awaited
  BY <1>1 DEF Stream, Asking, Inside, Awaited
<1>3. Types' /\ StreamInv' /\ DoneInv'
  BY <1>1, <1>2 DEF Inv, Types, StreamInv, DoneInv
<1>4. ReadInv' /\ AnswerInv'
  BY <1>1, <1>2 DEF Inv, ReadInv, AnswerInv
<1>5. SizeInv'
  BY <1>1, <1>2 DEF Inv, SizeInv, WidthAsked, TypedKeys
<1> QED BY <1>3, <1>4, <1>5 DEF Inv

LEMMA StepInv ==
  ASSUME Inv, [Next]_vars, ~cut'
  PROVE  Inv'
<1>1. CASE \E k \in Typed : Type(k)
  BY <1>1, TypeStep
<1>2. CASE \E n \in 1 .. Len(coming) : Arrive(n)
  BY <1>2, ArriveStep
<1>3. CASE HangUp
  BY <1>3, HangUpStep
<1>4. CASE Reader
  <2>1. CASE First
    BY <2>1, FirstStep
  <2>2. CASE Rest
    BY <2>2, RestStep
  <2>3. CASE Second
    BY <2>3, SecondStep
  <2>4. CASE Third
    BY <2>4, ThirdStep
  <2>5. CASE Fourth
    BY <2>5, FourthStep
  <2>6. CASE EndOfInput
    BY <2>6, EndOfInputStep
  <2>7. CASE EndInEscape
    BY <2>7, EndInEscapeStep
  <2> QED BY <1>4, <2>1, <2>2, <2>3, <2>4, <2>5, <2>6, <2>7 DEF Reader
<1>5. CASE NextLine
  BY <1>5, NextLineStep
<1>6. CASE ReadAnswer
  BY <1>6, ReadAnswerStep
<1>7. CASE EndInAnswer
  BY <1>7, EndInAnswerStep
<1>8. CASE UNCHANGED vars
  BY <1>8, StutterInv
<1> QED BY <1>1, <1>2, <1>3, <1>4, <1>5, <1>6, <1>7, <1>8 DEF Next

(***************************************************************************)
(* As long as no call comes between the bytes of a key: what was read of a *)
(* key, what has arrived and what is on its way are the bytes of whole     *)
(* keys one after the other; the keys before them were done as they should *)
(* or dropped whole; a read inside a key has bytes that fit it; and an     *)
(* answer of the terminal is on its way exactly while it is waited for.    *)
(***************************************************************************)
THEOREM KeysInvariance == Spec => []IInv
<1>1. Init => IInv
  BY InitInv DEF IInv
<1>2. IInv /\ [Next]_vars => IInv'
  BY CutStays, StepInv DEF IInv
<1> QED BY <1>1, <1>2, PTL DEF Spec

\* Inside a key, or before the last byte of an answer, a byte of the same key
\* is queued or to come.
LEMMA BehindGot ==
  ASSUME Types, NEW i \in 1 .. Len(Stream), i > Len(got)
  PROVE  Stream[i].key \in KeysOf(coming) \cup KeysOf(queue)
<1>1. Len(got) \in Nat /\ Len(queue) \in Nat /\ Len(Stream) \in Nat
  BY StreamTypes
<1>2. (Len(got) < i /\ i <= Len(got) + Len(queue)) \/ Len(got) + Len(queue) < i
  BY <1>1
<1> QED BY <1>2, StreamKeys

LEMMA PartOfKey ==
  ASSUME Inv, Inside
  PROVE  got[1].key \in KeysOf(coming) \cup KeysOf(queue)
<1> DEFINE k == Stream[1].key
           n == Len(Bytes(sent[k]))
<1>1. FirstKey(k, n) /\ Types
  BY DEF FirstKey, Inv
<1>2. 1 \in 1 .. Len(got)
  BY DEF Inv, Types, ReadInv, Inside
<1>3. got[1].key = k
  <2>1. Stream[1] = got[1]
    BY <1>1, <1>2, StreamTypes
  <2> QED BY <2>1
<1> HIDE DEF k, n
<1>4. /\ Len(got) < n /\ Len(got) \in Nat /\ n \in 1 .. Len(Stream)
      /\ \A i \in 1 .. n : Stream[i].key = k
  <2>1. CASE at = "rest"
    <3>1. /\ Len(got) = 1 /\ n \in 2 .. 4 /\ n \in 1 .. Len(Stream) /\ \A i \in 1 .. n : Stream[i].key = k
      BY <2>1, <1>1, InCharacter
    <3> QED BY <3>1
  <2>2. CASE at \in {"second", "third", "fourth"}
    BY <2>2, <1>1, InSequence
  <2> QED BY <2>1, <2>2 DEF Inside
<1>5. n > Len(got) /\ n \in 1 .. n /\ n \in 1 .. Len(Stream)
  BY <1>4
<1>6. Stream[n].key \in KeysOf(coming) \cup KeysOf(queue)
  BY <1>1, <1>5, BehindGot
<1> QED BY <1>3, <1>4, <1>5, <1>6

LEMMA AnswerComes ==
  ASSUME Inv, Asking, open
  PROVE  \E k \in KeysOf(coming) \cup KeysOf(queue) : sent[k] \in Answers
<1> DEFINE s == Stream
<1>1. Types /\ Whole(s, sent) /\ sent \in Seq(AllKeys) /\ SomeAnswers(s, sent)
  BY DEF Inv, Types, StreamInv, AnswerInv
<1>2. /\ \A i \in 1 .. Len(got) : got[i].byte # "R" /\ s[i] = got[i]
      /\ Len(got) \in Nat
  BY <1>1, StreamTypes DEF Inv, ReadInv
<1> HIDE DEF s
<1>3. PICK j \in 1 .. Len(s) : sent[s[j].key] \in Answers
  BY <1>1 DEF SomeAnswers
<1>4. PICK p \in 1 .. j : s[p].nth = 1 /\ s[p].key = s[j].key
  BY <1>1, Begins
<1> DEFINE x == s[j].key
           c == 6
<1>5. p \in 1 .. Len(s) /\ Starts(s, sent, p, x, c)
  <2>1. Len(Bytes(sent[x])) = 6
    BY <1>3, AnswerBytes
  <2> QED BY <2>1, <1>3, <1>4 DEF Starts
<1>6. c = 6 /\ c \in 1 .. c /\ sent[x] \in Answers
  BY <1>3
<1> HIDE DEF c, x
<1>7. p + c - 1 \in 1 .. Len(s) /\ s[p + c - 1].key = x /\ s[p + c - 1].byte = "R"
  <2>1. p + c - 1 \in 1 .. Len(s)
        /\ \A i \in 1 .. c : s[p + i - 1].key = x /\ s[p + i - 1].byte = Bytes(sent[x])[i]
    BY <1>1, <1>5, Run
  <2>2. s[p + c - 1].key = x /\ s[p + c - 1].byte = Bytes(sent[x])[c]
    BY <2>1, <1>6
  <2> QED BY <2>1, <2>2, <1>6, AnswerBytes
<1>8. ~(p + c - 1 \in 1 .. Len(got))
  <2> SUFFICES ASSUME p + c - 1 \in 1 .. Len(got) PROVE FALSE
    OBVIOUS
  <2> DEFINE y == p + c - 1
  <2>1. y \in 1 .. Len(got) /\ s[y].byte = "R"
    BY <1>7
  <2> HIDE DEF y
  <2> QED BY <2>1, <1>2
<1> DEFINE y == p + c - 1
<1>9. y \in 1 .. Len(Stream) /\ y > Len(got) /\ Stream[y].key = x
  BY <1>2, <1>7, <1>8 DEF s
<1> HIDE DEF y
<1>10. x \in KeysOf(coming) \cup KeysOf(queue)
  BY <1>1, <1>9, BehindGot
<1> QED BY <1>6, <1>10

(***************************************************************************)
(* However the bytes arrive, unless a call comes between the bytes of a    *)
(* key: each key does what it is for, in the order typed, and no key but   *)
(* those dropped between two lines is left out.                            *)
(***************************************************************************)
THEOREM KeysAreDecoded == Spec => []KeysDecoded
<1>1. Inv => KeysDecoded
  <2> SUFFICES ASSUME Inv PROVE KeysDecoded
    OBVIOUS
  <2>1. DoneBefore(done, lost, Stream, sent) /\ DOMAIN done = 1 .. Len(done)
    BY DEF Inv, DoneInv, DoneBefore
  <2>2. /\ \A i \in DOMAIN done : done[i].what = Meaning(sent[done[i].key])
        /\ \A i, j \in DOMAIN done : i < j => done[i].key < done[j].key
    BY <2>1 DEF DoneBefore
  <2>3. ASSUME coming = <<>>, queue = <<>>, got = <<>>
        PROVE  DOMAIN sent = lost \cup {done[i].key : i \in DOMAIN done}
    <3>1. Stream = <<>>
      BY <2>3 DEF Stream
    <3>2. KeysOf(Stream) = {}
      BY <3>1 DEF KeysOf
    <3>3. DOMAIN sent = lost \cup KeysOf(Stream) \cup KeysOf(done)
      BY <2>1 DEF DoneBefore
    <3> QED BY <3>2, <3>3 DEF KeysOf
  <2> QED BY <2>2, <2>3 DEF KeysDecoded
<1>2. IInv => KeysDecoded
  BY <1>1 DEF IInv, KeysDecoded
<1> QED BY <1>2, KeysInvariance, PTL

(***************************************************************************)
(* A read inside a character, an escape sequence or an answer never waits  *)
(* for bytes that were not sent.                                           *)
(***************************************************************************)
THEOREM WaitsOnlyForItsBytes == Spec => []WaitsForItsBytes
<1>1. IInv => WaitsForItsBytes
  <2> SUFFICES ASSUME IInv, ~cut, open PROVE WaitsForItsBytes
    BY DEF WaitsForItsBytes
  <2>1. at \in {"rest", "second", "third", "fourth"} => got[1].key \in KeysOf(coming) \cup KeysOf(queue)
    BY PartOfKey DEF IInv, Inside
  <2>2. at \in {"from", "to"} => \E k \in KeysOf(coming) \cup KeysOf(queue) : sent[k] \in Answers
    BY AnswerComes DEF IInv, Asking
  <2> QED BY <2>1, <2>2 DEF WaitsForItsBytes
<1> QED BY <1>1, KeysInvariance, PTL

(***************************************************************************)
(* A line is edited with the columns the terminal has and begins where the *)
(* last command left the cursor, unless a key came between a question and  *)
(* its answer or the terminal was closed.                                  *)
(***************************************************************************)
THEOREM WidthIsAsked == Spec => []WidthAsked
<1>1. IInv => WidthAsked
  <2>1. Inv => WidthAsked
    BY DEF Inv, SizeInv, WidthAsked, Asking
  <2>2. cut => WidthAsked
    BY DEF WidthAsked
  <2> QED BY <2>1, <2>2 DEF IInv
<1> QED BY <1>1, KeysInvariance, PTL
=============================================================================
