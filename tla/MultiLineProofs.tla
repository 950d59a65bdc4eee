-------------------------- MODULE MultiLineProofs --------------------------
(***************************************************************************)
(* What refreshMultiLine leaves on the terminal, for every width, prompt   *)
(* and text.  The two folds over a text, Exec of the terminal and the      *)
(* count of columns, are related character by character (Agrees); what is  *)
(* written to clear a line and to put the cursor back is run on a screen   *)
(* that is known only up to that relation.                                 *)
(***************************************************************************)
EXTENDS MultiLine, SequenceTheorems, WellFoundedInduction, TLAPS

-----------------------------------------------------------------------------
(* Induction, of a set of numbers.                                         *)

LEMMA UpTo ==
  ASSUME NEW n \in Nat, NEW P, 0 \in P, \A k \in 0 .. n : k < n /\ k \in P => k + 1 \in P
  PROVE  \A k \in 0 .. n : k \in P
<1> DEFINE S == {k \in 0 .. n : k \notin P}
<1>1. SUFFICES ASSUME S # {}
               PROVE  FALSE
  OBVIOUS
<1>2. S \subseteq Nat
  OBVIOUS
<1>3. PICK m \in S : \A k \in S : ~(<<k, m>> \in OpToRel(<, Nat))
  <2> HIDE DEF S
  <2> QED BY <1>1, <1>2, WFMin, NatLessThanWellFounded
<1>4. \A k \in S : ~(k < m)
  BY <1>2, <1>3 DEF OpToRel
<1>5. m \in 0 .. n /\ m \notin P /\ m # 0
  OBVIOUS
<1>6. m - 1 \in 0 .. n /\ m - 1 < m /\ m - 1 < n /\ (m - 1) + 1 = m
  BY <1>5
<1>7. m - 1 \in P
  BY <1>4, <1>6
<1> QED BY <1>5, <1>6, <1>7

-----------------------------------------------------------------------------
(* What the terminal makes of a sequence of characters and escape          *)
(* sequences: each one in turn.                                            *)

LEMMA Largest ==
  ASSUME NEW n \in Nat, NEW S \in SUBSET (1 .. n), n \in S
  PROVE  Max(S) = n
<1>1. \A y \in S : n >= y /\ y \in Int
  OBVIOUS
<1>2. \A x \in S : (\A y \in S : x >= y) => x = n
  BY <1>1
<1> QED BY <1>1, <1>2 DEF Max

\* One more character, of the output or of the columns counted.
Does(op, s, x) == IF op = "write" THEN Exec(s, x) ELSE Advanced(s, x)

Fold(op, s, q) == IF op = "write" THEN FoldLeft(Exec, s, q) ELSE FoldLeft(Advanced, s, q)

Folds(op, f, s, q, n) ==
  f = [S \in SUBSET (1 .. n) |-> IF S = {} THEN s ELSE Does(op, f[S \ {Max(S)}], q[Max(S)])]

LEMMA FoldsExist ==
  ASSUME NEW op, NEW s, NEW q, NEW n \in Nat
  PROVE  \E f : Folds(op, f, s, q, n)
<1> DEFINE P == {k \in Nat : \E f : Folds(op, f, s, q, k)}
<1>1. 0 \in P
  <2> DEFINE f == [S \in SUBSET (1 .. 0) |-> s]
  <2>1. \A S \in SUBSET (1 .. 0) : S = {}
    OBVIOUS
  <2>2. Folds(op, f, s, q, 0)
    BY <2>1 DEF Folds
  <2> QED BY <2>2
<1>2. ASSUME NEW k \in 0 .. n, k < n, k \in P
      PROVE  k + 1 \in P
  <2>1. PICK f : Folds(op, f, s, q, k)
    BY <1>2
  <2> DEFINE g == [S \in SUBSET (1 .. k + 1) |->
                     IF k + 1 \in S THEN Does(op, f[S \ {k + 1}], q[k + 1]) ELSE f[S]]
  <2>2. k + 1 \in Nat
    OBVIOUS
  <2>3. ASSUME NEW S \in SUBSET (1 .. k + 1), k + 1 \in S
        PROVE  g[S] = Does(op, g[S \ {Max(S)}], q[Max(S)])
    <3>1. Max(S) = k + 1
      BY <2>2, <2>3, Largest
    <3>2. S \ {k + 1} \in SUBSET (1 .. k + 1) /\ k + 1 \notin S \ {k + 1}
      BY <2>3
    <3>3. g[S \ {k + 1}] = f[S \ {k + 1}]
      BY <3>2
    <3>4. g[S] = Does(op, f[S \ {k + 1}], q[k + 1])
      BY <2>3
    <3> HIDE DEF g
    <3> QED BY <3>1, <3>3, <3>4
  <2>4. ASSUME NEW S \in SUBSET (1 .. k + 1), k + 1 \notin S
        PROVE  S \in SUBSET (1 .. k) /\ g[S] = f[S]
    BY <2>4
  <2>5. ASSUME NEW S \in SUBSET (1 .. k + 1), k + 1 \notin S
        PROVE  g[S] = IF S = {} THEN s ELSE Does(op, g[S \ {Max(S)}], q[Max(S)])
    <3>1. S \in SUBSET (1 .. k) /\ S \ {Max(S)} \in SUBSET (1 .. k + 1)
          /\ k + 1 \notin S \ {Max(S)}
      BY <2>4, <2>5
    <3>2. g[S] = f[S] /\ g[S \ {Max(S)}] = f[S \ {Max(S)}]
      BY <2>4, <2>5, <3>1
    <3>3. f[S] = IF S = {} THEN s ELSE Does(op, f[S \ {Max(S)}], q[Max(S)])
      BY <2>1, <3>1 DEF Folds
    <3> HIDE DEF g
    <3> QED BY <3>2, <3>3
  <2>6. \A S \in SUBSET (1 .. k + 1) :
          g[S] = IF S = {} THEN s ELSE Does(op, g[S \ {Max(S)}], q[Max(S)])
    <3> HIDE DEF g
    <3> QED BY <2>3, <2>5
  <2>7. g = [S \in SUBSET (1 .. k + 1) |-> g[S]]
    OBVIOUS
  <2>8. Folds(op, g, s, q, k + 1)
    <3> HIDE DEF g
    <3> QED BY <2>6, <2>7 DEF Folds
  <2> QED BY <2>2, <2>8
<1>3. n \in P
  <2> HIDE DEF P
  <2>1. n \in 0 .. n
    OBVIOUS
  <2> QED BY <1>1, <1>2, <2>1, UpTo
<1> QED BY <1>3

ExecFolds(f, s, q, n) ==
  f = [S \in SUBSET (1 .. n) |-> IF S = {} THEN s ELSE Exec(f[S \ {Max(S)}], q[Max(S)])]

AdvancedFolds(f, s, q, n) ==
  f = [S \in SUBSET (1 .. n) |-> IF S = {} THEN s ELSE Advanced(f[S \ {Max(S)}], q[Max(S)])]

Folded(op, s, q, n) ==
  IF op = "write" THEN CHOOSE f : ExecFolds(f, s, q, n) ELSE CHOOSE f : AdvancedFolds(f, s, q, n)

LEMMA FoldIs ==
  ASSUME NEW op, NEW s, NEW q, NEW n \in Nat, DOMAIN q = 1 .. n
  PROVE  Fold(op, s, q) = Folded(op, s, q, n)[1 .. n]
<1>1. FoldLeft(Exec, s, q) = (CHOOSE f : ExecFolds(f, s, q, n))[1 .. n]
  BY DEF FoldLeft, MapThenFoldSet, ExecFolds
<1>2. FoldLeft(Advanced, s, q) = (CHOOSE f : AdvancedFolds(f, s, q, n))[1 .. n]
  BY DEF FoldLeft, MapThenFoldSet, AdvancedFolds
<1> QED BY <1>1, <1>2 DEF Fold, Folded

LEMMA FoldedFolds ==
  ASSUME NEW op, NEW s, NEW q, NEW n \in Nat
  PROVE  Folds(op, Folded(op, s, q, n), s, q, n)
<1>1. PICK f : Folds(op, f, s, q, n)
  BY FoldsExist
<1>2. CASE op = "write"
  <2>1. \A g : Folds(op, g, s, q, n) <=> ExecFolds(g, s, q, n)
    BY <1>2 DEF Folds, ExecFolds, Does
  <2> QED BY <1>1, <1>2, <2>1 DEF Folded
<1>3. CASE op # "write"
  <2>1. \A g : Folds(op, g, s, q, n) <=> AdvancedFolds(g, s, q, n)
    BY <1>3 DEF Folds, AdvancedFolds, Does
  <2> QED BY <1>1, <1>3, <2>1 DEF Folded
<1> QED BY <1>2, <1>3

\* The states of the terminal on the way.
Follows(op, h, s, q, n) == h[0] = s /\ \A k \in 1 .. n : h[k] = Does(op, h[k - 1], q[k])
Trace(op, h, s, q) == Follows(op, h, s, q, Len(q))

LEMMA FoldTrace ==
  ASSUME NEW op, NEW s, NEW T, NEW q \in Seq(T)
  PROVE  \E h : Trace(op, h, s, q) /\ Fold(op, s, q) = h[Len(q)]
<1> DEFINE n == Len(q)
<1>1. n \in Nat /\ DOMAIN q = 1 .. n
  BY LenProperties
<1> HIDE DEF n
<1> DEFINE f == Folded(op, s, q, n)
<1>2. Folds(op, f, s, q, n)
  BY <1>1, FoldedFolds
<1>3. Fold(op, s, q) = f[1 .. n]
  BY <1>1, FoldIs
<1> HIDE DEF f
<1> DEFINE h == [k \in 0 .. n |-> f[1 .. k]]
<1>4. h[0] = s
  <2>1. 1 .. 0 = {} /\ 0 \in 0 .. n /\ {} \in SUBSET (1 .. n)
    BY <1>1
  <2> QED BY <1>2, <2>1 DEF Folds
<1>5. ASSUME NEW k \in 1 .. n
      PROVE  h[k] = Does(op, h[k - 1], q[k])
  <2>0. k \in Nat /\ k <= n /\ k \in 1 .. k /\ k \in 0 .. n /\ k - 1 \in 0 .. n
    BY <1>1
  <2>1. 1 .. k # {} /\ 1 .. k \in SUBSET (1 .. n) /\ (1 .. k) \ {k} = 1 .. k - 1
    <3>1. \A x : x \in (1 .. k) \ {k} <=> x \in 1 .. k - 1
      BY <2>0
    <3>2. \A x \in 1 .. k : x \in 1 .. n
      BY <1>1, <2>0
    <3> QED BY <2>0, <3>1, <3>2
  <2>2. Max(1 .. k) = k
    BY <2>0, Largest
  <2>3. f[1 .. k] = Does(op, f[(1 .. k) \ {k}], q[k])
    BY <1>2, <2>1, <2>2 DEF Folds
  <2> QED BY <2>0, <2>1, <2>3
<1>6. h[n] = f[1 .. n]
  BY <1>1
<1> HIDE DEF h
<1>7. Trace(op, h, s, q) /\ Fold(op, s, q) = h[Len(q)]
  BY <1>3, <1>4, <1>5, <1>6 DEF Trace, Follows, n
<1> QED BY <1>7

LEMMA TraceUnique ==
  ASSUME NEW op, NEW s, NEW q, Len(q) \in Nat, NEW h, Trace(op, h, s, q), NEW n \in 0 .. Len(q),
         NEW g, Follows(op, g, s, q, n)
  PROVE  g[n] = h[n]
<1> DEFINE P == {k \in Nat : g[k] = h[k]}
<1>1. 0 \in P
  BY DEF Trace, Follows
<1>2. ASSUME NEW k \in 0 .. n, k < n, k \in P
      PROVE  k + 1 \in P
  <2>1. k + 1 \in 1 .. n /\ k + 1 \in 1 .. Len(q) /\ (k + 1) - 1 = k /\ k + 1 \in Nat
    BY <1>2
  <2>2. g[k + 1] = Does(op, g[k], q[k + 1]) /\ h[k + 1] = Does(op, h[k], q[k + 1])
    BY <2>1 DEF Trace, Follows
  <2> QED BY <1>2, <2>1, <2>2
<1>3. n \in P
  <2> HIDE DEF P
  <2>1. n \in Nat /\ n \in 0 .. n
    OBVIOUS
  <2> QED BY <1>1, <1>2, <2>1, UpTo
<1> QED BY <1>3

LEMMA FoldNothing ==
  ASSUME NEW op, NEW s
  PROVE  Fold(op, s, <<>>) = s
<1>1. <<>> \in Seq({}) /\ Len(<<>>) = 0
  OBVIOUS
<1>2. PICK h : Trace(op, h, s, <<>>) /\ Fold(op, s, <<>>) = h[0]
  BY <1>1, FoldTrace
<1> QED BY <1>2 DEF Trace, Follows

LEMMA FoldJoined ==
  ASSUME NEW op, NEW s, NEW T, NEW q \in Seq(T), NEW r \in Seq(T)
  PROVE  Fold(op, s, q \o r) = Fold(op, Fold(op, s, q), r)
<1> DEFINE m == Len(q)
           n == Len(r)
           j == q \o r
<1>1. /\ m \in Nat /\ n \in Nat /\ j \in Seq(T) /\ Len(j) = m + n
      /\ \A i \in 1 .. m : j[i] = q[i]
      /\ \A i \in 1 .. n : j[m + i] = r[i]
  <2>1. /\ m \in Nat /\ n \in Nat /\ j \in Seq(T) /\ Len(j) = m + n
        /\ \A i \in 1 .. m + n : j[i] = IF i <= m THEN q[i] ELSE r[i - m]
    BY ConcatProperties, LenProperties
  <2> HIDE DEF m, n, j
  <2>2. \A i \in 1 .. n : m + i \in 1 .. m + n /\ ~(m + i <= m) /\ (m + i) - m = i
    BY <2>1
  <2> QED BY <2>1, <2>2
<1>0. Len(q) = m /\ Len(r) = n
  OBVIOUS
<1> HIDE DEF m, n, j
<1>2. PICK h : Trace(op, h, s, j) /\ Fold(op, s, j) = h[Len(j)]
  <2>1. j \in Seq(T)
    BY <1>1
  <2>2. \E h : Trace(op, h, s, j) /\ Fold(op, s, j) = h[Len(j)]
    BY <2>1, FoldTrace, ZenonT(60)
  <2> QED BY <2>2
<1>3. PICK f : Trace(op, f, s, q) /\ Fold(op, s, q) = f[m]
  BY <1>0, FoldTrace
<1>4. PICK g : Trace(op, g, f[m], r) /\ Fold(op, f[m], r) = g[n]
  BY <1>0, FoldTrace
<1>5. h[m] = f[m]
  <2>1. Follows(op, h, s, q, m) /\ m \in 0 .. m
    <3>1. \A k \in 1 .. m : k \in 1 .. Len(j)
      BY <1>1
    <3> QED BY <1>1, <1>2, <3>1 DEF Trace, Follows
  <2> QED BY <1>0, <1>1, <1>3, <2>1, TraceUnique, SMTT(60)
<1> DEFINE e == [k \in 0 .. n |-> h[m + k]]
<1>6. e[0] = f[m] /\ e[n] = h[m + n]
  BY <1>1, <1>5
<1>7. \A k \in 1 .. n : e[k] = Does(op, e[k - 1], r[k])
  <2> TAKE k \in 1 .. n
  <2>1. m + k \in 1 .. Len(j) /\ k \in 0 .. n /\ k - 1 \in 0 .. n /\ (m + k) - 1 = m + (k - 1)
    BY <1>1
  <2>2. h[m + k] = Does(op, h[m + (k - 1)], j[m + k])
    BY <1>2, <2>1 DEF Trace, Follows
  <2>3. j[m + k] = r[k]
    BY <1>1
  <2> QED BY <2>1, <2>2, <2>3
<1> HIDE DEF e
<1>8. e[n] = g[n]
  <2>1. Follows(op, e, f[m], r, n) /\ n \in 0 .. n
    BY <1>1, <1>6, <1>7 DEF Follows
  <2> QED BY <1>0, <1>1, <1>4, <2>1, TraceUnique
<1> QED BY <1>1, <1>2, <1>3, <1>4, <1>6, <1>8 DEF j

LEMMA FoldOne ==
  ASSUME NEW op, NEW s, NEW x
  PROVE  Fold(op, s, <<x>>) = Does(op, s, x)
<1>1. <<x>> \in Seq({x}) /\ Len(<<x>>) = 1 /\ <<x>>[1] = x
  OBVIOUS
<1>2. PICK h : Trace(op, h, s, <<x>>) /\ Fold(op, s, <<x>>) = h[1]
  BY <1>1, FoldTrace
<1>3. h[1] = Does(op, h[0], x) /\ h[0] = s
  BY <1>1, <1>2 DEF Trace, Follows
<1> QED BY <1>2, <1>3
-----------------------------------------------------------------------------
(* Escape sequences.                                                       *)

Op ==
  [op : {"up", "down", "right"}, n : Nat] \cup [op : {"return", "feed", "erase"}]
  \cup [op : {"put"}, c : Char]

\* (Names for two values, not formulas, in what the provers see.)
On  == TRUE
Off == FALSE

Scr(f, r, c, p) == [cells |-> f, row |-> r, col |-> c, pending |-> p]

With(s, a, b, d) == [s EXCEPT !.row = a, !.col = b, !.pending = d]

LEMMA WithIs ==
  ASSUME NEW f, NEW r, NEW c, NEW p, NEW a, NEW b, NEW d
  PROVE  With(Scr(f, r, c, p), a, b, d) = Scr(f, a, b, d)
<1>1. With(Scr(f, r, c, p), a, b, d) =
        [[[Scr(f, r, c, p) EXCEPT !.row = a] EXCEPT !.col = b] EXCEPT !.pending = d]
  BY DEF With
<1>2. [Scr(f, r, c, p) EXCEPT !.row = a] = Scr(f, a, c, p)
  BY DEF Scr
<1>3. [Scr(f, a, c, p) EXCEPT !.col = b] = Scr(f, a, b, p)
  BY DEF Scr
<1>4. [Scr(f, a, b, p) EXCEPT !.pending = d] = Scr(f, a, b, d)
  BY DEF Scr
<1> QED BY <1>1, <1>2, <1>3, <1>4

LEMMA MovedIs ==
  ASSUME NEW f, NEW r, NEW c, NEW p, NEW a, NEW b
  PROVE  Moved(Scr(f, r, c, p), a, b) = Scr(f, a, b, Off)
<1>1. Moved(Scr(f, r, c, p), a, b) = With(Scr(f, r, c, p), a, b, Off)
  BY Zenon DEF Moved, With, Off
<1> QED BY <1>1, WithIs

LEMMA Down1Is ==
  ASSUME NEW f, NEW r, NEW c, NEW p
  PROVE  Down1(Scr(f, r, c, p)) = Scr(f, r + 1, 0, Off)
<1>1. Down1(Scr(f, r, c, p)) = With(Scr(f, r, c, p), Scr(f, r, c, p).row + 1, 0, Off)
  BY Zenon DEF Down1, With, Off
<1>2. Scr(f, r, c, p).row = r
  BY DEF Scr
<1> QED BY <1>1, <1>2, WithIs

UpBy(n)    == [op |-> "up", n |-> n]
DownBy(n)  == [op |-> "down", n |-> n]
RightBy(n) == [op |-> "right", n |-> n]
Erase      == [op |-> "erase"]

\* What is left of the cells f when columns from c on are erased in row r.
Erased(f, r, c) == [x \in Cell |-> IF x[1] = r /\ x[2] >= c THEN " " ELSE f[x]]

\* The row k above r, or the first.
Floor(r, k) == IF r < k THEN 0 ELSE r - k

LEMMA Escapes ==
  ASSUME NEW f, NEW r, NEW c, NEW p, NEW n
  PROVE  /\ Exec(Scr(f, r, c, p), Return) = Scr(f, r, 0, Off)
         /\ Exec(Scr(f, r, c, p), Feed) = Scr(f, r + 1, 0, Off)
         /\ Exec(Scr(f, r, c, p), Erase) = Scr(Erased(f, r, c), r, c, p)
         /\ Exec(Scr(f, r, c, p), DownBy(n)) = Scr(f, Lesser(r + n, Rows - 1), c, Off)
         /\ Exec(Scr(f, r, c, p), RightBy(n)) = Scr(f, r, Lesser(c + n, Columns - 1), Off)
<1> DEFINE s == Scr(f, r, c, p)
<1>1. s.cells = f /\ s.row = r /\ s.col = c /\ s.pending = p
  BY DEF Scr
<1>2. ASSUME NEW g
      PROVE  [s EXCEPT !.cells = g] = Scr(g, r, c, p)
  BY DEF Scr
<1> HIDE DEF s
<1>3. Exec(s, Return) = Moved(s, r, 0)
  BY <1>1 DEF Exec, Return
<1>4. Exec(s, Feed) = Down1(s)
  BY DEF Exec, Feed
<1>5. Exec(s, Erase) = [s EXCEPT !.cells = Erased(f, r, c)]
  BY <1>1 DEF Exec, Erase, Erased
<1>7. Exec(s, DownBy(n)) = Moved(s, Lesser(r + n, Rows - 1), c)
  BY <1>1 DEF Exec, DownBy
<1>8. Exec(s, RightBy(n)) = Moved(s, r, Lesser(c + n, Columns - 1))
  BY <1>1 DEF Exec, RightBy
<1> QED BY <1>2, <1>3, <1>4, <1>5, <1>7, <1>8, MovedIs, Down1Is DEF s

LEMMA GoesUp ==
  ASSUME NEW f, NEW r, NEW c, NEW p, NEW n
  PROVE  Exec(Scr(f, r, c, p), UpBy(n)) = Scr(f, Floor(r, n), c, Off)
<1> DEFINE s == Scr(f, r, c, p)
<1>1. s.row = r /\ s.col = c
  BY DEF Scr
<1> HIDE DEF s
<1>2. Exec(s, UpBy(n)) = Moved(s, Floor(r, n), c)
  BY <1>1 DEF Exec, UpBy, Floor
<1> QED BY <1>2, MovedIs DEF s

LEMMA Ops ==
  ASSUME NEW n \in Nat
  PROVE  /\ UpBy(n) \in Op /\ DownBy(n) \in Op /\ RightBy(n) \in Op
         /\ Return \in Op /\ Feed \in Op /\ Erase \in Op
BY DEF Op, Return, Feed, UpBy, DownBy, RightBy, Erase

LEMMA Single ==
  ASSUME NEW x \in Op
  PROVE  <<x>> \in Seq(Op)
OBVIOUS

LEMMA Writes ==
  ASSUME NEW s, NEW x
  PROVE  Fold("write", s, <<x>>) = Exec(s, x)
BY FoldOne DEF Does


\* After q the terminal shows g, with the cursor in row i and column j.
Leads(s, q, g, i, j) == \E d : Fold("write", s, q) = Scr(g, i, j, d)

LEMMA UpRuns ==
  ASSUME NEW f, NEW r \in Nat, NEW c, NEW n \in Nat, NEW p
  PROVE  /\ Up(n) \in Seq(Op)
         /\ Leads(Scr(f, r, c, p), Up(n), f, Floor(r, n), c)
<1>1. CASE n = 0
  <2>1. Up(n) = <<>> /\ Floor(r, n) = r
    BY <1>1 DEF Up, Floor
  <2> QED BY <2>1, FoldNothing DEF Leads
<1>2. CASE n > 0
  <2>1. Up(n) = <<UpBy(n)>>
    BY <1>2 DEF Up, UpBy
  <2>2. Fold("write", Scr(f, r, c, p), Up(n)) = Exec(Scr(f, r, c, p), UpBy(n))
    BY <2>1, Writes
  <2>3. Exec(Scr(f, r, c, p), UpBy(n)) = Scr(f, Floor(r, n), c, Off)
    BY GoesUp
  <2>4. Up(n) \in Seq(Op)
    BY <2>1, Ops, Single
  <2> QED BY <2>2, <2>3, <2>4 DEF Leads
<1> QED BY <1>1, <1>2

LEMMA DownRuns ==
  ASSUME NEW f, NEW r, NEW c, NEW n \in Int, NEW p
  PROVE  /\ Down(n) \in Seq(Op)
         /\ Leads(Scr(f, r, c, p), Down(n), f, IF n > 0 THEN Lesser(r + n, Rows - 1) ELSE r, c)
<1>1. CASE ~(n > 0)
  <2>1. Down(n) = <<>>
    BY <1>1 DEF Down
  <2> QED BY <1>1, <2>1, FoldNothing DEF Leads
<1>2. CASE n > 0
  <2>1. Down(n) = <<DownBy(n)>>
    BY <1>2 DEF Down, DownBy
  <2>2. Fold("write", Scr(f, r, c, p), Down(n)) = Exec(Scr(f, r, c, p), DownBy(n))
    BY <2>1, Writes
  <2>3. Exec(Scr(f, r, c, p), DownBy(n)) = Scr(f, Lesser(r + n, Rows - 1), c, Off)
    BY Escapes
  <2>4. Down(n) \in Seq(Op)
    BY <1>2, <2>1, Ops, Single
  <2> QED BY <1>2, <2>2, <2>3, <2>4 DEF Leads
<1> QED BY <1>1, <1>2

LEMMA RightRuns ==
  ASSUME NEW f, NEW r, NEW n \in 0 .. Columns - 1
  PROVE  /\ Right(n) \in Seq(Op)
         /\ Fold("write", Scr(f, r, 0, Off), Right(n)) = Scr(f, r, n, Off)
<1>1. CASE n = 0
  BY <1>1, FoldNothing DEF Right
<1>2. CASE n > 0
  <2>1. Right(n) = <<RightBy(n)>>
    BY <1>2 DEF Right, RightBy
  <2>2. Lesser(0 + n, Columns - 1) = n
    BY VtAssumption DEF Lesser
  <2> QED BY <2>1, <2>2, Writes, Escapes, Ops
<1> QED BY <1>1, <1>2

LEMMA CellIs ==
  ASSUME NEW x \in Cell
  PROVE  x[1] \in Nat /\ x[2] \in Nat /\ x[1] < Rows /\ x[2] < Columns /\ x = <<x[1], x[2]>>
BY VtAssumption DEF Cell

Blanked(f, r) == [x \in Cell |-> IF x[1] = r THEN " " ELSE f[x]]

LEMMA Pair ==
  ASSUME NEW T, NEW x \in T, NEW y \in T
  PROVE  <<x>> \o <<y>> = <<x, y>>
<1> DEFINE a == <<x>>
           b == <<y>>
           c == <<x, y>>
<1>1. a \in Seq(T) /\ b \in Seq(T)
  OBVIOUS
<1>2. c \in Seq(T) /\ Len(a) = 1 /\ Len(b) = 1 /\ Len(c) = 2
  OBVIOUS
<1>3. a[1] = x /\ b[1] = y /\ c[1] = x /\ c[2] = y
  OBVIOUS
<1> HIDE DEF a, b, c
<1>4. /\ a \o b \in Seq(T)
      /\ Len(a \o b) = Len(a) + Len(b)
      /\ \A i \in 1 .. Len(a) + Len(b) :
           (a \o b)[i] = IF i <= Len(a) THEN a[i] ELSE b[i - Len(a)]
  BY <1>1, ConcatProperties
<1>5. Len(a \o b) = 2 /\ a \o b \in Seq(T)
  BY <1>2, <1>4
<1>6. (a \o b)[1] = c[1]
  BY <1>2, <1>3, <1>4
<1>7. (a \o b)[2] = c[2]
  <2>1. 2 \in 1 .. Len(a) + Len(b) /\ ~(2 <= Len(a)) /\ 2 - Len(a) = 1
    BY <1>2
  <2> QED BY <1>3, <1>4, <2>1
<1>8. \A i \in 1 .. 2 : (a \o b)[i] = c[i]
  <2>1. \A i \in 1 .. 2 : i = 1 \/ i = 2
    OBVIOUS
  <2> QED BY <1>6, <1>7, <2>1
<1>9. a \o b = c
  BY <1>2, <1>5, <1>8, SeqEqual
<1> QED BY <1>9 DEF a, b, c

LEMMA EraseRowRuns ==
  ASSUME NEW f, NEW r, NEW c, NEW p
  PROVE  /\ EraseRow \in Seq(Op)
         /\ Fold("write", Scr(f, r, c, p), EraseRow) = Scr(Blanked(f, r), r, 0, Off)
<1> DEFINE s == Scr(f, r, c, p)
           a == <<Return>>
           b == <<Erase>>
<1>1. a \in Seq(Op) /\ b \in Seq(Op)
  BY Ops, Single
<1>2. EraseRow = a \o b
  <2>1. a \o b = <<Return, Erase>>
    BY Ops, Pair
  <2> QED BY <2>1 DEF EraseRow, Erase
<1>3. Fold("write", s, a) = Scr(f, r, 0, Off)
  BY Writes, Escapes
<1>4. Fold("write", Scr(f, r, 0, Off), b) = Scr(Erased(f, r, 0), r, 0, Off)
  BY Writes, Escapes
<1>5. Erased(f, r, 0) = Blanked(f, r)
  <2>1. \A x \in Cell : x[2] >= 0
    BY CellIs
  <2> QED BY <2>1 DEF Erased, Blanked
<1> HIDE DEF s, a, b
<1>6. Fold("write", s, a \o b) = Fold("write", Fold("write", s, a), b)
  BY <1>1, FoldJoined
<1>7. a \o b \in Seq(Op)
  BY <1>1, ConcatProperties
<1> QED BY <1>2, <1>3, <1>4, <1>5, <1>6, <1>7 DEF s

-----------------------------------------------------------------------------
(* The rows the line has had, cleared from the last one up.                *)

Flat(f, q, n) == f = [i \in 1 .. n |-> IF i = 1 THEN q[i] ELSE f[i - 1] \o q[i]]

LEMMA FlatExists ==
  ASSUME NEW q, NEW n \in Nat
  PROVE  \E f : Flat(f, q, n)
<1> DEFINE P == {k \in Nat : \E f : Flat(f, q, k)}
<1>1. 0 \in P
  <2> DEFINE f == [i \in 1 .. 0 |-> q]
  <2>1. \A i \in 1 .. 0 : FALSE
    OBVIOUS
  <2>2. Flat(f, q, 0)
    BY <2>1 DEF Flat
  <2> QED BY <2>2
<1>2. ASSUME NEW k \in 0 .. n, k < n, k \in P
      PROVE  k + 1 \in P
  <2>1. PICK f : Flat(f, q, k)
    BY <1>2
  <2> DEFINE g == [i \in 1 .. k + 1 |-> IF i = 1 THEN q[i] ELSE f[i - 1] \o q[i]]
  <2>2. \A i \in 1 .. k : g[i] = f[i]
    <3>1. \A i \in 1 .. k : i \in 1 .. k + 1
      OBVIOUS
    <3>2. \A i \in 1 .. k : f[i] = IF i = 1 THEN q[i] ELSE f[i - 1] \o q[i]
      BY <2>1 DEF Flat
    <3> QED BY <3>1, <3>2
  <2>3. \A i \in 1 .. k + 1 : g[i] = IF i = 1 THEN q[i] ELSE g[i - 1] \o q[i]
    <3> TAKE i \in 1 .. k + 1
    <3>1. i = 1 \/ i - 1 \in 1 .. k
      OBVIOUS
    <3>2. g[i] = IF i = 1 THEN q[i] ELSE f[i - 1] \o q[i]
      OBVIOUS
    <3> HIDE DEF g
    <3> QED BY <2>2, <3>1, <3>2
  <2>4. g = [i \in 1 .. k + 1 |-> g[i]]
    OBVIOUS
  <2>5. Flat(g, q, k + 1)
    <3> HIDE DEF g
    <3> QED BY <2>3, <2>4 DEF Flat
  <2>6. k + 1 \in Nat
    OBVIOUS
  <2> QED BY <2>5, <2>6
<1>3. n \in P
  <2> HIDE DEF P
  <2>1. n \in 0 .. n
    OBVIOUS
  <2> QED BY <1>1, <1>2, <2>1, UpTo
<1> QED BY <1>3

Copies(m, b) == [j \in 1 .. m |-> b]

LEMMA FlattenIs ==
  ASSUME NEW m \in Nat, NEW b
  PROVE  /\ m = 0 => FlattenSeq(Copies(m, b)) = <<>>
         /\ m > 0 => \E f : /\ FlattenSeq(Copies(m, b)) = f[m]
                            /\ f[1] = b
                            /\ \A i \in 1 .. m : i # 1 => f[i] = f[i - 1] \o b
<1> DEFINE q == Copies(m, b)
<1>1. Len(q) = m /\ \A i \in 1 .. m : q[i] = b
  BY DEF Copies
<1>2. CASE m = 0
  <2>1. q = <<>>
    BY <1>2 DEF Copies
  <2> QED BY <1>1, <1>2, <2>1 DEF FlattenSeq
<1>3. CASE m > 0
  <2> HIDE DEF q
  <2>1. FlattenSeq(q) = (CHOOSE f : Flat(f, q, m))[m]
    BY <1>1, <1>3 DEF FlattenSeq, Flat
  <2>2. PICK f : Flat(f, q, m) /\ FlattenSeq(q) = f[m]
    BY <2>1, FlatExists
  <2>3. 1 \in 1 .. m
    BY <1>3
  <2>4. \A i \in 1 .. m : f[i] = IF i = 1 THEN q[i] ELSE f[i - 1] \o q[i]
    BY <2>2 DEF Flat
  <2>5. f[1] = b /\ \A i \in 1 .. m : i # 1 => f[i] = f[i - 1] \o b
    BY <1>1, <2>3, <2>4
  <2>6. \E g : /\ FlattenSeq(q) = g[m]
               /\ g[1] = b
               /\ \A i \in 1 .. m : i # 1 => g[i] = g[i - 1] \o b
    BY <2>2, <2>5
  <2> QED BY <1>3, <2>6 DEF q
<1> QED BY <1>2, <1>3

Sweep == EraseRow \o Up(1)

LEMMA SweepRuns ==
  ASSUME NEW f, NEW r \in Nat, NEW c, NEW p
  PROVE  /\ Sweep \in Seq(Op)
         /\ Leads(Scr(f, r, c, p), Sweep, Blanked(f, r), Floor(r, 1), 0)
<1>1. EraseRow \in Seq(Op)
  BY EraseRowRuns
<1>2. Up(1) \in Seq(Op)
  BY UpRuns
<1>3. Fold("write", Scr(f, r, c, p), EraseRow) = Scr(Blanked(f, r), r, 0, Off)
  BY EraseRowRuns
<1>4. Leads(Scr(Blanked(f, r), r, 0, Off), Up(1), Blanked(f, r), Floor(r, 1), 0)
  BY UpRuns
<1>5. Fold("write", Scr(f, r, c, p), EraseRow \o Up(1)) =
        Fold("write", Fold("write", Scr(f, r, c, p), EraseRow), Up(1))
  BY <1>1, <1>2, FoldJoined
<1>6. EraseRow \o Up(1) \in Seq(Op)
  BY <1>1, <1>2, ConcatProperties
<1> QED BY <1>3, <1>4, <1>5, <1>6 DEF Sweep, Leads

\* The last k rows up to row r are blank.
Swept(f, r, k) == [x \in Cell |-> IF r - k < x[1] /\ x[1] <= r THEN " " ELSE f[x]]

LEMMA SweptMore ==
  ASSUME NEW f, NEW r \in Nat, NEW k \in Nat
  PROVE  /\ Blanked(Swept(f, r, k), Floor(r, k)) = Swept(f, r, k + 1)
         /\ Floor(r, k) \in Nat
         /\ Floor(r, k + 1) = Floor(Floor(r, k), 1)
<1>1. Floor(r, k) \in Nat /\ Floor(r, k + 1) = Floor(Floor(r, k), 1)
  BY DEF Floor
<1>2. ASSUME NEW x \in Cell
      PROVE  (x[1] = Floor(r, k) \/ (r - k < x[1] /\ x[1] <= r))
             <=> (r - (k + 1) < x[1] /\ x[1] <= r)
  <2>1. \A h \in Nat : (h = Floor(r, k) \/ (r - k < h /\ h <= r))
                       <=> (r - (k + 1) < h /\ h <= r)
    BY DEF Floor
  <2> QED BY <2>1, CellIs
<1>3. \A x \in Cell : Blanked(Swept(f, r, k), Floor(r, k))[x] = Swept(f, r, k + 1)[x]
  BY <1>2 DEF Blanked, Swept
<1>4. Blanked(Swept(f, r, k), Floor(r, k)) = Swept(f, r, k + 1)
  <2>1. \A y, z : (y = [x \in Cell |-> y[x]] /\ z = [x \in Cell |-> z[x]]
                    /\ \A x \in Cell : y[x] = z[x]) => y = z
    OBVIOUS
  <2>2. \A g, i : Blanked(g, i) = [x \in Cell |-> Blanked(g, i)[x]]
    BY DEF Blanked
  <2>3. \A g, i, j : Swept(g, i, j) = [x \in Cell |-> Swept(g, i, j)[x]]
    BY DEF Swept
  <2> QED BY <1>3, <2>1, <2>2, <2>3
<1> QED BY <1>1, <1>4

LEMMA SweptOne ==
  ASSUME NEW f, NEW r \in Nat
  PROVE  Blanked(f, r) = Swept(f, r, 1)
<1>1. \A x \in Cell : x[1] = r <=> (r - 1 < x[1] /\ x[1] <= r)
  BY CellIs
<1> QED BY <1>1 DEF Blanked, Swept

LEMMA SweepsRun ==
  ASSUME NEW f, NEW r \in Nat, NEW c, NEW p, NEW k \in Nat, k > 0
  PROVE  /\ FlattenSeq(Copies(k, Sweep)) \in Seq(Op)
         /\ Leads(Scr(f, r, c, p), FlattenSeq(Copies(k, Sweep)), Swept(f, r, k), Floor(r, k), 0)
<1> DEFINE s == Scr(f, r, c, p)
<1>1. PICK q : /\ FlattenSeq(Copies(k, Sweep)) = q[k]
               /\ q[1] = Sweep
               /\ \A i \in 1 .. k : i # 1 => q[i] = q[i - 1] \o Sweep
  BY FlattenIs, ZenonT(60)
<1> DEFINE Good(i) == q[i] \in Seq(Op) /\ Leads(s, q[i], Swept(f, r, i), Floor(r, i), 0)
           P == {i \in Nat : i = 0 \/ Good(i)}
<1>2. 0 \in P
  OBVIOUS
<1>3. ASSUME NEW i \in 0 .. k, i < k, i \in P
      PROVE  i + 1 \in P
  <2>1. i = 0 \/ Good(i)
    BY <1>3
  <2>2. Good(i + 1) => i + 1 \in P
    OBVIOUS
  <2> HIDE DEF P
  <2>3. CASE i = 0
    <3>1. Sweep \in Seq(Op) /\ Leads(s, Sweep, Blanked(f, r), Floor(r, 1), 0)
      BY SweepRuns
    <3>2. Swept(f, r, 1) = Blanked(f, r)
      BY SweptOne
    <3> QED BY <1>1, <2>2, <2>3, <3>1, <3>2
  <2>4. CASE i # 0
    <3>1. i + 1 \in 1 .. k /\ i + 1 # 1 /\ (i + 1) - 1 = i /\ i \in Nat
      BY <1>3, <2>4
    <3>2. q[i + 1] = q[i] \o Sweep
      BY <1>1, <3>1
    <3>3. q[i] \in Seq(Op) /\ Leads(s, q[i], Swept(f, r, i), Floor(r, i), 0)
      BY <2>1, <2>4
    <3>4. PICK d : Fold("write", s, q[i]) = Scr(Swept(f, r, i), Floor(r, i), 0, d)
      BY <3>3 DEF Leads
    <3>5. /\ Blanked(Swept(f, r, i), Floor(r, i)) = Swept(f, r, i + 1)
          /\ Floor(r, i) \in Nat
          /\ Floor(r, i + 1) = Floor(Floor(r, i), 1)
      BY <3>1, SweptMore
    <3>6. /\ Sweep \in Seq(Op)
          /\ Leads(Scr(Swept(f, r, i), Floor(r, i), 0, d), Sweep,
                   Blanked(Swept(f, r, i), Floor(r, i)), Floor(Floor(r, i), 1), 0)
      BY <3>5, SweepRuns
    <3> HIDE DEF s
    <3>7. Fold("write", s, q[i] \o Sweep) = Fold("write", Fold("write", s, q[i]), Sweep)
      BY <3>3, <3>6, FoldJoined
    <3>8. q[i] \o Sweep \in Seq(Op)
      BY <3>3, <3>6, ConcatProperties
    <3>9. Leads(s, q[i] \o Sweep, Swept(f, r, i + 1), Floor(r, i + 1), 0)
      BY <3>4, <3>5, <3>6, <3>7 DEF Leads
    <3> QED BY <2>2, <3>2, <3>8, <3>9
  <2> QED BY <2>3, <2>4
<1>4. k \in P
  <2> HIDE DEF P
  <2>1. k \in 0 .. k
    OBVIOUS
  <2> QED BY <1>2, <1>3, <2>1, UpTo
<1>5. Good(k)
  BY <1>4
<1> QED BY <1>1, <1>5

LEMMA RowsCleared ==
  ASSUME NEW f, NEW r \in Nat, NEW c, NEW p, NEW k \in Nat
  PROVE  /\ FlattenSeq(Copies(k, Sweep)) \in Seq(Op)
         /\ Fold("write", Scr(f, r, c, p), FlattenSeq(Copies(k, Sweep)) \o EraseRow) =
              Scr(Swept(f, r, k + 1), Floor(r, k), 0, Off)
<1> DEFINE q == FlattenSeq(Copies(k, Sweep))
           s == Scr(f, r, c, p)
<1>1. EraseRow \in Seq(Op)
  BY EraseRowRuns
<1>2. CASE k = 0
  <2>1. q = <<>>
    BY <1>2, FlattenIs
  <2>2. q \in Seq(Op) /\ q \o EraseRow = EraseRow
    BY <1>1, <2>1, ConcatEmptySeq
  <2>3. Fold("write", s, EraseRow) = Scr(Blanked(f, r), r, 0, Off)
    BY EraseRowRuns
  <2>4. Blanked(f, r) = Swept(f, r, k + 1) /\ Floor(r, k) = r
    BY <1>2, SweptOne DEF Floor
  <2> QED BY <2>2, <2>3, <2>4
<1>3. CASE k > 0
  <2>1. q \in Seq(Op) /\ Leads(s, q, Swept(f, r, k), Floor(r, k), 0)
    BY <1>3, SweepsRun
  <2>2. PICK d : Fold("write", s, q) = Scr(Swept(f, r, k), Floor(r, k), 0, d)
    BY <2>1 DEF Leads
  <2>3. Fold("write", Scr(Swept(f, r, k), Floor(r, k), 0, d), EraseRow) =
          Scr(Blanked(Swept(f, r, k), Floor(r, k)), Floor(r, k), 0, Off)
    BY EraseRowRuns
  <2>4. Blanked(Swept(f, r, k), Floor(r, k)) = Swept(f, r, k + 1)
    BY SweptMore
  <2> HIDE DEF q, s
  <2>5. Fold("write", s, q \o EraseRow) = Fold("write", Fold("write", s, q), EraseRow)
    BY <1>1, <2>1, FoldJoined
  <2> QED BY <2>1, <2>2, <2>3, <2>4, <2>5 DEF q, s
<1> QED BY <1>2, <1>3

\* The row clearing starts in.
Lowest(r) == IF maxrows - RowOf(oldcolpos) > 0
             THEN Lesser(r + (maxrows - RowOf(oldcolpos)), Rows - 1) ELSE r

LEMMA ClearingRuns ==
  ASSUME NEW f, NEW r \in Nat, NEW c, NEW p, maxrows \in Nat, RowOf(oldcolpos) \in Nat,
         Lowest(r) \in Nat
  PROVE  /\ Clearing \in Seq(Op)
         /\ Fold("write", Scr(f, r, c, p), Clearing) =
              Scr(Swept(f, Lowest(r), Larger(maxrows - 1, 0) + 1),
                  Floor(Lowest(r), Larger(maxrows - 1, 0)), 0, Off)
<1> DEFINE k == Larger(maxrows - 1, 0)
           n == maxrows - RowOf(oldcolpos)
           q == FlattenSeq(Copies(k, Sweep))
           e == q \o EraseRow
           s == Scr(f, r, c, p)
<1>1. k \in Nat /\ n \in Int
  BY DEF Larger
<1>2. Clearing = Down(n) \o q \o EraseRow
  BY Zenon DEF Clearing, Copies, Sweep
<1>3. Lowest(r) = IF n > 0 THEN Lesser(r + n, Rows - 1) ELSE r
  BY DEF Lowest
<1> HIDE DEF k, n
<1>4. q \in Seq(Op)
  BY <1>1, RowsCleared
<1>5. Down(n) \in Seq(Op) /\ EraseRow \in Seq(Op)
  BY <1>1, DownRuns, EraseRowRuns
<1>6. Leads(s, Down(n), f, IF n > 0 THEN Lesser(r + n, Rows - 1) ELSE r, c)
  BY <1>1, DownRuns
<1>7. PICK d : Fold("write", s, Down(n)) = Scr(f, Lowest(r), c, d)
  BY <1>3, <1>6 DEF Leads
<1>8. Fold("write", Scr(f, Lowest(r), c, d), e) =
        Scr(Swept(f, Lowest(r), k + 1), Floor(Lowest(r), k), 0, Off)
  BY <1>1, RowsCleared
<1> HIDE DEF q, s
<1>9. Down(n) \o q \in Seq(Op) /\ (Down(n) \o q) \o EraseRow \in Seq(Op)
  BY <1>4, <1>5, ConcatProperties
<1>10. Fold("write", s, (Down(n) \o q) \o EraseRow) =
         Fold("write", Fold("write", Fold("write", s, Down(n)), q), EraseRow)
  <2> DEFINE g == Down(n) \o q
  <2>1. Fold("write", s, g) = Fold("write", Fold("write", s, Down(n)), q)
    BY <1>4, <1>5, FoldJoined
  <2>2. g \in Seq(Op)
    BY <1>9
  <2> HIDE DEF g
  <2>3. Fold("write", s, g \o EraseRow) = Fold("write", Fold("write", s, g), EraseRow)
    BY <1>5, <2>2, FoldJoined
  <2> QED BY <2>1, <2>3 DEF g
<1>11. Fold("write", Scr(f, Lowest(r), c, d), e) =
         Fold("write", Fold("write", Scr(f, Lowest(r), c, d), q), EraseRow)
  BY <1>4, <1>5, FoldJoined
<1> HIDE DEF e
<1> QED BY <1>2, <1>7, <1>8, <1>9, <1>10, <1>11 DEF k, s

-----------------------------------------------------------------------------
(* The columns counted for the characters in front of the cursor, and where *)
(* the terminal puts the next one.                                         *)

\* The cells after character c of w columns at row i and column j.
Filled(f, i, j, c, w) ==
  [x \in Cell |-> IF x = <<i, j>> THEN c ELSE IF w = 2 /\ x = <<i, j + 1>> THEN "<" ELSE f[x]]

WithChar(s, g, j, d) == [s EXCEPT !.cells = g, !.col = j, !.pending = d]

LEMMA WithCharIs ==
  ASSUME NEW f, NEW r, NEW c, NEW p, NEW g, NEW j, NEW d
  PROVE  WithChar(Scr(f, r, c, p), g, j, d) = Scr(g, r, j, d)
<1>1. WithChar(Scr(f, r, c, p), g, j, d) =
        [[[Scr(f, r, c, p) EXCEPT !.cells = g] EXCEPT !.col = j] EXCEPT !.pending = d]
  BY DEF WithChar
<1>2. [Scr(f, r, c, p) EXCEPT !.cells = g] = Scr(g, r, c, p)
  BY DEF Scr
<1>3. [Scr(g, r, c, p) EXCEPT !.col = j] = Scr(g, r, j, p)
  BY DEF Scr
<1>4. [Scr(g, r, j, p) EXCEPT !.pending = d] = Scr(g, r, j, d)
  BY DEF Scr
<1> QED BY <1>1, <1>2, <1>3, <1>4

LEMMA PlacedIs ==
  ASSUME NEW f, NEW r, NEW j, NEW p, NEW c, NEW w
  PROVE  /\ j + w = Columns =>
              Placed(Scr(f, r, j, p), c, w) = Scr(Filled(f, r, j, c, w), r, Columns - 1, On)
         /\ j + w # Columns =>
              Placed(Scr(f, r, j, p), c, w) = Scr(Filled(f, r, j, c, w), r, j + w, Off)
<1> DEFINE s == Scr(f, r, j, p)
           g == Filled(f, r, j, c, w)
<1>1. s.cells = f /\ s.row = r /\ s.col = j
  BY DEF Scr
<1> HIDE DEF s
<1>2. Placed(s, c, w) =
        [s EXCEPT !.cells = g, !.col = IF j + w = Columns THEN Columns - 1 ELSE j + w,
                  !.pending = (j + w = Columns)]
  BY <1>1, Zenon DEF Placed, Filled
<1> HIDE DEF g
<1>3. CASE j + w = Columns
  <2>1. (j + w = Columns) = On
    BY <1>3 DEF On
  <2>2. Placed(s, c, w) = WithChar(s, g, Columns - 1, On)
    BY <1>2, <1>3, <2>1, Zenon DEF WithChar
  <2> QED BY <1>3, <2>2, WithCharIs DEF s, g
<1>4. CASE j + w # Columns
  <2>1. (j + w = Columns) = Off
    BY <1>4 DEF Off
  <2>2. Placed(s, c, w) = WithChar(s, g, j + w, Off)
    BY <1>2, <1>4, <2>1, Zenon DEF WithChar
  <2> QED BY <1>4, <2>2, WithCharIs DEF s, g
<1> QED BY <1>3, <1>4

LEMMA PutIs ==
  ASSUME NEW f, NEW r, NEW j, NEW p \in {On, Off}, NEW c, NEW w, w = WidthOf(c)
  PROVE  Exec(Scr(f, r, j, p), Put(c)) =
           IF w = 0 THEN Scr(f, r, j, p)
           ELSE IF p = On \/ j + w > Columns THEN Placed(Scr(f, r + 1, 0, Off), c, w)
           ELSE Placed(Scr(f, r, j, p), c, w)
<1> DEFINE s == Scr(f, r, j, p)
<1>1. s.pending = p /\ s.col = j
  BY DEF Scr
<1>2. Down1(s) = Scr(f, r + 1, 0, Off)
  BY Down1Is
<1> HIDE DEF s
<1>3. Exec(s, Put(c)) = Putting(s, c)
  BY DEF Exec, Put
<1>4. s.pending <=> p = On
  BY <1>1 DEF On, Off
<1>5. Putting(s, c) = IF w = 0 THEN s
                      ELSE Placed(IF p = On \/ j + w > Columns THEN Down1(s) ELSE s, c, w)
  BY <1>1, <1>4 DEF Putting
<1> QED BY <1>2, <1>3, <1>5 DEF s

Counted(n, q) == [ret |-> n, colwid |-> q]

LEMMA PassedIs ==
  ASSUME Columns > 2, NEW n \in Nat, NEW q \in 0 .. Columns - 1, NEW c, NEW w \in {0, 1, 2},
         w = WidthOf(c)
  PROVE  /\ q + w < Columns => Passed(Counted(n, q), c) = Counted(n, q + w)
         /\ q + w = Columns => Passed(Counted(n, q), c) = Counted(n, 0)
         /\ q + w > Columns => /\ w = 2 /\ q = Columns - 1
                               /\ Passed(Counted(n, q), c) = Counted(n + 1, 2)
<1> DEFINE s == Counted(n, q)
           dif == q + w - Columns
<1>1. s.ret = n /\ s.colwid = q
  BY DEF Counted
<1>2. Columns \in Nat
  BY VtAssumption
<1>3. q + w > Columns => w = 2 /\ q = Columns - 1 /\ dif = 1
  BY <1>2
<1>4. /\ dif > 0 <=> q + w > Columns
      /\ dif = 0 <=> q + w = Columns
  BY <1>2
<1> HIDE DEF s, dif
<1>5. Passed(s, c) = Counted(n + (IF dif > 0 THEN dif ELSE 0),
                             IF dif > 0 THEN w ELSE IF dif = 0 THEN 0 ELSE q + w)
  BY <1>1 DEF Passed, Counted, dif
<1> QED BY <1>2, <1>3, <1>4, <1>5 DEF s

LEMMA AdvancedIs ==
  ASSUME Columns > 2, NEW n \in Nat, NEW q \in 0 .. Columns - 1, NEW c, NEW w \in {0, 1, 2},
         w = WidthOf(c)
  PROVE  /\ q + w < Columns => Advanced(Counted(n, q), c) = Counted(n + w, q + w)
         /\ q + w = Columns => Advanced(Counted(n, q), c) = Counted(n + w, 0)
         /\ q + w > Columns => /\ w = 2 /\ q = Columns - 1
                               /\ Advanced(Counted(n, q), c) = Counted(n + 3, 2)
<1>1. \A m, k : [Counted(m, k) EXCEPT !.ret = @ + w] = Counted(m + w, k)
  BY DEF Counted
<1>2. Advanced(Counted(n, q), c) = [Passed(Counted(n, q), c) EXCEPT !.ret = @ + w]
  BY DEF Advanced
<1>3. (n + 1) + 2 = n + 3
  OBVIOUS
<1> QED BY <1>1, <1>2, <1>3, PassedIs

LEMMA Widths ==
  ASSUME NEW c \in Char
  PROVE  WidthOf(c) \in {0, 1, 2}
BY DEF Char, WidthOf

\* Blank below row r and untouched above row b.
Kept(f, b, r) == \A x \in Cell : (x[1] < b => f[x] = "x") /\ (x[1] > r => f[x] = " ")

\* With n rows and q columns taken up, the terminal, which began in row b, is
\* in the row after them, or still at the end of the last one.
AgreesAt(s, a, b, m, q, n, f) ==
  /\ a = Counted(m, q) /\ m \in Nat /\ q \in 0 .. Columns - 1 /\ n \in Nat
  /\ Prompt + m = Columns * n + q
  /\ f = [x \in Cell |-> f[x]]
  /\ \/ q > 0 /\ s = Scr(f, b + n, q, Off) /\ Kept(f, b, b + n)
     \/ q = 0 /\ n > 0 /\ s = Scr(f, b + n - 1, Columns - 1, On) /\ Kept(f, b, b + n - 1)

Agrees(s, a, b) == \E m, q, n, f : AgreesAt(s, a, b, m, q, n, f)

LEMMA FilledKept ==
  ASSUME NEW f, NEW b \in Nat, NEW r \in Nat, NEW i \in Nat, b <= i, r <= i, Kept(f, b, r),
         NEW j, NEW c, NEW w
  PROVE  /\ Kept(Filled(f, i, j, c, w), b, i)
         /\ Filled(f, i, j, c, w) = [x \in Cell |-> Filled(f, i, j, c, w)[x]]
<1>1. Filled(f, i, j, c, w) = [x \in Cell |-> Filled(f, i, j, c, w)[x]]
  BY DEF Filled
<1>2. ASSUME NEW x \in Cell, x[1] # i
      PROVE  Filled(f, i, j, c, w)[x] = f[x]
  BY <1>2 DEF Filled
<1> DEFINE g == Filled(f, i, j, c, w)
<1> HIDE DEF g
<1>3. ASSUME NEW x \in Cell
      PROVE  (x[1] < b => g[x] = "x") /\ (x[1] > i => g[x] = " ")
  <2>1. x[1] \in Nat
    BY CellIs
  <2>2. (x[1] < b => f[x] = "x") /\ (x[1] > r => f[x] = " ")
    BY DEF Kept
  <2>3. (x[1] < b => x[1] # i) /\ (x[1] > i => x[1] # i /\ x[1] > r)
    BY <2>1
  <2> QED BY <1>2, <2>2, <2>3, Zenon DEF g
<1> QED BY <1>1, <1>3 DEF Kept, g

LEMMA PutAgrees ==
  ASSUME Columns > 2, NEW b \in Nat, NEW s, NEW a, Agrees(s, a, b), NEW c \in Char
  PROVE  Agrees(Exec(s, Put(c)), Advanced(a, c), b)
<1> DEFINE w == WidthOf(c)
           C == Columns
<1>1. PICK m, q, n, f : AgreesAt(s, a, b, m, q, n, f)
  BY DEF Agrees
<1>2. w \in {0, 1, 2} /\ C \in Nat /\ Prompt \in Nat /\ C > 2
  BY Widths, VtAssumption, MultiLineAssumption
<1>3. /\ a = Counted(m, q) /\ m \in Nat /\ q \in 0 .. C - 1 /\ n \in Nat
      /\ Prompt + m = C * n + q
      /\ f = [x \in Cell |-> f[x]]
  BY <1>1 DEF AgreesAt
<1> DEFINE k == C * n
           l == C * (n + 1)
<1>4. l = k + C /\ k \in Nat /\ Prompt + m = k + q /\ b + n \in Nat /\ b <= b + n
      /\ b + (n + 1) \in Nat /\ b <= b + (n + 1) /\ b + n <= b + (n + 1)
  BY <1>2, <1>3
<1>5. /\ q + w < C => Advanced(a, c) = Counted(m + w, q + w)
      /\ q + w = C => Advanced(a, c) = Counted(m + w, 0)
      /\ q + w > C => /\ w = 2 /\ q = C - 1
                      /\ Advanced(a, c) = Counted(m + 3, 2)
  BY <1>2, <1>3, AdvancedIs
<1>6. ASSUME NEW r, NEW j, NEW p \in {On, Off}, s = Scr(f, r, j, p)
      PROVE  Exec(s, Put(c)) =
               IF w = 0 THEN s
               ELSE IF p = On \/ j + w > C THEN Placed(Scr(f, r + 1, 0, Off), c, w)
               ELSE Placed(s, c, w)
  BY <1>6, PutIs
<1>7. ASSUME NEW r, NEW j, NEW p
      PROVE  /\ j + w = C => Placed(Scr(f, r, j, p), c, w) = Scr(Filled(f, r, j, c, w), r, C - 1, On)
             /\ j + w # C => Placed(Scr(f, r, j, p), c, w) = Scr(Filled(f, r, j, c, w), r, j + w, Off)
  BY PlacedIs
<1>8. On # Off
  BY DEF On, Off
<1> DEFINE e == Exec(s, Put(c))
           h == Advanced(a, c)
<1> HIDE DEF w, C, k, l, e, h
<1>9. CASE w = 0
  <2>1. e = s
    <3>1. \E r, j : \E p \in {On, Off} : s = Scr(f, r, j, p)
      BY <1>1 DEF AgreesAt
    <3> QED BY <1>6, <1>9, <3>1 DEF e
  <2>2. h = a
    BY <1>2, <1>3, <1>5, <1>9 DEF h
  <2> QED BY <1>1, <2>1, <2>2 DEF Agrees, e, h
<1>10. CASE w > 0 /\ q = 0
  <2>1. n > 0 /\ s = Scr(f, b + n - 1, C - 1, On) /\ Kept(f, b, b + n - 1)
    BY <1>1, <1>10 DEF AgreesAt, C
  <2>2. (b + n - 1) + 1 = b + n
    BY <1>3
  <2>3. e = Placed(Scr(f, b + n, 0, Off), c, w)
    BY <1>6, <1>10, <2>1, <2>2 DEF e
  <2>4. e = Scr(Filled(f, b + n, 0, c, w), b + n, w, Off)
    BY <1>2, <1>7, <2>3
  <2>5. h = Counted(m + w, w) /\ Prompt + (m + w) = k + w /\ m + w \in Nat /\ w \in 0 .. C - 1
    BY <1>2, <1>3, <1>4, <1>5, <1>10 DEF h
  <2>6. /\ Kept(Filled(f, b + n, 0, c, w), b, b + n)
        /\ Filled(f, b + n, 0, c, w) = [x \in Cell |-> Filled(f, b + n, 0, c, w)[x]]
    <3>1. b + n - 1 \in Nat /\ b + n - 1 <= b + n
      BY <1>3, <2>1
    <3> QED BY <1>4, <2>1, <3>1, FilledKept
  <2>7. AgreesAt(e, h, b, m + w, w, n, Filled(f, b + n, 0, c, w))
    BY <1>2, <1>3, <1>10, <2>4, <2>5, <2>6 DEF AgreesAt, C, k
  <2> QED BY <2>7 DEF Agrees, e, h
<1>11. CASE w > 0 /\ q > 0 /\ q + w < C
  <2>1. s = Scr(f, b + n, q, Off) /\ Kept(f, b, b + n)
    BY <1>1, <1>11 DEF AgreesAt
  <2>2. e = Placed(s, c, w)
    BY <1>2, <1>3, <1>6, <1>8, <1>11, <2>1 DEF e
  <2>3. e = Scr(Filled(f, b + n, q, c, w), b + n, q + w, Off)
    BY <1>2, <1>3, <1>7, <1>11, <2>1, <2>2
  <2>4. h = Counted(m + w, q + w) /\ Prompt + (m + w) = k + (q + w) /\ m + w \in Nat
        /\ q + w \in 0 .. C - 1 /\ q + w > 0
    BY <1>2, <1>3, <1>4, <1>5, <1>11 DEF h
  <2>5. /\ Kept(Filled(f, b + n, q, c, w), b, b + n)
        /\ Filled(f, b + n, q, c, w) = [x \in Cell |-> Filled(f, b + n, q, c, w)[x]]
    BY <1>4, <2>1, FilledKept
  <2>6. AgreesAt(e, h, b, m + w, q + w, n, Filled(f, b + n, q, c, w))
    BY <1>3, <2>3, <2>4, <2>5 DEF AgreesAt, C, k
  <2> QED BY <2>6 DEF Agrees, e, h
<1>12. CASE w > 0 /\ q > 0 /\ q + w = C
  <2>1. s = Scr(f, b + n, q, Off) /\ Kept(f, b, b + n)
    BY <1>1, <1>12 DEF AgreesAt
  <2>2. e = Placed(s, c, w)
    BY <1>2, <1>3, <1>6, <1>8, <1>12, <2>1 DEF e
  <2>3. e = Scr(Filled(f, b + n, q, c, w), b + n, C - 1, On)
    BY <1>2, <1>3, <1>7, <1>12, <2>1, <2>2
  <2>4. h = Counted(m + w, 0) /\ Prompt + (m + w) = l + 0 /\ m + w \in Nat
        /\ 0 \in 0 .. C - 1 /\ n + 1 \in Nat /\ n + 1 > 0 /\ b + (n + 1) - 1 = b + n
    BY <1>2, <1>3, <1>4, <1>5, <1>12 DEF h
  <2>5. /\ Kept(Filled(f, b + n, q, c, w), b, b + n)
        /\ Filled(f, b + n, q, c, w) = [x \in Cell |-> Filled(f, b + n, q, c, w)[x]]
    BY <1>4, <2>1, FilledKept
  <2>6. AgreesAt(e, h, b, m + w, 0, n + 1, Filled(f, b + n, q, c, w))
    BY <1>3, <2>3, <2>4, <2>5 DEF AgreesAt, C, l
  <2> QED BY <2>6 DEF Agrees, e, h
<1>13. CASE w > 0 /\ q > 0 /\ q + w > C
  <2>1. s = Scr(f, b + n, q, Off) /\ Kept(f, b, b + n)
    BY <1>1, <1>13 DEF AgreesAt
  <2>2. e = Placed(Scr(f, (b + n) + 1, 0, Off), c, w)
    BY <1>6, <1>13, <2>1 DEF e
  <2>3. w = 2 /\ q = C - 1 /\ h = Counted(m + 3, 2)
    BY <1>5, <1>13 DEF h
  <2>4. (b + n) + 1 = b + (n + 1) /\ 2 \in 0 .. C - 1 /\ n + 1 \in Nat /\ m + 3 \in Nat
        /\ Prompt + (m + 3) = l + 2 /\ 0 + w = 2 /\ 0 + w # C
    BY <1>2, <1>3, <1>4, <2>3
  <2>5. e = Scr(Filled(f, b + (n + 1), 0, c, w), b + (n + 1), 2, Off)
    BY <1>7, <2>2, <2>4
  <2>6. /\ Kept(Filled(f, b + (n + 1), 0, c, w), b, b + (n + 1))
        /\ Filled(f, b + (n + 1), 0, c, w) = [x \in Cell |-> Filled(f, b + (n + 1), 0, c, w)[x]]
    BY <1>4, <2>1, FilledKept
  <2>7. AgreesAt(e, h, b, m + 3, 2, n + 1, Filled(f, b + (n + 1), 0, c, w))
    BY <2>3, <2>4, <2>5, <2>6 DEF AgreesAt, C, l
  <2> QED BY <2>7 DEF Agrees, e, h
<1>14. w > 0 \/ w = 0
  BY <1>2
<1>15. q > 0 \/ q = 0
  BY <1>3
<1>16. q + w < C \/ q + w = C \/ q + w > C
  BY <1>2, <1>3
<1> QED BY <1>9, <1>10, <1>11, <1>12, <1>13, <1>14, <1>15, <1>16 DEF e, h

Base(b)      == Above(Cleared([row |-> b]), b)
BaseCells(b) == [x \in Cell |-> IF x[1] < b THEN "x" ELSE " "]

LEMMA BaseIs ==
  ASSUME NEW b
  PROVE  Base(b) = Scr(BaseCells(b), b, 0, Off)
<1> DEFINE f == [x \in Cell |-> " "]
           s == Scr(f, b, 0, Off)
<1>1. Cleared([row |-> b]) = s
  BY Zenon DEF Cleared, Scr, Off
<1>7. \A x \in Cell : f[x] = " "
  OBVIOUS
<1> HIDE DEF f
<1>2. s.cells = f
  BY DEF Scr
<1>5. ASSUME NEW g
      PROVE  [s EXCEPT !.cells = g] = Scr(g, b, 0, Off)
  BY DEF Scr
<1> HIDE DEF s
<1>3. Above(s, b) = [s EXCEPT !.cells = [x \in Cell |-> IF x[1] < b THEN "x" ELSE f[x]]]
  BY <1>2 DEF Above
<1>4. [x \in Cell |-> IF x[1] < b THEN "x" ELSE f[x]] = BaseCells(b)
  BY <1>7 DEF BaseCells
<1>6. Above(s, b) = Scr(BaseCells(b), b, 0, Off)
  BY <1>3, <1>4, <1>5
<1> QED BY <1>1, <1>6 DEF Base

LEMMA FoldNext ==
  ASSUME NEW op, NEW s, NEW T, NEW q \in Seq(T), NEW k \in 0 .. Len(q), k < Len(q)
  PROVE  Fold(op, s, SubSeq(q, 1, k + 1)) = Does(op, Fold(op, s, SubSeq(q, 1, k)), q[k + 1])
<1>1. Len(q) \in Nat
  BY LenProperties
<1>2. 1 \in 1 .. Len(q) /\ k + 1 \in 1 .. Len(q) /\ (k + 1) - 1 = k /\ k \in Int /\ 1 \in Int
      /\ k \in Nat
  BY <1>1
<1>3. SubSeq(q, 1, k + 1) = SubSeq(q, 1, k) \o <<q[k + 1]>>
  BY <1>2, SubSeqRecursiveSecond
<1>4. \A i \in 1 .. k + 1 : q[i] \in T
  BY <1>1, <1>2, ElementOfSeq
<1>5. SubSeq(q, 1, k) \in Seq(T)
  <2>1. \A i \in 1 .. k : q[i] \in T
    BY <1>2, <1>4
  <2> QED BY <1>2, <2>1, SubSeqProperties
<1>6. <<q[k + 1]>> \in Seq(T)
  BY <1>2, <1>4
<1> DEFINE u == SubSeq(q, 1, k)
           v == <<q[k + 1]>>
<1>9. u \in Seq(T) /\ v \in Seq(T)
  BY <1>5, <1>6
<1> HIDE DEF u, v
<1>7. Fold(op, s, u \o v) = Fold(op, Fold(op, s, u), v)
  BY <1>9, FoldJoined
<1>8. Fold(op, Fold(op, s, u), v) = Does(op, Fold(op, s, u), q[k + 1])
  BY FoldOne DEF v
<1> QED BY <1>3, <1>7, <1>8 DEF u, v

LEMMA PromptOps == PromptText \in Seq(Op) /\ Len(PromptText) = Prompt
<1>1. Prompt \in Nat
  BY MultiLineAssumption
<1>2. Put("p") \in Op
  BY DEF Put, Op, Char
<1> QED BY <1>1, <1>2 DEF PromptText

LEMMA WrittenOps ==
  ASSUME NEW t \in Seq(Char)
  PROVE  /\ Written(t) \in Seq(Op) /\ Len(Written(t)) = Len(t)
         /\ \A i \in 1 .. Len(t) : Written(t)[i] = Put(t[i])
<1>1. Len(t) \in Nat /\ DOMAIN t = 1 .. Len(t) /\ \A i \in 1 .. Len(t) : t[i] \in Char
  BY LenProperties, ElementOfSeq
<1>2. \A c \in Char : Put(c) \in Op
  BY DEF Put, Op
<1> DEFINE n == Len(t)
<1>3. Written(t) = [i \in 1 .. n |-> Put(t[i])]
  BY <1>1 DEF Written
<1> HIDE DEF n
<1>4. n \in Nat /\ \A i \in 1 .. n : Put(t[i]) \in Op
  BY <1>1, <1>2 DEF n
<1>5. Written(t) \in Seq(Op) /\ Len(Written(t)) = n /\ \A i \in 1 .. n : Written(t)[i] = Put(t[i])
  BY <1>3, <1>4
<1> QED BY <1>5 DEF n

\* The terminal after the prompt.
Prompted(b) == Fold("write", Base(b), PromptText)

PromptAt(b, s, i) == \E f : s = Scr(f, b, i, Off) /\ Kept(f, b, b) /\ f = [x \in Cell |-> f[x]]

LEMMA PromptRuns ==
  ASSUME NEW b \in Nat
  PROVE  PromptAt(b, Prompted(b), Prompt)
<1> DEFINE q == PromptText
           s(i) == Fold("write", Base(b), SubSeq(q, 1, i))
           P == {i \in 0 .. Prompt : PromptAt(b, s(i), i)}
<1>1. Prompt \in Nat /\ Columns \in Nat /\ Prompt < Columns /\ q \in Seq(Op) /\ Len(q) = Prompt
      /\ \A i \in 1 .. Prompt : q[i] = Put("p")
  BY MultiLineAssumption, VtAssumption, PromptOps DEF PromptText
<1> HIDE DEF q
<1>2. 0 \in P
  <2>1. SubSeq(q, 1, 0) = <<>>
    BY SubSeqEmpty
  <2>2. s(0) = Scr(BaseCells(b), b, 0, Off)
    BY <2>1, FoldNothing, BaseIs
  <2>3. BaseCells(b) = [x \in Cell |-> BaseCells(b)[x]]
    BY DEF BaseCells
  <2>4. Kept(BaseCells(b), b, b)
    <3>1. \A x \in Cell : x[1] \in Nat
      BY CellIs
    <3> QED BY <3>1 DEF Kept, BaseCells
  <2>5. PromptAt(b, s(0), 0)
    BY <2>2, <2>3, <2>4 DEF PromptAt
  <2> QED BY <1>1, <2>5
<1>3. ASSUME NEW i \in 0 .. Prompt, i < Prompt, i \in P
      PROVE  i + 1 \in P
  <2>1. PICK f : s(i) = Scr(f, b, i, Off) /\ Kept(f, b, b) /\ f = [x \in Cell |-> f[x]]
    BY <1>3 DEF PromptAt
  <2>2. i + 1 \in 1 .. Prompt /\ i + 1 \in 0 .. Prompt
    BY <1>1, <1>3
  <2>3. s(i + 1) = Exec(s(i), Put("p"))
    <3>1. s(i + 1) = Does("write", s(i), q[i + 1])
      BY <1>1, <1>3, FoldNext
    <3>2. q[i + 1] = Put("p")
      BY <1>1, <2>2
    <3> QED BY <3>1, <3>2 DEF Does
  <2> HIDE DEF s
  <2> DEFINE g == Filled(f, b, i, "p", 1)
  <2>4. WidthOf("p") = 1 /\ i + 1 # Columns /\ ~(i + 1 > Columns)
    BY <1>1, <1>3 DEF WidthOf
  <2>5. Exec(Scr(f, b, i, Off), Put("p")) = Placed(Scr(f, b, i, Off), "p", 1)
    <3>1. On # Off
      BY DEF On, Off
    <3> QED BY <2>4, <3>1, PutIs
  <2>6. Placed(Scr(f, b, i, Off), "p", 1) = Scr(g, b, i + 1, Off)
    BY <2>4, PlacedIs
  <2>7. Kept(g, b, b) /\ g = [x \in Cell |-> g[x]]
    BY <2>1, FilledKept
  <2>8. PromptAt(b, s(i + 1), i + 1)
    BY <2>1, <2>3, <2>5, <2>6, <2>7 DEF PromptAt
  <2> QED BY <2>2, <2>8
<1>4. Prompt \in P
  <2> HIDE DEF P
  <2>1. Prompt \in 0 .. Prompt
    BY <1>1
  <2> QED BY <1>1, <1>2, <1>3, <2>1, UpTo
<1>5. SubSeq(q, 1, Prompt) = q
  BY <1>1, SubSeqFull
<1> QED BY <1>4, <1>5 DEF Prompted, q

\* The terminal after the prompt and text t.
FreshAt(b, t) == Fold("write", Base(b), PromptText \o Written(t))

LEMMA FreshIs ==
  ASSUME NEW b, NEW t \in Seq(Char)
  PROVE  FreshAt(b, t) = Fold("write", Prompted(b), Written(t))
BY PromptOps, WrittenOps, FoldJoined DEF FreshAt, Prompted

Start == Counted(0, Prompt)

LEMMA BeforeIs ==
  ASSUME NEW t, NEW k
  PROVE  Before(t, k) = Fold("count", Start, SubSeq(t, 1, k))
<1>1. "count" # "write"
  OBVIOUS
<1> QED BY <1>1 DEF Before, Fold, Start, Counted

LEMMA WrittenPrefix ==
  ASSUME NEW t \in Seq(Char), NEW k \in 0 .. Len(t)
  PROVE  SubSeq(t, 1, k) \in Seq(Char) /\ Written(SubSeq(t, 1, k)) = SubSeq(Written(t), 1, k)
<1> DEFINE u == SubSeq(t, 1, k)
           v == SubSeq(Written(t), 1, k)
<1>1. Len(t) \in Nat /\ k \in Nat /\ k \in Int /\ 1 \in Int /\ k <= Len(t) /\ k - 1 + 1 = k
      /\ \A i \in 1 .. k : i \in 1 .. Len(t) /\ 1 + i - 1 = i
  <2>1. Len(t) \in Nat
    BY LenProperties
  <2> QED BY <2>1
<1>2. /\ Written(t) \in Seq(Op) /\ Len(Written(t)) = Len(t)
      /\ \A i \in 1 .. Len(t) : Written(t)[i] = Put(t[i])
  BY WrittenOps
<1>3. \A i \in 1 .. k : t[i] \in Char /\ Written(t)[i] \in Op
  BY <1>1, <1>2, ElementOfSeq
<1>4. (IF 1 <= k THEN k - 1 + 1 ELSE 0) = k
  BY <1>1
<1>5. u \in Seq(Char) /\ Len(u) = k /\ \A i \in 1 .. k : u[i] = t[i]
  BY <1>1, <1>3, <1>4, SubSeqProperties
<1>6. v \in Seq(Op) /\ Len(v) = k /\ \A i \in 1 .. k : v[i] = Written(t)[i]
  BY <1>1, <1>3, <1>4, SubSeqProperties
<1> HIDE DEF u, v
<1>7. /\ Written(u) \in Seq(Op) /\ Len(Written(u)) = Len(u)
      /\ \A i \in 1 .. Len(u) : Written(u)[i] = Put(u[i])
  BY <1>5, WrittenOps
<1>8. Len(Written(u)) = Len(v) /\ \A i \in 1 .. Len(Written(u)) : Written(u)[i] = v[i]
  BY <1>1, <1>2, <1>5, <1>6, <1>7
<1>9. Written(u) = v
  BY <1>6, <1>7, <1>8, SeqEqual
<1> QED BY <1>5, <1>9 DEF u, v

LEMMA TextAgrees ==
  ASSUME Columns > 2, Prompt > 0, NEW b \in Nat, NEW t \in Seq(Char), NEW k \in 0 .. Len(t)
  PROVE  Agrees(FreshAt(b, SubSeq(t, 1, k)), Before(t, k), b)
<1> DEFINE q == Written(t)
           s(i) == Fold("write", Prompted(b), SubSeq(q, 1, i))
           a(i) == Fold("count", Start, SubSeq(t, 1, i))
           P == {i \in 0 .. Len(t) : Agrees(s(i), a(i), b)}
<1>1. /\ Len(t) \in Nat /\ q \in Seq(Op) /\ Len(q) = Len(t)
      /\ \A i \in 1 .. Len(t) : q[i] = Put(t[i]) /\ t[i] \in Char
  BY WrittenOps, LenProperties, ElementOfSeq
<1> HIDE DEF q
<1>2. 0 \in P
  <2>1. SubSeq(q, 1, 0) = <<>> /\ SubSeq(t, 1, 0) = <<>>
    BY SubSeqEmpty
  <2>2. s(0) = Prompted(b) /\ a(0) = Start
    BY <2>1, FoldNothing
  <2>3. PICK f : Prompted(b) = Scr(f, b, Prompt, Off) /\ Kept(f, b, b) /\ f = [x \in Cell |-> f[x]]
    BY PromptRuns DEF PromptAt
  <2>4. /\ 0 \in Nat /\ Prompt \in 0 .. Columns - 1 /\ b + 0 = b
        /\ Prompt + 0 = Columns * 0 + Prompt
    BY MultiLineAssumption, VtAssumption
  <2>5. AgreesAt(Prompted(b), Start, b, 0, Prompt, 0, f)
    BY <2>3, <2>4 DEF AgreesAt, Start
  <2>6. 0 \in 0 .. Len(t)
    BY <1>1
  <2> QED BY <2>2, <2>5, <2>6 DEF Agrees
<1>3. ASSUME NEW i \in 0 .. Len(t), i < Len(t), i \in P
      PROVE  i + 1 \in P
  <2>1. i + 1 \in 1 .. Len(t) /\ i + 1 \in 0 .. Len(t)
    BY <1>1, <1>3
  <2>2. q[i + 1] = Put(t[i + 1]) /\ t[i + 1] \in Char
    BY <1>1, <2>1
  <2>3. s(i + 1) = Exec(s(i), Put(t[i + 1]))
    <3>1. s(i + 1) = Does("write", s(i), q[i + 1])
      BY <1>1, <1>3, FoldNext
    <3> QED BY <2>2, <3>1 DEF Does
  <2>4. a(i + 1) = Advanced(a(i), t[i + 1])
    <3>1. a(i + 1) = Does("count", a(i), t[i + 1])
      BY <1>1, <1>3, FoldNext
    <3>2. "count" # "write"
      OBVIOUS
    <3> QED BY <3>1, <3>2 DEF Does
  <2>5. Agrees(s(i), a(i), b)
    BY <1>3
  <2> HIDE DEF s, a
  <2>6. Agrees(Exec(s(i), Put(t[i + 1])), Advanced(a(i), t[i + 1]), b)
    BY <2>2, <2>5, PutAgrees
  <2> QED BY <2>1, <2>3, <2>4, <2>6
<1>4. k \in P
  <2> HIDE DEF P
  <2> QED BY <1>1, <1>2, <1>3, UpTo
<1>5. Agrees(s(k), a(k), b)
  BY <1>4
<1>6. FreshAt(b, SubSeq(t, 1, k)) = s(k)
  BY WrittenPrefix, FreshIs DEF q
<1>7. Before(t, k) = a(k)
  BY BeforeIs
<1> QED BY <1>5, <1>6, <1>7

-----------------------------------------------------------------------------
(* Rows and columns of the cursor and of the end of the text.              *)

LEMMA DivIs ==
  ASSUME NEW c \in Nat, c > 0, NEW n \in Nat, NEW q \in 0 .. c - 1
  PROVE  (c * n + q) \div c = n /\ (c * n + q) % c = q
<1> DEFINE x == c * n + q
           d == x \div c
           r == x % c
           k == c * n
           l == c * d
<1>1. x \in Nat /\ k \in Nat /\ x = k + q
  OBVIOUS
<1>2. d \in Int /\ r \in 0 .. c - 1 /\ x = l + r
  <2> HIDE DEF x
  <2> QED BY <1>1
<1>3. d > n => l >= k + c
  <2>1. d > n => c * (d - n - 1) >= 0
    <3> HIDE DEF d
    <3>1. d > n => d - n - 1 >= 0 /\ d - n - 1 \in Int
      BY <1>2
    <3> QED BY <3>1
  <2>2. c * (d - n - 1) = l - k - c
    <3> HIDE DEF d
    <3> QED BY <1>2
  <2>3. l \in Int
    <3> HIDE DEF d
    <3> QED BY <1>2
  <2> HIDE DEF d, l, k
  <2> QED BY <1>1, <2>1, <2>2, <2>3
<1>4. d < n => l <= k - c
  <2>1. d < n => c * (n - d - 1) >= 0
    <3> HIDE DEF d
    <3>1. d < n => n - d - 1 >= 0 /\ n - d - 1 \in Int
      BY <1>2
    <3> QED BY <3>1
  <2>2. c * (n - d - 1) = k - l - c
    <3> HIDE DEF d
    <3> QED BY <1>2
  <2>3. l \in Int
    <3> HIDE DEF d
    <3> QED BY <1>2
  <2> HIDE DEF d, l, k
  <2> QED BY <1>1, <2>1, <2>2, <2>3
<1>5. d = n /\ r = q
  <2>1. l \in Int
    <3> HIDE DEF d
    <3> QED BY <1>2
  <2>2. d = n
    <3> HIDE DEF d, l, k, r, x
    <3> QED BY <1>1, <1>2, <1>3, <1>4, <2>1
  <2>3. l = k
    <3> HIDE DEF d
    <3> QED BY <2>2
  <2> HIDE DEF d, l, k, r, x
  <2> QED BY <1>1, <1>2, <2>2, <2>3
<1> QED BY <1>5

\* Position m is in column q of the row n rows below the first.
LEMMA PlaceIs ==
  ASSUME NEW m \in Nat, NEW n \in Nat, NEW q \in 0 .. Columns - 1, Prompt + m = Columns * n + q
  PROVE  RowOf(m) = n + 1 /\ ColOf(m) = q
<1>1. Columns \in Nat /\ Columns > 0 /\ Prompt \in Nat
  BY VtAssumption, MultiLineAssumption
<1>2. Prompt + m + Columns = Columns * (n + 1) + q /\ n + 1 \in Nat
  <2>1. Columns * (n + 1) = Columns * n + Columns /\ Columns * n \in Nat
    BY <1>1
  <2> DEFINE k == Columns * n
  <2> HIDE DEF k
  <2> QED BY <1>1, <2>1 DEF k
<1>3. (Columns * (n + 1) + q) \div Columns = n + 1
  BY <1>1, <1>2, DivIs
<1>4. (Columns * n + q) % Columns = q
  BY <1>1, DivIs
<1> QED BY <1>2, <1>3, <1>4 DEF RowOf, ColOf

\* The last of m columns is in row n, counted from 1, or the next one.
LEMMA RowsIs ==
  ASSUME NEW m \in Nat, NEW n \in Nat, NEW q \in 0 .. Columns - 1, Prompt + m = Columns * n + q,
         q = 0 => n > 0
  PROVE  (Prompt + m + Columns - 1) \div Columns = IF q = 0 THEN n ELSE n + 1
<1> DEFINE C == Columns
           k == C * n
           x == Prompt + m + C - 1
<1>1. C \in Nat /\ C > 0 /\ Prompt \in Nat /\ k \in Nat
  BY VtAssumption, MultiLineAssumption
<1>2. C * (n + 1) = k + C
  BY <1>1
<1>3. CASE q = 0
  <2>1. x = C * n + (C - 1) /\ C - 1 \in 0 .. C - 1
    <3> HIDE DEF k
    <3> QED BY <1>1, <1>3 DEF k
  <2>2. (C * n + (C - 1)) \div C = n
    BY <1>1, <2>1, DivIs
  <2> QED BY <1>3, <2>1, <2>2
<1>4. CASE q # 0
  <2>1. x = C * (n + 1) + (q - 1) /\ q - 1 \in 0 .. C - 1 /\ n + 1 \in Nat
    <3>1. x = k + q + C - 1
      OBVIOUS
    <3> HIDE DEF k, x
    <3> QED BY <1>1, <1>2, <1>4, <3>1
  <2>2. (C * (n + 1) + (q - 1)) \div C = n + 1
    BY <1>1, <2>1, DivIs
  <2> QED BY <1>4, <2>1, <2>2
<1> QED BY <1>3, <1>4

WidthAt(t, p) == IF p < Len(t) THEN WidthOf(t[p + 1]) ELSE 0

\* Where the terminal puts the character at p.
Place(b, t, p) ==
  LET s == FreshAt(b, SubSeq(t, 1, p))
  IN  IF Wraps(s, WidthAt(t, p)) THEN <<s.row + 1, 0>> ELSE <<s.row, s.col>>

LEMMA WidthIs ==
  ASSUME NEW t \in Seq(Char), NEW p \in 0 .. Len(t)
  PROVE  WidthAt(t, p) \in {0, 1, 2}
<1>1. p < Len(t) => p + 1 \in 1 .. Len(t)
  BY LenProperties
<1>2. p < Len(t) => t[p + 1] \in Char
  BY <1>1, ElementOfSeq
<1> QED BY <1>2, Widths DEF WidthAt

\* The row below the first and the column that ColumnPos stands for.
LEMMA CursorIs ==
  ASSUME Columns > 2, Prompt > 0, NEW b \in Nat, NEW t \in Seq(Char), NEW p \in 0 .. Len(t)
  PROVE  /\ ColumnPos(t, p) \in Nat
         /\ \E n \in Nat, q \in 0 .. Columns - 1 :
              Prompt + ColumnPos(t, p) = Columns * n + q /\ Place(b, t, p) = <<b + n, q>>
<1> DEFINE s == FreshAt(b, SubSeq(t, 1, p))
           w == WidthAt(t, p)
           a == Before(t, p)
           C == Columns
<1>1. PICK m, q, n, f : AgreesAt(s, a, b, m, q, n, f)
  BY TextAgrees DEF Agrees
<1>2. w \in {0, 1, 2} /\ C \in Nat /\ C > 2 /\ Prompt \in Nat
  BY WidthIs, VtAssumption, MultiLineAssumption
<1>3. /\ a = Counted(m, q) /\ m \in Nat /\ q \in 0 .. C - 1 /\ n \in Nat
      /\ Prompt + m = C * n + q
  BY <1>1 DEF AgreesAt
<1>4. a.ret = m
  BY <1>3 DEF Counted
<1>5. /\ q + w <= C => ColumnPos(t, p) = m
      /\ q + w > C => ColumnPos(t, p) = m + 1 /\ q = C - 1
  <2>1. CASE p < Len(t)
    <3>1. ColumnPos(t, p) = Passed(a, t[p + 1]).ret /\ w = WidthOf(t[p + 1])
      BY <2>1 DEF ColumnPos, WidthAt
    <3> HIDE DEF a, w
    <3>2. /\ q + w < Columns => Passed(Counted(m, q), t[p + 1]) = Counted(m, q + w)
          /\ q + w = Columns => Passed(Counted(m, q), t[p + 1]) = Counted(m, 0)
          /\ q + w > Columns => /\ w = 2 /\ q = Columns - 1
                                /\ Passed(Counted(m, q), t[p + 1]) = Counted(m + 1, 2)
      BY <1>2, <1>3, <3>1, PassedIs
    <3>3. \A i, j : Counted(i, j).ret = i
      BY DEF Counted
    <3> QED BY <1>2, <1>3, <3>1, <3>2, <3>3
  <2>2. CASE ~(p < Len(t))
    <3>1. ColumnPos(t, p) = m /\ w = 0
      BY <1>4, <2>2 DEF ColumnPos, WidthAt
    <3> HIDE DEF w
    <3> QED BY <1>2, <1>3, <3>1
  <2> QED BY <2>1, <2>2
<1>6. ASSUME NEW g, NEW i, NEW j, NEW d, s = Scr(g, i, j, d)
      PROVE  s.row = i /\ s.col = j /\ s.pending = d
  <2> HIDE DEF s
  <2> QED BY <1>6 DEF Scr
<1>7. Place(b, t, p) = IF s.pending \/ s.col + w > C THEN <<s.row + 1, 0>> ELSE <<s.row, s.col>>
  BY DEF Place, Wraps
<1> DEFINE k == C * n
           l == C * (n + 1)
<1>8. k \in Nat /\ l = k + C
  BY <1>2, <1>3
<1> HIDE DEF s, w, a
<1>9. CASE q = 0
  <2>1. s = Scr(f, b + n - 1, C - 1, On) /\ n > 0
    BY <1>1, <1>9 DEF AgreesAt
  <2>2. s.pending
    BY <1>6, <2>1 DEF On
  <2>3. s.row = b + n - 1
    BY <1>6, <2>1
  <2>4. Place(b, t, p) = <<b + n, 0>>
    BY <1>3, <1>7, <2>2, <2>3
  <2>5. ColumnPos(t, p) = m
    BY <1>2, <1>5, <1>9
  <2> HIDE DEF C
  <2> QED BY <1>3, <1>9, <2>4, <2>5 DEF C
<1>10. CASE q > 0
  <2>1. s = Scr(f, b + n, q, Off)
    BY <1>1, <1>10 DEF AgreesAt
  <2>2. ~s.pending
    BY <1>6, <2>1 DEF Off
  <2>3. s.row = b + n /\ s.col = q
    BY <1>6, <2>1
  <2>4. CASE q + w > C
    <3>1. Place(b, t, p) = <<b + (n + 1), 0>> /\ n + 1 \in Nat /\ 0 \in 0 .. C - 1
      BY <1>2, <1>3, <1>7, <2>3, <2>4
    <3>2. ColumnPos(t, p) = m + 1 /\ Prompt + (m + 1) = l + 0 /\ m + 1 \in Nat
      <4>1. Prompt + m = k + q
        BY <1>3
      <4> HIDE DEF k, l
      <4> QED BY <1>2, <1>3, <1>5, <1>8, <2>4, <4>1
    <3> QED BY <3>1, <3>2
  <2>5. CASE ~(q + w > C)
    <3>1. Place(b, t, p) = <<b + n, q>>
      BY <1>7, <2>2, <2>3, <2>5
    <3>2. ColumnPos(t, p) = m
      BY <1>2, <1>3, <1>5, <2>5
    <3> QED BY <1>3, <3>1, <3>2
  <2> QED BY <2>4, <2>5
<1> QED BY <1>3, <1>9, <1>10

LEMMA BeforeGrows ==
  ASSUME Columns > 2, Prompt > 0, NEW t \in Seq(Char), NEW i \in 0 .. Len(t), i < Len(t)
  PROVE  /\ Before(t, i).ret \in Nat /\ Before(t, i + 1).ret \in Nat
         /\ Before(t, i + 1).ret = ColumnPos(t, i) + WidthAt(t, i)
         /\ Before(t, i).ret <= Before(t, i + 1).ret
<1> DEFINE a == Before(t, i)
<1>1. Len(t) \in Nat /\ i \in Nat /\ i + 1 \in 1 .. Len(t) /\ 0 \in Nat
  BY LenProperties
<1>2. t[i + 1] \in Char
  BY <1>1, ElementOfSeq
<1>3. PICK m, q, n, f : AgreesAt(FreshAt(0, SubSeq(t, 1, i)), a, 0, m, q, n, f)
  BY <1>1, TextAgrees DEF Agrees
<1>4. a = Counted(m, q) /\ m \in Nat /\ q \in 0 .. Columns - 1
  BY <1>3 DEF AgreesAt
<1>5. Before(t, i + 1) = Advanced(a, t[i + 1])
  <2>1. Fold("count", Start, SubSeq(t, 1, i + 1)) =
          Does("count", Fold("count", Start, SubSeq(t, 1, i)), t[i + 1])
    BY <1>1, FoldNext
  <2>2. "count" # "write"
    OBVIOUS
  <2> QED BY <2>1, <2>2, BeforeIs DEF Does
<1> HIDE DEF a
<1> DEFINE w == WidthOf(t[i + 1])
           h == Passed(a, t[i + 1])
<1>6. Advanced(a, t[i + 1]) = [h EXCEPT !.ret = @ + w]
  BY DEF Advanced
<1>7. w \in {0, 1, 2} /\ WidthAt(t, i) = w /\ ColumnPos(t, i) = h.ret
  BY <1>1, <1>2, Widths DEF WidthAt, ColumnPos, a
<1> HIDE DEF w, h
<1>8. \E k : \E j \in {m, m + 1} : h = Counted(j, k)
  <2>1. /\ q + w < Columns => Passed(Counted(m, q), t[i + 1]) = Counted(m, q + w)
        /\ q + w = Columns => Passed(Counted(m, q), t[i + 1]) = Counted(m, 0)
        /\ q + w > Columns => /\ w = 2 /\ q = Columns - 1
                              /\ Passed(Counted(m, q), t[i + 1]) = Counted(m + 1, 2)
    BY <1>4, <1>7, PassedIs DEF w
  <2>2. q + w < Columns \/ q + w = Columns \/ q + w > Columns
    BY <1>4, <1>7, VtAssumption
  <2> QED BY <1>4, <2>1, <2>2 DEF h
<1>9. PICK k : \E j \in {m, m + 1} : h = Counted(j, k)
  BY <1>8
<1>12. PICK j \in {m, m + 1} : h = Counted(j, k)
  BY <1>9
<1>10. h.ret = j /\ [h EXCEPT !.ret = @ + w].ret = j + w /\ a.ret = m
  BY <1>4, <1>12 DEF Counted
<1>11. j + w \in Nat /\ m <= j + w
  BY <1>4, <1>7
<1> QED BY <1>4, <1>5, <1>6, <1>7, <1>10, <1>11 DEF a

LEMMA BeforeMonotonic ==
  ASSUME Columns > 2, Prompt > 0, NEW t \in Seq(Char), NEW i \in 0 .. Len(t), NEW j \in i .. Len(t)
  PROVE  Before(t, i).ret <= Before(t, j).ret /\ Before(t, j).ret \in Nat
<1> DEFINE r(x) == Before(t, x).ret
           P == {x \in Nat : x >= i => r(i) <= r(x) /\ r(x) \in Nat}
<1>1. Len(t) \in Nat /\ i \in Nat /\ j \in Nat /\ 0 \in Nat
  BY LenProperties
<1>2. r(i) \in Nat
  <2>1. PICK m, q, n, f : AgreesAt(FreshAt(0, SubSeq(t, 1, i)), Before(t, i), 0, m, q, n, f)
    BY <1>1, TextAgrees DEF Agrees
  <2> QED BY <2>1 DEF AgreesAt, Counted
<1>3. 0 \in P
  BY <1>1, <1>2
<1>4. ASSUME NEW k \in 0 .. j, k < j, k \in P
      PROVE  k + 1 \in P
  <2>1. k \in Nat /\ k + 1 \in Nat /\ k \in 0 .. Len(t) /\ k < Len(t)
    BY <1>1, <1>4
  <2>2. r(k) \in Nat /\ r(k + 1) \in Nat /\ r(k) <= r(k + 1)
    BY <2>1, BeforeGrows
  <2>3. k >= i => r(i) <= r(k)
    BY <1>4
  <2> HIDE DEF r
  <2>4. k + 1 >= i => r(i) <= r(k + 1) /\ r(k + 1) \in Nat
    <3>1. CASE k >= i
      BY <1>2, <2>2, <2>3, <3>1
    <3>2. CASE ~(k >= i)
      <4>1. k + 1 >= i => k + 1 = i
        BY <1>1, <2>1, <3>2
      <4> QED BY <1>2, <2>2, <4>1
    <3> QED BY <3>1, <3>2
  <2> QED BY <2>1, <2>4
<1>5. j \in P
  <2> HIDE DEF P
  <2>1. j \in 0 .. j
    BY <1>1
  <2> QED BY <1>1, <1>3, <1>4, <2>1, UpTo
<1> QED BY <1>1, <1>5

\* What is counted at the end of a text: q columns in the row after n full ones.
EndCounted(t, m, n, q) ==
  /\ m \in Nat /\ n \in Nat /\ q \in 0 .. Columns - 1
  /\ Prompt + m = Columns * n + q /\ (q = 0 => n > 0)
  /\ ColumnPos(t, Len(t)) = m
  /\ RowsOf(t) = IF q = 0 THEN n ELSE n + 1
  /\ Len(t) = 0 => q # 0

\* The terminal after a text, in the last row counted.
EndShown(b, t) ==
  \E f, j, d : /\ FreshAt(b, t) = Scr(f, b + RowsOf(t) - 1, j, d)
               /\ Kept(f, b, b + RowsOf(t) - 1) /\ f = [x \in Cell |-> f[x]]

LEMMA EndIs ==
  ASSUME Columns > 2, Prompt > 0, NEW b \in Nat, NEW t \in Seq(Char)
  PROVE  (\E m, n, q : EndCounted(t, m, n, q)) /\ EndShown(b, t)
<1>1. Len(t) \in Nat /\ SubSeq(t, 1, Len(t)) = t /\ Len(t) \in 0 .. Len(t)
  BY LenProperties, SubSeqFull
<1>2. PICK m, q, n, f : AgreesAt(FreshAt(b, t), Before(t, Len(t)), b, m, q, n, f)
  BY <1>1, TextAgrees DEF Agrees
<1>3. /\ Before(t, Len(t)) = Counted(m, q) /\ m \in Nat /\ q \in 0 .. Columns - 1 /\ n \in Nat
      /\ Prompt + m = Columns * n + q /\ f = [x \in Cell |-> f[x]]
  BY <1>2 DEF AgreesAt
<1>4. ColumnPos(t, Len(t)) = m
  BY <1>1, <1>3 DEF ColumnPos, Counted
<1>5. q = 0 => n > 0
  BY <1>2 DEF AgreesAt
<1>6. RowsOf(t) = IF q = 0 THEN n ELSE n + 1
  BY <1>3, <1>4, <1>5, RowsIs DEF RowsOf
<1>7. \E j, d : FreshAt(b, t) = Scr(f, b + RowsOf(t) - 1, j, d) /\ Kept(f, b, b + RowsOf(t) - 1)
  <2>1. CASE q = 0
    <3>1. FreshAt(b, t) = Scr(f, b + n - 1, Columns - 1, On) /\ Kept(f, b, b + n - 1)
      BY <1>2, <2>1 DEF AgreesAt
    <3> QED BY <1>6, <2>1, <3>1
  <2>2. CASE q # 0
    <3>1. FreshAt(b, t) = Scr(f, b + n, q, Off) /\ Kept(f, b, b + n)
      BY <1>2, <2>2 DEF AgreesAt
    <3>2. b + RowsOf(t) - 1 = b + n
      BY <1>3, <1>6, <2>2
    <3> QED BY <3>1, <3>2
  <2> QED BY <2>1, <2>2
<1>8. Len(t) = 0 => q # 0
  <2>1. ASSUME Len(t) = 0
        PROVE  q = Prompt
    <3>1. SubSeq(t, 1, 0) = <<>>
      BY SubSeqEmpty
    <3>2. Before(t, 0) = Start
      BY <3>1, BeforeIs, FoldNothing
    <3>3. Counted(m, q) = Counted(0, Prompt)
      BY <1>3, <2>1, <3>2 DEF Start
    <3>4. Counted(m, q).colwid = q /\ Counted(0, Prompt).colwid = Prompt
      BY DEF Counted
    <3> QED BY <3>3, <3>4
  <2> QED BY <2>1
<1>9. EndCounted(t, m, n, q)
  BY <1>3, <1>4, <1>5, <1>6, <1>8 DEF EndCounted
<1>10. EndShown(b, t)
  BY <1>3, <1>7, Zenon DEF EndShown
<1> QED BY <1>9, <1>10

\* The cursor is in one of the rows the text and the cursor take up.
LEMMA NotBeyond ==
  ASSUME Columns > 2, Prompt > 0, NEW t \in Seq(Char), NEW p \in Between(t)
  PROVE  /\ RowsOf(t) \in Nat /\ RowsOf(t) > 0 /\ RowsOf(t) <= RowsWithCursor(t, p)
         /\ RowsWithCursor(t, p) \in Nat
         /\ RowOf(ColumnPos(t, p)) \in Nat /\ RowOf(ColumnPos(t, p)) > 0
         /\ RowOf(ColumnPos(t, p)) <= RowsWithCursor(t, p)
         /\ p = Len(t) => RowOf(ColumnPos(t, p)) = RowsWithCursor(t, p)
<1> DEFINE C == Columns
<1>1. C \in Nat /\ C > 2 /\ Prompt \in Nat /\ Len(t) \in Nat /\ p \in 0 .. Len(t) /\ 0 \in Nat
  BY VtAssumption, MultiLineAssumption, LenProperties DEF Between
<1>2. PICK m \in Nat, q \in 0 .. C - 1, n \in Nat :
        /\ Prompt + m = C * n + q /\ (q = 0 => n > 0)
        /\ ColumnPos(t, Len(t)) = m
        /\ RowsOf(t) = IF q = 0 THEN n ELSE n + 1
        /\ Len(t) = 0 => q # 0
  <2>1. PICK m, n, q : EndCounted(t, m, n, q)
    BY <1>1, EndIs
  <2> QED BY <2>1, Zenon DEF EndCounted
<1>3. RowsOf(t) \in Nat /\ RowsOf(t) > 0
  BY <1>2
<1>4. RowsWithCursor(t, p) \in {RowsOf(t), RowsOf(t) + 1}
  BY <1>3 DEF RowsWithCursor
<1>5. RowOf(m) = n + 1 /\ ColOf(m) = q
  BY <1>2, PlaceIs
<1>6. CASE p = Len(t)
  <2>1. AtRowEnd(t, p) <=> q = 0
    BY <1>2, <1>5, <1>6 DEF AtRowEnd
  <2>2. RowsWithCursor(t, p) = n + 1
    BY <1>2, <2>1 DEF RowsWithCursor
  <2> QED BY <1>2, <1>3, <1>4, <1>5, <1>6, <2>2
<1>7. CASE p < Len(t)
  <2>1. RowsWithCursor(t, p) = RowsOf(t)
    BY <1>1, <1>3, <1>7 DEF RowsWithCursor, AtRowEnd
  <2>2. PICK i \in Nat, j \in 0 .. C - 1 : Prompt + ColumnPos(t, p) = C * i + j
    BY <1>1, CursorIs
  <2>3. ColumnPos(t, p) \in Nat
    BY <1>1, CursorIs
  <2>4. RowOf(ColumnPos(t, p)) = i + 1
    BY <2>2, <2>3, PlaceIs
  <2> DEFINE w == WidthAt(t, p)
  <2>5. w \in {0, 1, 2}
    BY <1>1, WidthIs
  <2>6. CASE w > 0
    <3>1. /\ Before(t, p + 1).ret = ColumnPos(t, p) + w
          /\ p + 1 \in 0 .. Len(t) /\ Len(t) \in p + 1 .. Len(t)
      BY <1>1, <1>7, BeforeGrows
    <3>2. Before(t, p + 1).ret <= Before(t, Len(t)).ret
      BY <3>1, BeforeMonotonic
    <3>3. Before(t, Len(t)).ret = m
      BY <1>1, <1>2 DEF ColumnPos
    <3> HIDE DEF w
    <3> DEFINE k == C * i
               l == C * n
    <3>4. k \in Nat /\ l \in Nat
      BY <1>1, <1>2, <2>2
    <3>5. k + j + w <= l + q
      <4>1. Prompt + ColumnPos(t, p) = k + j /\ Prompt + m = l + q
        BY <1>2, <2>2
      <4>2. ColumnPos(t, p) + w <= m
        BY <3>1, <3>2, <3>3
      <4> HIDE DEF k, l
      <4> QED BY <1>1, <1>2, <2>2, <2>3, <2>5, <3>4, <4>1, <4>2
    <3>6. i > n => k >= l + C
      <4>1. i > n => C * (i - n - 1) >= 0
        <5>1. i > n => i - n - 1 \in Nat
          BY <1>2, <2>2
        <5> QED BY <1>1, <5>1
      <4>2. C * (i - n - 1) = k - l - C
        BY <1>1, <1>2, <2>2
      <4> HIDE DEF k, l
      <4> QED BY <1>1, <3>4, <4>1, <4>2
    <3>7. i <= n
      <4> HIDE DEF k, l
      <4> QED BY <1>1, <1>2, <2>2, <2>5, <3>4, <3>5, <3>6
    <3>8. q = 0 => i # n
      <4>1. i = n => k = l
        OBVIOUS
      <4> HIDE DEF k, l
      <4> QED BY <1>1, <2>2, <2>5, <2>6, <3>4, <3>5, <4>1
    <3>9. i + 1 <= RowsOf(t)
      BY <1>2, <2>2, <3>7, <3>8
    <3> QED BY <1>3, <1>7, <2>1, <2>2, <2>4, <3>9
  <2>7. CASE w = 0
    <3>1. p = 0
      BY <1>1, <1>7, <2>7 DEF Between, WidthAt
    <3>2. ColumnPos(t, p) = 0
      <4>1. SubSeq(t, 1, 0) = <<>>
        BY SubSeqEmpty
      <4>2. Before(t, 0) = Counted(0, Prompt)
        BY <4>1, BeforeIs, FoldNothing DEF Start
      <4>3. WidthOf(t[0 + 1]) = 0 /\ Prompt \in 0 .. C - 1 /\ Prompt + 0 < C /\ Prompt + 0 = Prompt
        BY <1>1, <1>7, <2>7, <3>1, MultiLineAssumption DEF WidthAt
      <4>4. Passed(Counted(0, Prompt), t[0 + 1]) = Counted(0, Prompt)
        BY <1>1, <4>3, PassedIs
      <4>5. Counted(0, Prompt).ret = 0
        BY DEF Counted
      <4> QED BY <1>7, <3>1, <4>2, <4>4, <4>5 DEF ColumnPos
    <3>3. Prompt + 0 = C * 0 + Prompt /\ Prompt \in 0 .. C - 1
      BY <1>1, MultiLineAssumption
    <3>4. RowOf(0) = 0 + 1
      BY <1>1, <3>3, PlaceIs
    <3> QED BY <1>3, <1>7, <2>1, <3>2, <3>4
  <2> QED BY <2>5, <2>6, <2>7
<1> QED BY <1>1, <1>6, <1>7

-----------------------------------------------------------------------------
(* A refresh, once the rows are cleared.                                   *)

LEMMA PlaceOf ==
  ASSUME Columns > 2, Prompt > 0, NEW b \in Nat, NEW t \in Seq(Char), NEW p \in 0 .. Len(t)
  PROVE  LET m == ColumnPos(t, p)
         IN  /\ RowOf(m) \in Nat /\ RowOf(m) > 0 /\ ColOf(m) \in 0 .. Columns - 1
             /\ Place(b, t, p) = <<b + RowOf(m) - 1, ColOf(m)>>
<1> DEFINE m == ColumnPos(t, p)
<1>1. m \in Nat
  BY CursorIs
<1>2. PICK n \in Nat, q \in 0 .. Columns - 1 :
        Prompt + m = Columns * n + q /\ Place(b, t, p) = <<b + n, q>>
  BY CursorIs
<1> HIDE DEF m
<1>3. RowOf(m) = n + 1 /\ ColOf(m) = q
  BY <1>1, <1>2, PlaceIs
<1>4. b + RowOf(m) - 1 = b + n /\ RowOf(m) \in Nat /\ RowOf(m) > 0
  BY <1>3
<1> QED BY <1>2, <1>3, <1>4 DEF m

\* What is written when the cursor is at the end of a full row.
NextRow(t, p) == IF AtRowEnd(t, p) THEN <<Feed, Return>> ELSE <<>>

LEMMA NextRowRuns ==
  ASSUME Columns > 2, Prompt > 0, NEW b \in Nat, NEW t \in Seq(Char), NEW p \in Between(t)
  PROVE  /\ NextRow(t, p) \in Seq(Op)
         /\ FreshAt(b, t).cells = [x \in Cell |-> FreshAt(b, t).cells[x]]
         /\ Kept(FreshAt(b, t).cells, b, b + RowsOf(t) - 1)
         /\ \E j : Leads(FreshAt(b, t), NextRow(t, p), FreshAt(b, t).cells,
                         b + RowsWithCursor(t, p) - 1, j)
<1>1. PICK f, j, d : /\ FreshAt(b, t) = Scr(f, b + RowsOf(t) - 1, j, d)
                     /\ Kept(f, b, b + RowsOf(t) - 1) /\ f = [x \in Cell |-> f[x]]
  BY EndIs, Zenon DEF EndShown
<1>2. FreshAt(b, t).cells = f
  BY <1>1 DEF Scr
<1>3. RowsOf(t) \in Nat
  BY NotBeyond
<1> DEFINE r == b + RowsOf(t) - 1
<1>4. CASE ~AtRowEnd(t, p)
  <2>1. NextRow(t, p) = <<>> /\ RowsWithCursor(t, p) = RowsOf(t)
    BY <1>3, <1>4 DEF NextRow, RowsWithCursor
  <2>2. Fold("write", FreshAt(b, t), <<>>) = Scr(f, r, j, d)
    BY <1>1, FoldNothing
  <2>3. Leads(FreshAt(b, t), <<>>, f, r, j)
    BY <2>2 DEF Leads
  <2>4. <<>> \in Seq(Op)
    OBVIOUS
  <2> QED BY <1>1, <1>2, <2>1, <2>3, <2>4
<1>5. CASE AtRowEnd(t, p)
  <2> DEFINE u == <<Feed>>
             v == <<Return>>
             s == Scr(f, r, j, d)
  <2>1. NextRow(t, p) = u \o v /\ u \in Seq(Op) /\ v \in Seq(Op)
    <3>1. u \o v = <<Feed, Return>>
      BY Ops, Pair
    <3> QED BY <1>5, <3>1, Ops, Single DEF NextRow
  <2>2. b + RowsWithCursor(t, p) - 1 = r + 1
    BY <1>3, <1>5 DEF RowsWithCursor
  <2>3. Fold("write", s, u) = Scr(f, r + 1, 0, Off)
    BY Writes, Escapes
  <2>4. Fold("write", Scr(f, r + 1, 0, Off), v) = Scr(f, r + 1, 0, Off)
    BY Writes, Escapes
  <2> HIDE DEF u, v, s
  <2>5. Fold("write", s, u \o v) = Fold("write", Fold("write", s, u), v)
    BY <2>1, FoldJoined
  <2>6. u \o v \in Seq(Op)
    BY <2>1, ConcatProperties
  <2>7. Leads(s, u \o v, f, r + 1, 0)
    BY <2>3, <2>4, <2>5 DEF Leads
  <2> QED BY <1>1, <1>2, <2>1, <2>2, <2>6, <2>7 DEF s
<1> QED BY <1>4, <1>5

LEMMA OutputRuns ==
  ASSUME Columns > 2, Prompt > 0, NEW b \in Nat, NEW t \in Seq(Char), NEW p \in Between(t),
         NEW s, Clearing \in Seq(Op), Fold("write", s, Clearing) = Base(b)
  PROVE  LET m == ColumnPos(t, p)
         IN  Fold("write", s, Output(t, p)) =
               Scr(FreshAt(b, t).cells, b + RowOf(m) - 1, ColOf(m), Off)
<1> DEFINE m  == ColumnPos(t, p)
           f  == FreshAt(b, t).cells
           k  == RowsWithCursor(t, p)
           q1 == PromptText
           q2 == Written(t)
           q3 == NextRow(t, p)
           q4 == Up(k - RowOf(m))
           q5 == <<Return>>
           q6 == Right(ColOf(m))
           w1 == Clearing \o q1
           w2 == w1 \o q2
           w3 == w2 \o q3
           w4 == w3 \o q4
           w5 == w4 \o q5
<1>1. Output(t, p) = w5 \o q6
  BY Zenon DEF Output, NextRow
<1>2. p \in 0 .. Len(t)
  BY LenProperties DEF Between
<1>3. RowOf(m) \in Nat /\ RowOf(m) > 0 /\ ColOf(m) \in 0 .. Columns - 1
  BY <1>2, PlaceOf
<1>4. k \in Nat /\ RowOf(m) <= k
  BY NotBeyond
<1> HIDE DEF m, f, k
<1>5. k - RowOf(m) \in Nat /\ Floor(b + k - 1, k - RowOf(m)) = b + RowOf(m) - 1 /\ b + k - 1 \in Nat
  BY <1>3, <1>4 DEF Floor
<1>6. q1 \in Seq(Op)
  BY PromptOps
<1>7. q2 \in Seq(Op)
  BY WrittenOps
<1>8. q3 \in Seq(Op) /\ \E j : Leads(FreshAt(b, t), q3, f, b + k - 1, j)
  BY NextRowRuns DEF f, k
<1>9. PICK j, d : Fold("write", FreshAt(b, t), q3) = Scr(f, b + k - 1, j, d)
  BY <1>8 DEF Leads
<1>10. q4 \in Seq(Op) /\ Leads(Scr(f, b + k - 1, j, d), q4, f, b + RowOf(m) - 1, j)
  <2>1. /\ q4 \in Seq(Op)
        /\ Leads(Scr(f, b + k - 1, j, d), q4, f, Floor(b + k - 1, k - RowOf(m)), j)
    BY <1>5, UpRuns
  <2> QED BY <1>5, <2>1
<1>11. PICK e : Fold("write", Scr(f, b + k - 1, j, d), q4) = Scr(f, b + RowOf(m) - 1, j, e)
  BY <1>10 DEF Leads
<1>12. q5 \in Seq(Op) /\ Fold("write", Scr(f, b + RowOf(m) - 1, j, e), q5)
                           = Scr(f, b + RowOf(m) - 1, 0, Off)
  <2>1. Fold("write", Scr(f, b + RowOf(m) - 1, j, e), q5) =
          Exec(Scr(f, b + RowOf(m) - 1, j, e), Return)
    BY Writes
  <2>2. Exec(Scr(f, b + RowOf(m) - 1, j, e), Return) = Scr(f, b + RowOf(m) - 1, 0, Off)
    BY Escapes
  <2> QED BY <2>1, <2>2, Ops, Single
<1>13. q6 \in Seq(Op) /\ Fold("write", Scr(f, b + RowOf(m) - 1, 0, Off), q6)
                           = Scr(f, b + RowOf(m) - 1, ColOf(m), Off)
  BY <1>3, RightRuns
<1> HIDE DEF q1, q2, q3, q4, q5, q6
<1>14. w1 \in Seq(Op) /\ Fold("write", s, w1) = Prompted(b)
  BY <1>6, FoldJoined, ConcatProperties DEF Prompted, q1
<1> HIDE DEF w1
<1>15. w2 \in Seq(Op) /\ Fold("write", s, w2) = FreshAt(b, t)
  <2>1. w2 \in Seq(Op) /\ Fold("write", s, w2) = Fold("write", Fold("write", s, w1), q2)
    BY <1>7, <1>14, FoldJoined, ConcatProperties
  <2>2. FreshAt(b, t) = Fold("write", Prompted(b), q2)
    BY FreshIs DEF q2
  <2> QED BY <1>14, <2>1, <2>2
<1> HIDE DEF w2
<1>16. w3 \in Seq(Op) /\ Fold("write", s, w3) = Scr(f, b + k - 1, j, d)
  <2>1. w3 \in Seq(Op) /\ Fold("write", s, w3) = Fold("write", Fold("write", s, w2), q3)
    BY <1>8, <1>15, FoldJoined, ConcatProperties
  <2> QED BY <1>9, <1>15, <2>1
<1> HIDE DEF w3
<1>17. w4 \in Seq(Op) /\ Fold("write", s, w4) = Scr(f, b + RowOf(m) - 1, j, e)
  <2>1. w4 \in Seq(Op) /\ Fold("write", s, w4) = Fold("write", Fold("write", s, w3), q4)
    BY <1>10, <1>16, FoldJoined, ConcatProperties
  <2> QED BY <1>11, <1>16, <2>1
<1> HIDE DEF w4
<1>18. w5 \in Seq(Op) /\ Fold("write", s, w5) = Scr(f, b + RowOf(m) - 1, 0, Off)
  <2>1. w5 \in Seq(Op) /\ Fold("write", s, w5) = Fold("write", Fold("write", s, w4), q5)
    BY <1>12, <1>17, FoldJoined, ConcatProperties
  <2> QED BY <1>12, <1>17, <2>1
<1> HIDE DEF w5
<1>19. Fold("write", s, w5 \o q6) = Fold("write", Fold("write", s, w5), q6)
  BY <1>13, <1>18, FoldJoined
<1> QED BY <1>1, <1>13, <1>18, <1>19 DEF m, f

-----------------------------------------------------------------------------
(* The invariant: the terminal shows the line, the cursor is where the     *)
(* columns counted say, and the rows it has had begin where the prompt is, *)
(* take in the row of the cursor and fit on the screen.                    *)

Room(t) == \A p \in Between(t) : MaxTop + RowsWithCursor(t, p) <= Rows

Shown(t, p, o, m, s, b) ==
  /\ t \in Seq(Char) /\ p \in Between(t) /\ Room(t)
  /\ b \in 0 .. MaxTop
  /\ m \in Nat /\ b + Larger(m, 1) <= Rows
  /\ RowsWithCursor(t, p) <= Larger(m, 1)
  /\ o = ColumnPos(t, p)
  /\ s = Scr(FreshAt(b, t).cells, b + RowOf(o) - 1, ColOf(o), Off)

MInv == Shown(text, pos, oldcolpos, maxrows, screen, top)

\* A line of no characters has one row.
LEMMA EmptyLine ==
  ASSUME Columns > 2, Prompt > 0
  PROVE  /\ <<>> \in Seq(Char) /\ Between(<<>>) = {0} /\ Room(<<>>)
         /\ RowsWithCursor(<<>>, 0) = 1 /\ ColumnPos(<<>>, 0) = 0
         /\ RowOf(0) = 1 /\ ColOf(0) = Prompt
<1> DEFINE t == <<>>
<1>1. t \in Seq(Char) /\ Len(t) = 0
  OBVIOUS
<1>2. Prompt \in Nat /\ Columns \in Nat /\ Prompt < Columns
  BY MultiLineAssumption, VtAssumption
<1> HIDE DEF t
<1>3. Between(t) = {0}
  BY <1>1 DEF Between
<1>4. ColumnPos(t, 0) = 0
  <2>1. SubSeq(t, 1, 0) = <<>>
    BY SubSeqEmpty
  <2>2. Before(t, 0) = Counted(0, Prompt)
    BY <2>1, BeforeIs, FoldNothing DEF Start
  <2>3. Counted(0, Prompt).ret = 0
    BY DEF Counted
  <2> QED BY <1>1, <2>2, <2>3 DEF ColumnPos
<1>5. RowOf(0) = 0 + 1 /\ ColOf(0) = Prompt
  <2>1. Prompt + 0 = Columns * 0 + Prompt /\ Prompt \in 0 .. Columns - 1
    BY <1>2
  <2> QED BY <2>1, PlaceIs
<1>6. RowsWithCursor(t, 0) = 1
  <2>1. RowOf(ColumnPos(t, 0)) = RowsWithCursor(t, 0)
    BY <1>1, <1>3, NotBeyond
  <2> QED BY <1>4, <1>5, <2>1
<1>7. Room(t)
  BY <1>3, <1>6, VtAssumption, MultiLineAssumption DEF Room
<1> QED BY <1>1, <1>3, <1>4, <1>5, <1>6, <1>7 DEF t

\* An empty line after the prompt, in row b.
LEMMA PromptShown ==
  ASSUME Columns > 2, Prompt > 0, NEW b \in 0 .. MaxTop
  PROVE  Shown(<<>>, 0, 0, 0, Fold("write", Base(b), PromptText), b)
<1>1. b \in Nat /\ b + 1 <= Rows /\ b + 1 - 1 = b /\ Larger(0, 1) = 1 /\ 1 <= 1
  BY MultiLineAssumption, VtAssumption DEF Larger
<1>2. PICK f : Prompted(b) = Scr(f, b, Prompt, Off)
  BY <1>1, PromptRuns DEF PromptAt
<1>3. FreshAt(b, <<>>) = Prompted(b)
  <2>1. Written(<<>>) = <<>>
    BY DEF Written
  <2> QED BY <2>1, FreshIs, FoldNothing, EmptyLine
<1>4. Prompted(b).cells = f
  BY <1>2 DEF Scr
<1>5. Prompted(b) = Scr(FreshAt(b, <<>>).cells, b + RowOf(0) - 1, ColOf(0), Off)
  BY <1>1, <1>2, <1>3, <1>4, EmptyLine
<1> QED BY <1>1, <1>5, EmptyLine DEF Shown, Prompted

\* The rows the line has had are cleared: what is left is as if it never was.
LEMMA ClearsLine ==
  ASSUME Columns > 2, Prompt > 0, MInv
  PROVE  Clearing \in Seq(Op) /\ Fold("write", screen, Clearing) = Base(top)
<1> DEFINE f == FreshAt(top, text).cells
           h == Larger(maxrows, 1)
           k == Larger(maxrows - 1, 0)
           n == RowOf(oldcolpos)
           r == top + n - 1
           c == ColOf(oldcolpos)
<1>1. /\ text \in Seq(Char) /\ pos \in Between(text) /\ top \in Nat /\ maxrows \in Nat
      /\ top + h <= Rows /\ RowsWithCursor(text, pos) <= h
      /\ oldcolpos = ColumnPos(text, pos)
      /\ screen = Scr(f, r, c, Off) /\ Rows \in Nat
  <2>1. MInv /\ Rows \in Nat /\ MaxTop \in Nat
    BY MultiLineAssumption, VtAssumption
  <2>2. top \in Nat
    BY <2>1 DEF MInv, Shown
  <2> QED BY <2>1, <2>2, Zenon DEF MInv, Shown
<1>2. /\ RowsOf(text) \in Nat /\ RowsOf(text) <= RowsWithCursor(text, pos)
      /\ n \in Nat /\ n > 0 /\ n <= RowsWithCursor(text, pos)
      /\ RowsWithCursor(text, pos) \in Nat
  BY <1>1, NotBeyond
<1>3. f = [x \in Cell |-> f[x]] /\ Kept(f, top, top + RowsOf(text) - 1)
  BY <1>1, NextRowRuns
<1> HIDE DEF f, n
<1>4. k + 1 = h /\ h \in Nat /\ h > 0 /\ k \in Nat
  BY <1>1 DEF Larger
<1>5. Lowest(r) = top + h - 1
  <2>1. Lowest(r) = IF maxrows - n > 0 THEN Lesser(r + (maxrows - n), Rows - 1) ELSE r
    BY DEF Lowest, n
  <2>2. h = IF maxrows < 1 THEN 1 ELSE maxrows
    BY DEF Larger
  <2> HIDE DEF h, k
  <2> QED BY <1>1, <1>2, <2>1, <2>2 DEF Lesser
<1>6. r \in Nat /\ top + h - 1 \in Nat
  BY <1>1, <1>2, <1>4
<1> HIDE DEF h, k, r, c
<1>7. /\ Clearing \in Seq(Op)
      /\ Fold("write", Scr(f, r, c, Off), Clearing) =
           Scr(Swept(f, top + h - 1, k + 1), Floor(top + h - 1, k), 0, Off)
  BY <1>1, <1>2, <1>5, <1>6, ClearingRuns DEF k, n
<1>8. Floor(top + h - 1, k) = top
  BY <1>1, <1>4 DEF Floor
<1>9. Swept(f, top + h - 1, k + 1) = BaseCells(top)
  <2> DEFINE F(x) == IF (top + h - 1) - (k + 1) < x[1] /\ x[1] <= top + h - 1 THEN " " ELSE f[x]
             G(x) == IF x[1] < top THEN "x" ELSE " "
  <2>1. ASSUME NEW x \in Cell PROVE F(x) = G(x)
    <3>1. x[1] \in Nat
      BY CellIs
    <3>2. (x[1] < top => f[x] = "x") /\ (x[1] > top + RowsOf(text) - 1 => f[x] = " ")
      BY <1>3 DEF Kept
    <3>3. \/ x[1] < top /\ ~((top + h - 1) - (k + 1) < x[1] /\ x[1] <= top + h - 1)
          \/ ~(x[1] < top) /\ ((top + h - 1) - (k + 1) < x[1] /\ x[1] <= top + h - 1)
          \/ ~(x[1] < top) /\ x[1] > top + RowsOf(text) - 1
      BY <1>1, <1>2, <1>4, <3>1
    <3> QED BY <3>2, <3>3
  <2>2. Swept(f, top + h - 1, k + 1) = [x \in Cell |-> F(x)] /\ BaseCells(top) = [x \in Cell |-> G(x)]
    BY Zenon DEF Swept, BaseCells
  <2> HIDE DEF F, G
  <2> QED BY <2>1, <2>2
<1> QED BY <1>1, <1>7, <1>8, <1>9, BaseIs DEF r, c

\* Nothing is left to clear on a screen that has just been cleared.
LEMMA ClearsNothing ==
  ASSUME Columns > 2, Prompt > 0, MInv
  PROVE  Clearing \in Seq(Op) /\ Fold("write", Cleared([row |-> 0]), Clearing) = Base(0)
<1> DEFINE f == BaseCells(0)
           k == Larger(maxrows - 1, 0)
           n == RowOf(oldcolpos)
<1>1. /\ text \in Seq(Char) /\ pos \in Between(text) /\ top \in Nat /\ maxrows \in Nat
      /\ top + Larger(maxrows, 1) <= Rows /\ oldcolpos = ColumnPos(text, pos) /\ Rows \in Nat
  <2>1. MInv /\ Rows \in Nat /\ MaxTop \in Nat
    BY MultiLineAssumption, VtAssumption
  <2>2. top \in Nat
    BY <2>1 DEF MInv, Shown
  <2> QED BY <2>1, <2>2, Zenon DEF MInv, Shown
<1>2. n \in Nat /\ n > 0
  BY <1>1, NotBeyond
<1>3. \A x \in Cell : x[1] \in Nat /\ f[x] = " "
  BY CellIs DEF BaseCells
<1>4. Cleared([row |-> 0]) = Scr(f, 0, 0, Off)
  <2>1. f = [x \in Cell |-> " "]
    BY <1>3 DEF BaseCells
  <2> HIDE DEF f
  <2> QED BY <2>1, Zenon DEF Cleared, Scr, Off
<1> HIDE DEF f, n
<1>5. maxrows <= Rows /\ k \in Nat
  BY <1>1 DEF Larger
<1>6. Lowest(0) \in Nat /\ Lowest(0) <= k
  <2>1. Lowest(0) = IF maxrows - n > 0 THEN Lesser(0 + (maxrows - n), Rows - 1) ELSE 0
    BY DEF Lowest, n
  <2> QED BY <1>1, <1>2, <1>5, <2>1 DEF Lesser, Larger
<1> HIDE DEF k
<1>7. /\ Clearing \in Seq(Op)
      /\ Fold("write", Scr(f, 0, 0, Off), Clearing) =
           Scr(Swept(f, Lowest(0), k + 1), Floor(Lowest(0), k), 0, Off)
  BY <1>1, <1>2, <1>6, ClearingRuns DEF k, n
<1>8. Floor(Lowest(0), k) = 0
  BY <1>5, <1>6 DEF Floor
<1>9. Swept(f, Lowest(0), k + 1) = f
  <2>1. f = [x \in Cell |-> f[x]]
    BY DEF f, BaseCells
  <2>2. \A x \in Cell : f[x] = " "
    BY <1>3
  <2> QED BY <2>1, <2>2 DEF Swept
<1> QED BY <1>4, <1>7, <1>8, <1>9, BaseIs DEF f

\* What a refresh leaves is the text it was for.
LEMMA RefreshShows ==
  ASSUME Columns > 2, Prompt > 0, maxrows \in Nat, NEW b \in 0 .. MaxTop, b + maxrows <= Rows,
         NEW t \in Seq(Char), Room(t), NEW p \in Between(t), NEW s,
         Clearing \in Seq(Op), Fold("write", s, Clearing) = Base(b)
  PROVE  Shown(t, p, ColumnPos(t, p), Larger(maxrows, RowsWithCursor(t, p)),
               FoldLeft(Exec, s, Output(t, p)), b)
<1>1. b \in Nat /\ Rows \in Nat /\ MaxTop \in Nat
  BY MultiLineAssumption, VtAssumption
<1>2. FoldLeft(Exec, s, Output(t, p)) = Fold("write", s, Output(t, p))
  BY DEF Fold
<1>3. Fold("write", s, Output(t, p)) =
        Scr(FreshAt(b, t).cells, b + RowOf(ColumnPos(t, p)) - 1, ColOf(ColumnPos(t, p)), Off)
  BY <1>1, OutputRuns
<1> DEFINE w == RowsWithCursor(t, p)
<1>4. w \in Nat /\ w > 0
  BY NotBeyond
<1>5. MaxTop + w <= Rows
  BY DEF Room
<1> HIDE DEF w
<1>6. /\ Larger(maxrows, w) \in Nat /\ b + Larger(Larger(maxrows, w), 1) <= Rows
      /\ w <= Larger(Larger(maxrows, w), 1)
  BY <1>1, <1>4, <1>5 DEF Larger
<1> QED BY <1>2, <1>3, <1>6 DEF Shown, w

\* The row the cursor is in when a line ends, and what the newline makes of it.
LEMMA EndedIs ==
  ASSUME Columns > 2, Prompt > 0, MInv
  PROVE  Ended = Scr(FreshAt(top, text).cells,
                     top + RowOf(ColumnPos(text, Len(text))) - 1, ColOf(ColumnPos(text, Len(text))), Off)
<1>1. text \in Seq(Char) /\ top \in Nat
  BY MultiLineAssumption, VtAssumption DEF MInv, Shown
<1>2. Len(text) \in Between(text)
  BY <1>1, LenProperties DEF Between
<1>3. CASE AtEnd
  BY <1>3, Zenon DEF AtEnd, Ended, MInv, Shown
<1>4. CASE ~AtEnd
  <2>1. Ended = Fold("write", screen, Output(text, Len(text)))
    BY <1>4 DEF Ended, Fold
  <2> QED BY <1>1, <1>2, <2>1, ClearsLine, OutputRuns
<1> QED BY <1>3, <1>4

\* Enter starts an empty line below what it leaves.
LEMMA NextLineShown ==
  ASSUME Columns > 2, Prompt > 0, MInv, Enter
  PROVE  MInv'
<1> DEFINE f == FreshAt(top, text).cells
           n == RowOf(ColumnPos(text, Len(text)))
           e == top + n
           s == Exec(Ended, Feed)
<1>1. text \in Seq(Char) /\ top \in Nat
  BY MultiLineAssumption, VtAssumption DEF MInv, Shown
<1>2. Len(text) \in Between(text)
  BY <1>1, LenProperties DEF Between
<1>3. n \in Nat /\ n > 0 /\ RowsOf(text) \in Nat /\ RowsOf(text) <= n
  BY <1>1, <1>2, NotBeyond
<1>4. Kept(f, top, top + RowsOf(text) - 1)
  BY <1>1, <1>2, NextRowRuns
<1>5. Ended = Scr(f, top + n - 1, ColOf(ColumnPos(text, Len(text))), Off)
  BY EndedIs
<1> HIDE DEF f, n
<1>6. s = Scr(f, e, 0, Off)
  <2>1. (top + n - 1) + 1 = e
    BY <1>1, <1>3
  <2> QED BY <1>5, <2>1, Escapes
<1>7. s.row = e
  BY <1>6 DEF Scr
<1>8. Above(s, s.row) = Base(e)
  <2> DEFINE F(x) == IF x[1] < e THEN "x" ELSE f[x]
             G(x) == IF x[1] < e THEN "x" ELSE " "
             g == [x \in Cell |-> F(x)]
  <2>1. ASSUME NEW x \in Cell PROVE F(x) = G(x)
    <3>1. x[1] \in Nat
      BY CellIs
    <3>2. x[1] > top + RowsOf(text) - 1 => f[x] = " "
      BY <1>4 DEF Kept
    <3>3. x[1] < e \/ x[1] > top + RowsOf(text) - 1
      BY <1>1, <1>3, <3>1
    <3> QED BY <3>2, <3>3
  <2>2. BaseCells(e) = [x \in Cell |-> G(x)]
    BY Zenon DEF BaseCells
  <2>3. s.cells = f
    BY <1>6 DEF Scr
  <2>4. Above(s, e) = [s EXCEPT !.cells = g]
    BY <2>3 DEF Above
  <2> HIDE DEF F, G, s
  <2>5. g = BaseCells(e)
    BY <2>1, <2>2
  <2> HIDE DEF g, e
  <2>6. [s EXCEPT !.cells = g] = Scr(g, e, 0, Off)
    BY <1>6 DEF Scr
  <2> QED BY <1>7, <2>4, <2>5, <2>6, BaseIs
<1>9. /\ e <= MaxTop /\ top' = e
      /\ screen' = FoldLeft(Exec, Above(s, s.row), PromptText)
      /\ text' = <<>> /\ pos' = 0 /\ oldcolpos' = 0 /\ maxrows' = 0
  <2> HIDE DEF e
  <2> QED BY <1>7 DEF Enter
<1>10. e \in 0 .. MaxTop
  BY <1>1, <1>3, <1>9, MultiLineAssumption, VtAssumption
<1> HIDE DEF e, s
<1>11. screen' = Fold("write", Base(e), PromptText)
  BY <1>8, <1>9 DEF Fold
<1>12. Shown(<<>>, 0, 0, 0, Fold("write", Base(e), PromptText), e)
  BY <1>10, PromptShown
<1>13. MInv' <=> Shown(text', pos', oldcolpos', maxrows', screen', top')
  BY DEF MInv
<1> QED BY <1>9, <1>11, <1>12, <1>13

\* A key, or a completion, or a line of the history.
LEMMA EditShown ==
  ASSUME Columns > 2, Prompt > 0, MInv, NEW t \in Texts, NEW p \in Between(t), Edit(t, p)
  PROVE  MInv'
<1>1. t \in Seq(Char) /\ Room(t)
  BY MultiLineAssumption, RoomAssumption DEF Room
<1>2. top \in 0 .. MaxTop /\ maxrows \in Nat /\ top + maxrows <= Rows
  <2>1. maxrows <= Larger(maxrows, 1)
    BY DEF MInv, Shown, Larger
  <2> QED BY <2>1, MultiLineAssumption, VtAssumption DEF MInv, Shown, Larger
<1>3. Shown(t, p, ColumnPos(t, p), Larger(maxrows, RowsWithCursor(t, p)),
            FoldLeft(Exec, screen, Output(t, p)), top)
  BY <1>1, <1>2, ClearsLine, RefreshShows
<1>4. MInv' <=> Shown(text', pos', oldcolpos', maxrows', screen', top')
  BY DEF MInv
<1> QED BY <1>3, <1>4, Zenon DEF Edit, refreshMultiLine

\* Ctrl-l.
LEMMA ClearShown ==
  ASSUME Columns > 2, Prompt > 0, MInv, ClearScreen
  PROVE  MInv'
<1>1. text \in Seq(Char) /\ Room(text) /\ pos \in Between(text)
  BY DEF MInv, Shown
<1>2. 0 \in 0 .. MaxTop /\ maxrows \in Nat /\ 0 + maxrows <= Rows
  BY MultiLineAssumption, VtAssumption DEF MInv, Shown, Larger
<1>3. Shown(text, pos, ColumnPos(text, pos), Larger(maxrows, RowsWithCursor(text, pos)),
            FoldLeft(Exec, Cleared([row |-> 0]), Output(text, pos)), 0)
  BY <1>1, <1>2, ClearsNothing, RefreshShows
<1>4. MInv' <=> Shown(text', pos', oldcolpos', maxrows', screen', top')
  BY DEF MInv
<1> QED BY <1>3, <1>4, Zenon DEF ClearScreen, refreshMultiLine

-----------------------------------------------------------------------------
(***************************************************************************)
(* Whatever is typed, with the cursor left wherever it may be, the         *)
(* terminal shows the prompt and the line and refreshMultiLine knows the   *)
(* rows they take.  A terminal of two columns and a line without a prompt  *)
(* are left out: LineShown and CursorShown are false there.                *)
(***************************************************************************)
THEOREM LineIsKnown ==
  ASSUME Columns > 2, Prompt > 0
  PROVE  Spec => []MInv
<1>1. Init => MInv
  <2> SUFFICES ASSUME Init PROVE MInv
    OBVIOUS
  <2>1. screen = Fold("write", Base(top), PromptText) /\ top \in 0 .. MaxTop
    BY DEF Init, Fold, Base
  <2>2. Shown(<<>>, 0, 0, 0, Fold("write", Base(top), PromptText), top)
    BY <2>1, PromptShown
  <2> QED BY <2>1, <2>2, Zenon DEF Init, MInv
<1>2. MInv /\ [Next]_vars => MInv'
  <2> SUFFICES ASSUME MInv, [Next]_vars PROVE MInv'
    OBVIOUS
  <2>1. CASE \E t \in Texts : \E p \in Between(t) : Edit(t, p)
    BY <2>1, EditShown, Zenon
  <2>2. CASE ClearScreen
    BY <2>2, ClearShown, Zenon
  <2>3. CASE Enter
    BY <2>3, NextLineShown, Zenon
  <2>4. CASE UNCHANGED vars
    BY <2>4, Zenon DEF vars, MInv
  <2> QED BY <2>1, <2>2, <2>3, <2>4, Zenon DEF Next
<1> QED BY <1>1, <1>2, PTL DEF Spec

(***************************************************************************)
(* LineShown for every width, prompt and set of texts: refreshMultiLine,   *)
(* which never sees the screen, leaves the prompt and the line on it and   *)
(* nothing of what was there before.                                       *)
(***************************************************************************)
THEOREM LineIsShown ==
  ASSUME Columns > 2, Prompt > 0
  PROVE  Spec => []LineShown
<1>1. MInv => LineShown
  <2> SUFFICES ASSUME MInv PROVE screen.cells = FreshAt(top, text).cells
    BY DEF LineShown, Fresh, FreshAt, Base, Fold
  <2>1. screen = Scr(FreshAt(top, text).cells, top + RowOf(oldcolpos) - 1, ColOf(oldcolpos), Off)
    BY Zenon DEF MInv, Shown
  <2> QED BY <2>1 DEF Scr
<1> QED BY <1>1, LineIsKnown, PTL

(***************************************************************************)
(* CursorShown in the same generality: the row and column computed from    *)
(* unicodeColumnPosForMultiLine are those the terminal uses.               *)
(***************************************************************************)
THEOREM CursorIsShown ==
  ASSUME Columns > 2, Prompt > 0
  PROVE  Spec => []CursorShown
<1>1. MInv => CursorShown
  <2> SUFFICES ASSUME MInv PROVE CursorShown
    OBVIOUS
  <2> DEFINE m == ColumnPos(text, pos)
  <2>1. text \in Seq(Char) /\ top \in Nat /\ pos \in 0 .. Len(text)
    BY MultiLineAssumption, VtAssumption DEF MInv, Shown, Between
  <2>2. screen = Scr(FreshAt(top, text).cells, top + RowOf(m) - 1, ColOf(m), Off)
    BY Zenon DEF MInv, Shown
  <2>3. Place(top, text, pos) = <<top + RowOf(m) - 1, ColOf(m)>>
    BY <2>1, PlaceOf
  <2> HIDE DEF m
  <2>4. <<screen.row, screen.col>> = Place(top, text, pos)
    BY <2>2, <2>3 DEF Scr
  <2>5. Fresh(SubSeq(text, 1, pos)) = FreshAt(top, SubSeq(text, 1, pos))
    BY DEF Fresh, FreshAt, Base, Fold
  <2> QED BY <2>4, <2>5, Zenon DEF CursorShown, Place, WidthAt
<1> QED BY <1>1, LineIsKnown, PTL
=============================================================================
