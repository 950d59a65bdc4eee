------------------------- MODULE SmallVectorProofs --------------------------
(***************************************************************************)
(* Proofs that small_vector keeps its elements inside buffers it owns and  *)
(* implements sequences, for any number of vectors and blocks and any      *)
(* inline size.  MaxSize takes part in no step.                            *)
(***************************************************************************)
EXTENDS SmallVector, SequenceTheorems, TLAPS

\* Inline buffers keep their size, and an object that is not constructed is
\* as its constructor will make it.
Dormant ==
  /\ \A v \in Vec : Len(mem[v]) = Min
  /\ \A v \in Vec \ live : vec[v] = Empty(v)

IInv == TypeOK /\ InBounds /\ Owned /\ Dormant

\* s is a vector and a memory that operations on v may leave.
Sound(v, s) ==
  /\ s.vec \in Object
  /\ s.mem \in [Buffer -> Seq(Cell)]
  /\ s.vec.base \in {v} \cup Heap
  /\ s.vec.cap = Len(s.mem[s.vec.base])
  /\ s.vec.end <= s.vec.cap
  /\ Len(s.mem[v]) = Min
  /\ s.vec.base \in Heap => s.mem[s.vec.base] # <<>>
  /\ s.vec.base # vec[v].base =>
       /\ s.vec.base \in Heap => mem[s.vec.base] = <<>>
       /\ vec[v].base \in Heap => s.mem[vec[v].base] = <<>>
  /\ \A b \in Buffer \ {v, vec[v].base, s.vec.base} : s.mem[b] = mem[b]

-----------------------------------------------------------------------------
(* Buffers.                                                                *)

LEMMA FreshType == ASSUME NEW n \in Nat PROVE Fresh(n) \in Seq(Cell) /\ Len(Fresh(n)) = n
  BY DEF Fresh, Cell

\* A buffer that cells are copied into keeps its size.
LEMMA CopiedType ==
  ASSUME NEW m \in [Buffer -> Seq(Cell)], NEW from \in Buffer, NEW to \in Buffer, NEW n \in Nat,
         n <= Len(m[from])
  PROVE  /\ Copied(m, from, to, n) \in [Buffer -> Seq(Cell)]
         /\ Len(Copied(m, from, to, n)[to]) = Len(m[to])
         /\ \A b \in Buffer \ {to} : Copied(m, from, to, n)[b] = m[b]
         /\ \A i \in 1 .. Len(m[to]) :
              Copied(m, from, to, n)[to][i] = IF i <= n THEN m[from][i] ELSE m[to][i]
  <1> DEFINE c == [i \in DOMAIN m[to] |-> IF i <= n THEN m[from][i] ELSE m[to][i]]
  <1>1. m[to] \in Seq(Cell) /\ m[from] \in Seq(Cell)
    OBVIOUS
  <1>2. DOMAIN m[to] = 1 .. Len(m[to]) /\ Len(m[to]) \in Nat
    BY <1>1
  <1>3. \A i \in 1 .. Len(m[to]) : c[i] \in Cell
    BY <1>1, <1>2
  <1>4. c \in [1 .. Len(m[to]) -> Cell]
    BY <1>2, <1>3
  <1>5. c \in Seq(Cell) /\ Len(c) = Len(m[to])
    BY <1>2, <1>4
  <1>6. Copied(m, from, to, n) = [m EXCEPT ![to] = c]
    BY DEF Copied
  <1>7. QED
    BY <1>2, <1>5, <1>6

\* A vector that grows takes a free block, moves its elements there and gives
\* its old block back.
LEMMA Reserving ==
  ASSUME IInv, NEW v \in Vec, NEW e \in 0 .. vec[v].end, NEW n \in Nat,
         NEW s \in Reserved(mem, v, [vec[v] EXCEPT !.end = e], n)
  PROVE  /\ Sound(v, s)
         /\ s.vec.end = e
         /\ n <= s.vec.cap
         /\ \A i \in 1 .. e : s.mem[s.vec.base][i] = mem[vec[v].base][i]
         /\ s.vec.base = vec[v].base => s.mem = mem
         /\ vec[v].base = v => s.mem[v] = mem[v]
  <1> DEFINE r == [vec[v] EXCEPT !.end = e]
  <1>1. /\ vec[v] \in Object /\ mem \in [Buffer -> Seq(Cell)]
    BY DEF IInv, TypeOK
  <1>0. r \in Object /\ r.end = e /\ r.base = vec[v].base /\ r.cap = vec[v].cap /\ e \in Nat
    <2>1. vec[v].end \in Nat /\ e \in Nat
      BY <1>1 DEF Object
    <2>2. QED
      BY <1>1, <2>1 DEF Object
  <1>2. /\ r.base \in {v} \cup Heap /\ r.cap = Len(mem[r.base]) /\ e <= r.cap /\ Len(mem[v]) = Min
        /\ r.base \in Buffer /\ v \in Buffer /\ v \notin Heap
    BY <1>1, SmallVectorAssumption DEF IInv, InBounds, Dormant, Buffer, Object
  <1>3. r.base \in Heap => mem[r.base] # <<>>
    <2>1. SUFFICES ASSUME r.base \in Heap PROVE mem[r.base] # <<>>
      OBVIOUS
    <2>2. vec[v].base # v
      BY <2>1, <1>0, <1>2
    <2>3. v \in live
      <3>1. Empty(v).base = v
        BY DEF Empty
      <3>2. QED
        BY <2>2, <3>1 DEF IInv, Dormant
    <2>4. QED
      BY <2>1, <2>3, <1>0 DEF IInv, Owned
  <1>4. CASE n <= r.cap
    <2>1. s = [vec |-> r, mem |-> mem]
      BY <1>4 DEF Reserved
    <2> HIDE DEF r
    <2>2. Sound(v, s)
      BY <2>1, <1>0, <1>1, <1>2, <1>3 DEF Sound
    <2>3. QED
      BY <2>1, <2>2, <1>0, <1>1, <1>4
  <1>5. CASE ~(n <= r.cap)
    <2>1. PICK h \in Unused(mem), t \in Grown(r.cap, n) :
            s = [vec |-> [base |-> h, end |-> r.end, cap |-> t],
                 mem |-> Freed(Copied([mem EXCEPT ![h] = Fresh(t)], r.base, h, r.end), v, r)]
      BY <1>5 DEF Reserved
    <2> HIDE DEF r
    <2>2. h \in Heap /\ mem[h] = <<>> /\ h # r.base /\ h # v /\ h \in Buffer
      BY <1>2, <1>3 DEF Unused, Buffer
    <2>3. t \in Nat /\ n <= t /\ r.cap < t /\ r.cap \in Nat
      BY <1>0, <1>1, <1>5 DEF Grown, Object
    <2> DEFINE m1 == [mem EXCEPT ![h] = Fresh(t)]
               m2 == Copied(m1, r.base, h, r.end)
    <2>4. /\ m1 \in [Buffer -> Seq(Cell)] /\ m1[h] = Fresh(t) /\ Len(m1[h]) = t
          /\ \A b \in Buffer \ {h} : m1[b] = mem[b]
      BY <1>0, <1>1, <2>2, <2>3, FreshType
    <2>5. r.end \in Nat /\ r.end <= Len(m1[r.base])
      BY <1>0, <1>0, <1>1, <1>2, <2>2, <2>4
    <2>6. /\ m2 \in [Buffer -> Seq(Cell)] /\ Len(m2[h]) = t
          /\ \A b \in Buffer \ {h} : m2[b] = mem[b]
          /\ \A i \in 1 .. t : m2[h][i] = IF i <= e THEN mem[r.base][i] ELSE m1[h][i]
      <3> HIDE DEF m1, m2
      <3>1. m2 = Copied(m1, r.base, h, r.end)
        BY DEF m2
      <3>2. /\ Copied(m1, r.base, h, r.end) \in [Buffer -> Seq(Cell)]
            /\ Len(Copied(m1, r.base, h, r.end)[h]) = Len(m1[h])
            /\ \A b \in Buffer \ {h} : Copied(m1, r.base, h, r.end)[b] = m1[b]
            /\ \A i \in 1 .. Len(m1[h]) : Copied(m1, r.base, h, r.end)[h][i] =
                 IF i <= r.end THEN m1[r.base][i] ELSE m1[h][i]
        BY <1>2, <2>2, <2>4, <2>5, CopiedType
      <3>3. QED
        BY <3>1, <3>2, <1>0, <1>2, <2>2, <2>4
    <2> HIDE DEF m1, m2
    <2>7. s.vec = [base |-> h, end |-> e, cap |-> t] /\ s.mem = Freed(m2, v, r)
      BY <2>1, <1>0, <1>1 DEF m1, m2
    <2>8. s.mem = IF r.base = v THEN m2 ELSE [m2 EXCEPT ![r.base] = <<>>]
      BY <2>7 DEF Freed
    <2>9. /\ s.mem \in [Buffer -> Seq(Cell)] /\ s.mem[h] = m2[h]
          /\ r.base # v => s.mem[r.base] = <<>>
          /\ \A b \in Buffer \ {h, r.base} : s.mem[b] = mem[b]
          /\ s.mem[v] = mem[v]
      BY <2>8, <2>6, <2>2, <1>2
    <2>10. s.mem[h] # <<>>
      BY <2>9, <2>6, <2>3
    <2>11. Sound(v, s)
      BY <2>2, <2>3, <2>6, <2>7, <2>9, <2>10, <1>0, <1>1, <1>2 DEF Sound, Object
    <2>12. \A i \in 1 .. e : i \in 1 .. t
      BY <1>0, <1>1, <1>2, <2>3
    <2>13. QED
      BY <2>12, <2>2, <2>3, <2>6, <2>7, <2>9, <2>11, <1>0, <1>1, <1>2
  <1>6. QED
    BY <1>4, <1>5

\* The base of a vector is its inline buffer, or a block that is allocated.
LEMMA Bases ==
  ASSUME IInv, NEW w \in Vec
  PROVE  /\ vec[w] \in Object /\ vec[w].base \in Buffer /\ w \in Buffer /\ w \notin Heap
         /\ vec[w].base # w => vec[w].base \in Heap /\ mem[vec[w].base] # <<>> /\ w \in live
         /\ vec[w].end \in Nat /\ vec[w].cap \in Nat /\ vec[w].end <= vec[w].cap
         /\ vec[w].cap = Len(mem[vec[w].base]) /\ mem[vec[w].base] \in Seq(Cell)
         /\ Len(mem[w]) = Min /\ Min \in Nat
  <1>1. vec[w] \in Object /\ mem \in [Buffer -> Seq(Cell)]
    BY DEF IInv, TypeOK
  <1>2. vec[w].base \in {w} \cup Heap /\ w \in Buffer /\ w \notin Heap /\ vec[w].base \in Buffer
    BY SmallVectorAssumption DEF IInv, InBounds, Buffer
  <1>3. ASSUME vec[w].base # w PROVE vec[w].base \in Heap /\ mem[vec[w].base] # <<>> /\ w \in live
    <2>1. Empty(w).base = w
      BY DEF Empty
    <2>2. w \in live
      BY <2>1, <1>3 DEF IInv, Dormant
    <2>3. QED
      BY <2>2, <1>2, <1>3 DEF IInv, Owned
  <1>4. QED
    BY <1>1, <1>2, <1>3, SmallVectorAssumption DEF IInv, InBounds, Dormant, Object

\* What an operation on v leaves shares no buffer with another vector.
LEMMA Apart ==
  ASSUME IInv, NEW v \in Vec, NEW STATE s, Sound(v, s), NEW w \in Vec \ {v}
  PROVE  vec[w].base \notin {v, vec[v].base, s.vec.base}
  <1>1. vec[w].base # vec[v].base /\ vec[w].base # v
    BY Bases DEF IInv, Owned
  <1>2. CASE s.vec.base \in {v, vec[v].base}
    BY <1>1, <1>2
  <1>3. CASE s.vec.base \notin {v, vec[v].base}
    <2>1. s.vec.base \in Heap /\ mem[s.vec.base] = <<>>
      BY <1>3 DEF Sound
    <2>2. QED
      BY <1>1, <2>1, Bases
  <1>4. QED
    BY <1>2, <1>3

\* An operation on v that leaves it sound disturbs no other vector.
LEMMA Keeping ==
  ASSUME IInv, NEW v \in Vec, NEW STATE s, Sound(v, s), Becomes(v, s),
         live' \in {live, live \cup {v}}, v \in live'
  PROVE  IInv' /\ \A w \in Vec \ {v} : Value(w)' = Value(w)
  <1>1. /\ vec \in [Vec -> Object] /\ vec' = [vec EXCEPT ![v] = s.vec]
        /\ vec'[v] = s.vec /\ \A w \in Vec \ {v} : vec'[w] = vec[w]
    BY DEF IInv, TypeOK, Becomes
  <1>2. mem' = s.mem /\ mem' \in [Buffer -> Seq(Cell)] /\ live \subseteq Vec /\ live' \subseteq Vec
    BY DEF IInv, TypeOK, Becomes, Sound
  <1>3. \A w \in Vec \ {v} : vec[w].base \notin {v, vec[v].base, s.vec.base}
    BY Apart
  <1>4. \A w \in Vec \ {v} : mem'[vec[w].base] = mem[vec[w].base] /\ mem'[w] = mem[w]
    <2> TAKE w \in Vec \ {v}
    <2>1. mem'[vec[w].base] = mem[vec[w].base]
      BY <1>2, <1>3, Bases DEF Sound
    <2>2. w # vec[v].base /\ w # s.vec.base
      BY Bases DEF Sound
    <2>3. QED
      BY <2>1, <2>2, <1>2, Bases DEF Sound
  <1>5. TypeOK'
    BY <1>1, <1>2 DEF TypeOK, Sound
  <1>6. InBounds'
    <2>1. ASSUME NEW w \in Vec
          PROVE  /\ vec'[w].base \in {w} \cup Heap
                 /\ vec'[w].cap = Len(mem'[vec'[w].base])
                 /\ vec'[w].end <= vec'[w].cap
      <3>1. CASE w = v
        BY <3>1, <1>1, <1>2 DEF Sound
      <3>2. CASE w # v
        BY <3>2, <1>1, <1>4 DEF IInv, InBounds
      <3>3. QED
        BY <3>1, <3>2
    <2>2. QED
      BY <2>1 DEF InBounds
  <1>7. Owned'
    <2>1. \A u, w \in Vec : vec'[u].base = vec'[w].base => u = w
      <3>1. \A w \in Vec \ {v} : vec'[w].base # vec'[v].base
        BY <1>1, <1>3
      <3>2. \A u, w \in Vec \ {v} : vec'[u].base = vec'[w].base => u = w
        BY <1>1 DEF IInv, Owned
      <3>3. QED
        BY <3>1, <3>2
    <2>2. ASSUME NEW h \in Heap PROVE mem'[h] # <<>> <=> \E w \in live' : vec'[w].base = h
      <3>1. CASE h = s.vec.base
        BY <3>1, <1>1, <1>2 DEF Sound
      <3>2. CASE h # s.vec.base /\ h = vec[v].base
        <4>1. mem'[h] = <<>>
          BY <3>2, <1>2 DEF Sound
        <4>2. \A w \in Vec : vec'[w].base # h
          BY <3>2, <1>1, <1>3
        <4>3. QED
          BY <4>1, <4>2, <1>2
      <3>3. CASE h # s.vec.base /\ h # vec[v].base
        <4>1. h # v /\ h \in Buffer
          BY Bases DEF Buffer
        <4>2. mem'[h] = mem[h]
          BY <4>1, <3>3, <1>2 DEF Sound
        <4>3. (\E w \in live' : vec'[w].base = h) <=> \E w \in live : vec[w].base = h
          BY <3>3, <1>1, <1>2
        <4>4. QED
          BY <4>2, <4>3 DEF IInv, Owned
      <3>4. QED
        BY <3>1, <3>2, <3>3
    <2>3. QED
      BY <2>1, <2>2 DEF Owned
  <1>8. Dormant'
    <2>1. \A w \in Vec : Len(mem'[w]) = Min
      BY <1>2, <1>4 DEF IInv, Dormant, Sound
    <2>2. \A w \in Vec \ live' : vec'[w] = Empty(w)
      BY <1>1 DEF IInv, Dormant
    <2>3. QED
      BY <2>1, <2>2 DEF Dormant, Empty
  <1>9. \A w \in Vec \ {v} : Value(w)' = Value(w)
    BY <1>1, <1>4 DEF Value
  <1>10. QED
    BY <1>5, <1>6, <1>7, <1>8, <1>9 DEF IInv

-----------------------------------------------------------------------------
(* What the operations leave.                                              *)

\* Moving end inside the buffer.
LEMMA Resizing ==
  ASSUME IInv, NEW v \in Vec, NEW e \in 0 .. vec[v].cap
  PROVE  Sound(v, [vec |-> [vec[v] EXCEPT !.end = e], mem |-> mem])
  <1>1. /\ [vec[v] EXCEPT !.end = e] \in Object /\ [vec[v] EXCEPT !.end = e].end = e
        /\ [vec[v] EXCEPT !.end = e].base = vec[v].base /\ [vec[v] EXCEPT !.end = e].cap = vec[v].cap
    BY Bases DEF Object
  <1>2. mem \in [Buffer -> Seq(Cell)] /\ e <= vec[v].cap
    BY Bases DEF IInv, TypeOK
  <1> DEFINE r == [vec[v] EXCEPT !.end = e]
  <1> HIDE DEF r
  <1>3. r \in Object /\ r.end = e /\ r.base = vec[v].base /\ r.cap = vec[v].cap
    BY <1>1 DEF r
  <1>4. Sound(v, [vec |-> r, mem |-> mem])
    BY <1>2, <1>3, Bases DEF Sound
  <1>5. QED
    BY <1>4 DEF r

\* The assignment of o, also of v itself.
LEMMA Assigning ==
  ASSUME IInv, NEW v \in Vec, NEW o \in Vec, NEW s \in Assigned(mem, v, vec[v], vec[o])
  PROVE  /\ Sound(v, s)
         /\ s.vec.end = vec[o].end
         /\ \A i \in 1 .. vec[o].end : s.mem[s.vec.base][i] = mem[vec[o].base][i]
         /\ vec[o].end <= vec[v].cap =>
              s.vec.base = vec[v].base /\ \A b \in Buffer \ {vec[v].base} : s.mem[b] = mem[b]
  <1>1. PICK q \in Reserved(mem, v, [vec[v] EXCEPT !.end = 0], vec[o].end) :
          s = [vec |-> [q.vec EXCEPT !.end = vec[o].end],
               mem |-> Copied(q.mem, vec[o].base, q.vec.base, vec[o].end)]
    BY DEF Assigned, Cleared
  <1>2. /\ Sound(v, q) /\ vec[o].end <= q.vec.cap
        /\ q.vec.base = vec[v].base => q.mem = mem
    BY Bases, Reserving
  <1>3. q.vec \in Object /\ q.mem \in [Buffer -> Seq(Cell)] /\ q.vec.base \in Buffer
    BY <1>2 DEF Sound, Object
  <1>4. vec[o].end <= vec[v].cap => q.vec.base = vec[v].base
    <2>1. [vec[v] EXCEPT !.end = 0].cap = vec[v].cap /\ [vec[v] EXCEPT !.end = 0].base = vec[v].base
      BY Bases DEF Object
    <2> DEFINE r == [vec[v] EXCEPT !.end = 0]
    <2> HIDE DEF r
    <2>2. r.cap = vec[v].cap /\ r.base = vec[v].base /\ q \in Reserved(mem, v, r, vec[o].end)
      BY <2>1, <1>1 DEF r
    <2>3. ASSUME vec[o].end <= vec[v].cap PROVE q = [vec |-> r, mem |-> mem]
      BY <2>2, <2>3 DEF Reserved
    <2>4. QED
      BY <2>2, <2>3
  <1>5. q.mem[vec[o].base] = mem[vec[o].base]
    <2>1. CASE o = v
      BY <2>1, <1>2, <1>4, Bases
    <2>2. CASE o # v
      <3>1. vec[o].base \notin {v, vec[v].base, q.vec.base}
        BY <2>2, <1>2, Apart
      <3>2. QED
        BY <3>1, <1>2, Bases DEF Sound
    <2>3. QED
      BY <2>1, <2>2
  <1> DEFINE n == vec[o].end
             c == Copied(q.mem, vec[o].base, q.vec.base, n)
  <1>6. n \in Nat /\ n <= Len(q.mem[vec[o].base]) /\ n <= Len(q.mem[q.vec.base])
    BY <1>2, <1>5, Bases DEF Sound
  <1>7. /\ c \in [Buffer -> Seq(Cell)] /\ Len(c[q.vec.base]) = Len(q.mem[q.vec.base])
        /\ \A b \in Buffer \ {q.vec.base} : c[b] = q.mem[b]
        /\ \A i \in 1 .. Len(q.mem[q.vec.base]) : c[q.vec.base][i] =
             IF i <= n THEN q.mem[vec[o].base][i] ELSE q.mem[q.vec.base][i]
    <2> DEFINE m == q.mem
               from == vec[o].base
               to == q.vec.base
    <2>1. m \in [Buffer -> Seq(Cell)] /\ from \in Buffer /\ to \in Buffer /\ n \in Nat /\ n <= Len(m[from])
      BY <1>3, <1>6, Bases
    <2> HIDE DEF n, m, from, to
    <2>2. /\ Copied(m, from, to, n) \in [Buffer -> Seq(Cell)]
          /\ Len(Copied(m, from, to, n)[to]) = Len(m[to])
          /\ \A b \in Buffer \ {to} : Copied(m, from, to, n)[b] = m[b]
          /\ \A i \in 1 .. Len(m[to]) :
               Copied(m, from, to, n)[to][i] = IF i <= n THEN m[from][i] ELSE m[to][i]
      BY <2>1, CopiedType
    <2>3. QED
      BY <2>2 DEF m, from, to
  <1>8. /\ s.mem = c /\ s.vec = [q.vec EXCEPT !.end = n]
        /\ s.vec \in Object /\ s.vec.end = n /\ s.vec.base = q.vec.base /\ s.vec.cap = q.vec.cap
    BY <1>1, <1>3, <1>6 DEF Object
  <1> HIDE DEF c, n
  <1>9. Len(q.mem[q.vec.base]) \in Nat
    BY <1>3
  <1>10. c[q.vec.base] # <<>> <=> q.mem[q.vec.base] # <<>>
    <2>1. c[q.vec.base] \in Seq(Cell) /\ q.mem[q.vec.base] \in Seq(Cell)
      BY <1>3, <1>7
    <2>2. QED
      BY <2>1, <1>7, EmptySeq
  <1>11. Sound(v, s)
    <2>1. v \in Buffer /\ vec[v].base \in Buffer
      BY Bases
    <2>2. Len(s.mem[v]) = Min
      BY <1>2, <1>7, <1>8, <2>1 DEF Sound
    <2>3. s.vec.end <= s.vec.cap /\ s.vec.cap = Len(s.mem[s.vec.base])
      BY <1>2, <1>6, <1>7, <1>8 DEF Sound
    <2>4. \A b \in Buffer \ {v, vec[v].base, s.vec.base} : s.mem[b] = mem[b]
      BY <1>2, <1>7, <1>8 DEF Sound
    <2>5. QED
      BY <1>2, <1>7, <1>8, <1>10, <2>1, <2>2, <2>3, <2>4 DEF Sound
  <1>12. ASSUME NEW i \in 1 .. n PROVE s.mem[s.vec.base][i] = mem[vec[o].base][i]
    <2>1. i \in 1 .. Len(q.mem[q.vec.base]) /\ i <= n
      BY <1>6, <1>9
    <2>2. c[q.vec.base][i] = q.mem[vec[o].base][i]
      BY <2>1, <1>7
    <2>3. QED
      BY <2>2, <1>5, <1>8
  <1>13. n <= vec[v].cap =>
           s.vec.base = vec[v].base /\ \A b \in Buffer \ {vec[v].base} : s.mem[b] = mem[b]
    BY <1>2, <1>4, <1>7, <1>8 DEF n
  <1>14. QED
    BY <1>8, <1>11, <1>12, <1>13 DEF n

-----------------------------------------------------------------------------
(* The operations implement those of sequences.                            *)

\* The sequences after a step that touches one vector.
LEMMA Mapped ==
  ASSUME NEW v \in Vec, NEW STATE e, Value(v)' = e, \A w \in Vec \ {v} : Value(w)' = Value(w)
  PROVE  [w \in Vec |-> Value(w)]' = [[w \in Vec |-> Value(w)] EXCEPT ![v] = e]
  OBVIOUS

LEMMA ValueIsSeq ==
  ASSUME IInv, NEW v \in Vec
  PROVE  Value(v) \in Seq(Cell) /\ Len(Value(v)) = vec[v].end /\ vec[v].end \in Nat
  <1>1. vec[v].end \in Nat /\ \A i \in 1 .. vec[v].end : mem[vec[v].base][i] \in Cell
    <2>1. vec[v].end \in Nat /\ vec[v].end <= Len(mem[vec[v].base]) /\ mem[vec[v].base] \in Seq(Cell)
      BY Bases
    <2>2. QED
      BY <2>1
  <1>2. QED
    BY <1>1 DEF Value

\* The elements of a vector and a memory.
Content(s) == [i \in 1 .. s.vec.end |-> s.mem[s.vec.base][i]]

\* What an operation on v with result s does, seen from outside.
LEMMA Stepping ==
  ASSUME IInv, NEW v \in Vec, NEW STATE s, Sound(v, s), Becomes(v, s),
         live' \in {live, live \cup {v}}, v \in live'
  PROVE  IInv' /\ [w \in Vec |-> Value(w)]' = [[w \in Vec |-> Value(w)] EXCEPT ![v] = Content(s)]
  <1>1. IInv' /\ \A w \in Vec \ {v} : Value(w)' = Value(w)
    BY Keeping
  <1>2. vec'[v] = s.vec /\ mem' = s.mem
    BY DEF Becomes, IInv, TypeOK
  <1>3. Value(v)' = Content(s)
    BY <1>2 DEF Value, Content
  <1>4. QED
    BY <1>1, <1>3, Mapped

LEMMA CopyStep ==
  ASSUME IInv, NEW v \in Vec, NEW o \in Vec, CopyConstruct(v, o)
  PROVE  IInv' /\ V!CopyConstruct(v, o)
  <1>1. PICK s \in Assigned(mem, v, vec[v], vec[o]) : Becomes(v, s)
    BY DEF CopyConstruct
  <1>2. live' = live \cup {v} /\ v \notin live /\ o \in live
    BY DEF CopyConstruct, Starts
  <1>3. /\ Sound(v, s) /\ s.vec.end = vec[o].end /\ vec[o].end \in Nat
        /\ \A i \in 1 .. vec[o].end : s.mem[s.vec.base][i] = mem[vec[o].base][i]
    BY Assigning, Bases
  <1>4. Content(s) = Value(o)
    BY <1>3 DEF Content, Value
  <1>5. /\ IInv'
        /\ [w \in Vec |-> Value(w)]' = [[w \in Vec |-> Value(w)] EXCEPT ![v] = Content(s)]
    BY <1>1, <1>2, <1>3, Stepping
  <1>6. QED
    BY <1>2, <1>4, <1>5 DEF V!CopyConstruct

LEMMA AssignStep ==
  ASSUME IInv, NEW v \in Vec, NEW o \in Vec, Assign(v, o)
  PROVE  IInv' /\ V!Assign(v, o)
  <1>1. PICK s \in Assigned(mem, v, vec[v], vec[o]) : Becomes(v, s)
    BY DEF Assign
  <1>2. live' = live /\ v \in live /\ o \in live
    BY DEF Assign, Keeps
  <1>3. /\ Sound(v, s) /\ s.vec.end = vec[o].end /\ vec[o].end \in Nat
        /\ \A i \in 1 .. vec[o].end : s.mem[s.vec.base][i] = mem[vec[o].base][i]
    BY Assigning, Bases
  <1>4. Content(s) = Value(o)
    BY <1>3 DEF Content, Value
  <1>5. /\ IInv'
        /\ [w \in Vec |-> Value(w)]' = [[w \in Vec |-> Value(w)] EXCEPT ![v] = Content(s)]
    BY <1>1, <1>2, <1>3, Stepping
  <1>6. QED
    BY <1>2, <1>4, <1>5 DEF V!Assign, V!Sets

\* Moving end back: pop_back, clear and an assignment that throws.
LEMMA ShrinkStep ==
  ASSUME IInv, NEW v \in live, NEW e \in 0 .. vec[v].end, live' = live,
         Becomes(v, [vec |-> [vec[v] EXCEPT !.end = e], mem |-> mem])
  PROVE  IInv' /\ V!Sets(v, [i \in 1 .. e |-> Value(v)[i]])
  <1> DEFINE s == [vec |-> [vec[v] EXCEPT !.end = e], mem |-> mem]
  <1>1. v \in Vec /\ e \in Nat /\ e <= vec[v].end /\ e \in 0 .. vec[v].cap
    <2>1. v \in Vec
      BY DEF IInv, TypeOK
    <2>2. QED
      BY <2>1, Bases
  <1>2. Sound(v, s) /\ s.vec.end = e /\ s.vec.base = vec[v].base /\ s.mem = mem
    <2>1. vec[v] \in Object
      BY <1>1, Bases
    <2>2. QED
      BY <1>1, <2>1, Resizing DEF Object
  <1> HIDE DEF s
  <1>3. Becomes(v, s)
    BY DEF s
  <1>4. Content(s) = [i \in 1 .. e |-> Value(v)[i]]
    BY <1>1, <1>2, Bases DEF Value, Content
  <1>5. IInv' /\ [w \in Vec |-> Value(w)]' = [[w \in Vec |-> Value(w)] EXCEPT ![v] = Content(s)]
    BY <1>1, <1>2, <1>3, Stepping
  <1>6. QED
    BY <1>4, <1>5 DEF V!Sets

LEMMA ConstructStep ==
  ASSUME IInv, NEW v \in Vec, Construct(v)
  PROVE  IInv' /\ V!Construct(v)
  <1>1. v \notin live /\ live' = live \cup {v} /\ vec' = vec /\ mem' = mem
    BY DEF Construct, Starts
  <1>2. vec[v] = Empty(v) /\ vec[v].base = v /\ v \notin Heap
    BY <1>1, Bases DEF IInv, Dormant, Empty
  <1>3. TypeOK' /\ InBounds' /\ Dormant'
    BY <1>1 DEF IInv, TypeOK, InBounds, Dormant, Empty
  <1>4. Owned'
    BY <1>1, <1>2 DEF IInv, Owned
  <1>5. [w \in Vec |-> Value(w)]' = [w \in Vec |-> Value(w)]
    BY <1>1 DEF Value
  <1>6. QED
    BY <1>1, <1>3, <1>4, <1>5 DEF IInv, V!Construct

LEMMA PushStep ==
  ASSUME IInv, NEW v \in Vec, NEW x \in Elem, PushBack(v, x)
  PROVE  IInv' /\ V!PushBack(v, x)
  <1>1. v \in live /\ live' = live
    BY DEF PushBack, Keeps
  <1> DEFINE n == vec[v].end
  <1>2. n \in Nat /\ vec[v] \in Object
    BY Bases
  <1>3. PICK q \in Reserved(mem, v, vec[v], n + 1) :
          Becomes(v, [vec |-> [q.vec EXCEPT !.end = @ + 1],
                      mem |-> [q.mem EXCEPT ![q.vec.base][q.vec.end + 1] = x]])
    BY DEF PushBack, NewSize
  <1>4. [vec[v] EXCEPT !.end = n] = vec[v]
    BY <1>2 DEF Object
  <1>5. /\ Sound(v, q) /\ q.vec.end = n /\ n + 1 <= q.vec.cap
        /\ \A i \in 1 .. n : q.mem[q.vec.base][i] = mem[vec[v].base][i]
    BY <1>2, <1>3, <1>4, Reserving
  <1> DEFINE b == q.vec.base
             f == [q.mem[b] EXCEPT ![n + 1] = x]
             s == [vec |-> [q.vec EXCEPT !.end = n + 1], mem |-> [q.mem EXCEPT ![b] = f]]
  <1>6. b \in Buffer /\ q.mem \in [Buffer -> Seq(Cell)] /\ q.vec \in Object /\ n + 1 \in 1 .. Len(q.mem[b])
    BY <1>2, <1>5 DEF Sound, Object
  <1>7. f \in Seq(Cell) /\ Len(f) = Len(q.mem[b]) /\ f # <<>>
    BY <1>2, <1>6 DEF Cell
  <1>8. \A i \in 1 .. n + 1 : f[i] = IF i = n + 1 THEN x ELSE q.mem[b][i]
    BY <1>2, <1>6
  <1>9. Becomes(v, s)
    BY <1>2, <1>3, <1>5, <1>6
  <1>10. /\ s.vec \in Object /\ s.vec.base = b /\ s.vec.end = n + 1 /\ s.vec.cap = q.vec.cap
         /\ s.mem \in [Buffer -> Seq(Cell)] /\ s.mem[b] = f
         /\ \A c \in Buffer \ {b} : s.mem[c] = q.mem[c]
    <2>1. s.vec = [q.vec EXCEPT !.end = n + 1] /\ s.mem = [q.mem EXCEPT ![b] = f]
      OBVIOUS
    <2>2. n + 1 \in Nat
      BY <1>2
    <2> HIDE DEF s, f, n
    <2>3. s.vec \in Object /\ s.vec.base = b /\ s.vec.end = n + 1 /\ s.vec.cap = q.vec.cap
      BY <2>1, <2>2, <1>6 DEF Object
    <2>4. /\ s.mem \in [Buffer -> Seq(Cell)] /\ s.mem[b] = f
          /\ \A c \in Buffer \ {b} : s.mem[c] = q.mem[c]
      BY <2>1, <1>6, <1>7
    <2>5. QED
      BY <2>3, <2>4
  <1> HIDE DEF s, f
  <1>11. Sound(v, s)
    <2>1. v \in Buffer /\ vec[v].base \in Buffer
      BY Bases
    <2>2. Len(s.mem[v]) = Min
      BY <1>5, <1>7, <1>10, <2>1 DEF Sound
    <2>3. s.vec.end <= s.vec.cap /\ s.vec.cap = Len(s.mem[s.vec.base])
      BY <1>5, <1>7, <1>10 DEF Sound
    <2>4. \A c \in Buffer \ {v, vec[v].base, s.vec.base} : s.mem[c] = mem[c]
      BY <1>5, <1>10 DEF Sound
    <2>5. QED
      BY <1>5, <1>7, <1>10, <2>1, <2>2, <2>3, <2>4 DEF Sound
  <1>12. IInv' /\ [w \in Vec |-> Value(w)]' = [[w \in Vec |-> Value(w)] EXCEPT ![v] = Content(s)]
    BY <1>1, <1>9, <1>11, Stepping
  <1>13. Content(s) = Append(Value(v), x)
    <2>1. Content(s) = [i \in 1 .. n + 1 |-> f[i]]
      BY <1>10 DEF Content
    <2>2. Value(v) = [i \in 1 .. n |-> mem[vec[v].base][i]] /\ Value(v) \in Seq(Cell) /\ Len(Value(v)) = n
      BY ValueIsSeq DEF Value
    <2>3. Append(Value(v), x) = [i \in 1 .. n + 1 |-> IF i = n + 1 THEN x ELSE Value(v)[i]]
      BY <1>2, <2>2
    <2>4. \A i \in 1 .. n + 1 : f[i] = IF i = n + 1 THEN x ELSE Value(v)[i]
      BY <1>2, <1>5, <1>8, <2>2
    <2>5. QED
      BY <2>1, <2>3, <2>4
  <1>14. QED
    BY <1>1, <1>12, <1>13 DEF V!PushBack, V!Sets

\* Growing changes no element.
LEMMA ReserveStep ==
  ASSUME IInv, NEW v \in Vec, NEW k \in Nat, Reserve(v, k)
  PROVE  IInv' /\ UNCHANGED V!vars
  <1>1. v \in live /\ live' = live
    BY DEF Reserve, Keeps
  <1> DEFINE n == vec[v].end
  <1>2. n \in Nat /\ vec[v] \in Object
    BY Bases
  <1>3. PICK q \in Reserved(mem, v, vec[v], k) : Becomes(v, q)
    BY DEF Reserve
  <1>4. [vec[v] EXCEPT !.end = n] = vec[v]
    BY <1>2 DEF Object
  <1>5. /\ Sound(v, q) /\ q.vec.end = n
        /\ \A i \in 1 .. n : q.mem[q.vec.base][i] = mem[vec[v].base][i]
    BY <1>2, <1>3, <1>4, Reserving
  <1>6. IInv' /\ [w \in Vec |-> Value(w)]' = [[w \in Vec |-> Value(w)] EXCEPT ![v] = Content(q)]
    BY <1>1, <1>3, <1>5, Stepping
  <1>7. Content(q) = Value(v)
    BY <1>5 DEF Content, Value
  <1>8. QED
    BY <1>1, <1>6, <1>7 DEF V!vars

LEMMA WriteStep ==
  ASSUME IInv, NEW v \in Vec, NEW x \in Elem, NEW i \in Nat, Write(v, i, x)
  PROVE  IInv' /\ i \in 1 .. Len(Value(v)) /\ V!Write(v, i, x)
  <1>1. v \in live /\ live' = live /\ i \in 1 .. vec[v].end /\ vec' = vec
    BY DEF Write, Keeps
  <1> DEFINE b == vec[v].base
             f == [mem[b] EXCEPT ![i] = x]
             s == [vec |-> vec[v], mem |-> [mem EXCEPT ![b] = f]]
  <1>2. /\ b \in Buffer /\ mem \in [Buffer -> Seq(Cell)] /\ mem[b] \in Seq(Cell) /\ vec[v].end \in Nat
        /\ vec[v].end <= Len(mem[b]) /\ Len(mem[b]) \in Nat
    BY Bases DEF IInv, TypeOK
  <1>3. f \in Seq(Cell) /\ Len(f) = Len(mem[b]) /\ f # <<>>
    BY <1>1, <1>2 DEF Cell
  <1>4. \A j \in 1 .. vec[v].end : f[j] = IF j = i THEN x ELSE mem[b][j]
    BY <1>1, <1>2
  <1>5. Becomes(v, s)
    BY <1>1 DEF Becomes, Write, IInv, TypeOK
  <1>6. /\ s.vec = vec[v] /\ s.mem \in [Buffer -> Seq(Cell)] /\ s.mem[b] = f
        /\ \A c \in Buffer \ {b} : s.mem[c] = mem[c]
    BY <1>2, <1>3
  <1> HIDE DEF s, f
  <1>7. Sound(v, s)
    <2>1. Len(s.mem[v]) = Min
      BY <1>3, <1>6, Bases
    <2>2. QED
      BY <1>2, <1>3, <1>6, <2>1, Bases DEF Sound
  <1>8. IInv' /\ [w \in Vec |-> Value(w)]' = [[w \in Vec |-> Value(w)] EXCEPT ![v] = Content(s)]
    BY <1>1, <1>5, <1>7, Stepping
  <1>9. Content(s) = [Value(v) EXCEPT ![i] = x]
    BY <1>1, <1>4, <1>6 DEF Content, Value
  <1>10. i \in 1 .. Len(Value(v))
    BY <1>1, ValueIsSeq
  <1>11. QED
    BY <1>1, <1>8, <1>9, <1>10 DEF V!Write, V!Sets

\* An object that comes to life is inline, with room for Min elements.
LEMMA Unborn ==
  ASSUME IInv, NEW v \in Vec \ live
  PROVE  vec[v].base = v /\ vec[v].end = 0 /\ vec[v].cap = Min
  <1>1. vec[v] = [base |-> v, end |-> 0, cap |-> Min]
    BY DEF IInv, Dormant, Empty
  <1>2. QED
    BY <1>1

LEMMA MoveInlineStep ==
  ASSUME IInv, NEW v \in Vec, NEW o \in Vec, MoveConstruct(v, o), vec[o].base = o
  PROVE  IInv' /\ V!MoveConstruct(v, o)
  <1>1. v \notin live /\ live' = live \cup {v} /\ o \in live /\ v # o
    BY DEF MoveConstruct, Starts
  <1>2. PICK s \in Assigned(mem, v, vec[v], vec[o]) :
          vec' = [vec EXCEPT ![v] = s.vec, ![o] = Cleared(vec[o])] /\ mem' = s.mem
    BY DEF MoveConstruct
  <1>3. vec[v].base = v /\ vec[v].cap = Min /\ vec[o].end <= vec[v].cap
    BY <1>1, Unborn, Bases
  <1>4. /\ Sound(v, s) /\ s.vec.end = vec[o].end /\ s.vec.base = v
        /\ \A b \in Buffer \ {v} : s.mem[b] = mem[b]
        /\ \A i \in 1 .. vec[o].end : s.mem[s.vec.base][i] = mem[vec[o].base][i]
    BY <1>3, Assigning
  <1>5. /\ Cleared(vec[o]) \in Object /\ Cleared(vec[o]).base = o /\ Cleared(vec[o]).end = 0
        /\ Cleared(vec[o]).cap = vec[o].cap
    BY Bases DEF Cleared, Object
  <1>6. /\ vec' \in [Vec -> Object] /\ vec'[v] = s.vec /\ vec'[o] = Cleared(vec[o])
        /\ \A w \in Vec \ {v, o} : vec'[w] = vec[w]
    BY <1>1, <1>2, <1>4, <1>5 DEF IInv, TypeOK, Sound
  <1>7. \A w \in Vec : vec'[w].base = vec[w].base
    BY <1>3, <1>4, <1>5, <1>6
  <1>8. mem' \in [Buffer -> Seq(Cell)] /\ \A b \in Buffer \ {v} : mem'[b] = mem[b]
    BY <1>2, <1>4 DEF Sound
  <1>9. TypeOK'
    BY <1>1, <1>6, <1>8 DEF IInv, TypeOK
  <1>10. \A w \in Vec \ {v} : vec[w].base \in Buffer \ {v}
    BY Bases
  <1>11. InBounds'
    <2>1. ASSUME NEW w \in Vec
          PROVE  /\ vec'[w].base \in {w} \cup Heap
                 /\ vec'[w].cap = Len(mem'[vec'[w].base])
                 /\ vec'[w].end <= vec'[w].cap
      <3>1. CASE w = v
        BY <3>1, <1>2, <1>4, <1>6 DEF Sound
      <3>2. CASE w = o
        <4>1. vec'[o].base = o /\ vec'[o].cap = vec[o].cap /\ vec'[o].end = 0
          BY <1>5, <1>6
        <4>2. mem'[o] = mem[o] /\ vec[o].base = o /\ vec[o].cap = Len(mem[o]) /\ vec[o].cap \in Nat
          BY <1>1, <1>8, Bases
        <4>3. QED
          BY <3>2, <4>1, <4>2
      <3>3. CASE w \notin {v, o}
        <4>1. vec'[w] = vec[w] /\ mem'[vec[w].base] = mem[vec[w].base]
          BY <3>3, <1>6, <1>8, <1>10
        <4>2. QED
          BY <4>1 DEF IInv, InBounds
      <3>4. QED
        BY <3>1, <3>2, <3>3
    <2>2. QED
      BY <2>1 DEF InBounds
  <1>12. Owned'
    <2>1. \A h \in Heap : mem'[h] = mem[h]
      BY <1>8, Bases DEF Buffer
    <2>2. \A h \in Heap : (\E w \in live' : vec'[w].base = h) <=> \E w \in live : vec[w].base = h
      <3>1. live' \subseteq Vec /\ live \subseteq Vec /\ v \notin Heap
        BY <1>1, Bases DEF IInv, TypeOK
      <3>2. QED
        BY <3>1, <1>1, <1>3, <1>7
    <2>3. QED
      BY <2>1, <2>2, <1>7 DEF IInv, Owned
  <1>13. Dormant'
    <2>1. \A w \in Vec : Len(mem'[w]) = Min
      BY <1>2, <1>4, <1>8, Bases DEF Sound
    <2>2. \A w \in Vec \ live' : vec'[w] = Empty(w)
      BY <1>1, <1>6 DEF IInv, Dormant
    <2>3. QED
      BY <2>1, <2>2 DEF Dormant, Empty
  <1>14. Value(v)' = Value(o) /\ Value(o)' = <<>> /\ \A w \in Vec \ {v, o} : Value(w)' = Value(w)
    <2>1. Value(v)' = Value(o)
      BY <1>2, <1>4, <1>6 DEF Value
    <2>2. Value(o)' = <<>>
      BY <1>5, <1>6 DEF Value
    <2>3. \A w \in Vec \ {v, o} : Value(w)' = Value(w)
      BY <1>6, <1>8, <1>10 DEF Value
    <2>4. QED
      BY <2>1, <2>2, <2>3
  <1>15. QED
    BY <1>1, <1>9, <1>11, <1>12, <1>13, <1>14 DEF IInv, V!MoveConstruct

\* The block of o becomes v's; o is inline again.
LEMMA MoveBlockStep ==
  ASSUME IInv, NEW v \in Vec, NEW o \in Vec, MoveConstruct(v, o), vec[o].base # o
  PROVE  IInv' /\ V!MoveConstruct(v, o)
  <1>1. v \notin live /\ live' = live \cup {v} /\ o \in live /\ v # o
    BY DEF MoveConstruct, Starts
  <1>2. vec' = [vec EXCEPT ![v] = vec[o], ![o] = Empty(o)] /\ mem' = mem
    BY DEF MoveConstruct, Emptied
  <1>3. vec[v].base = v /\ vec[o].base \in Heap
    BY <1>1, Unborn, Bases
  <1>4. Empty(o) \in Object /\ Empty(o).base = o /\ Empty(o).end = 0 /\ Empty(o).cap = Min
    BY Bases DEF Empty, Object
  <1>5. /\ vec' \in [Vec -> Object] /\ vec'[v] = vec[o] /\ vec'[o] = Empty(o)
        /\ \A w \in Vec \ {v, o} : vec'[w] = vec[w]
    BY <1>1, <1>2, <1>4 DEF IInv, TypeOK
  <1>6. TypeOK'
    BY <1>1, <1>2, <1>5 DEF IInv, TypeOK
  <1>7. InBounds'
    <2>1. ASSUME NEW w \in Vec
          PROVE  /\ vec'[w].base \in {w} \cup Heap
                 /\ vec'[w].cap = Len(mem'[vec'[w].base])
                 /\ vec'[w].end <= vec'[w].cap
      <3>1. CASE w = v
        BY <3>1, <1>2, <1>3, <1>5 DEF IInv, InBounds
      <3>2. CASE w = o
        BY <3>2, <1>2, <1>4, <1>5, Bases
      <3>3. CASE w \notin {v, o}
        BY <3>3, <1>2, <1>5 DEF IInv, InBounds
      <3>4. QED
        BY <3>1, <3>2, <3>3
    <2>2. QED
      BY <2>1 DEF InBounds
  <1>8. Owned'
    <2>1. \A u, w \in Vec : vec'[u].base = vec'[w].base => u = w
      <3>1. \A w \in Vec \ {v, o} : vec[w].base # o /\ vec[w].base # vec[o].base
        BY Bases DEF IInv, Owned
      <3>2. \A u, w \in Vec \ {v, o} : vec'[u].base = vec'[w].base => u = w
        BY <1>5 DEF IInv, Owned
      <3>3. vec[o].base # o
        OBVIOUS
      <3>4. QED
        BY <3>1, <3>2, <3>3, <1>4, <1>5
    <2>2. ASSUME NEW h \in Heap
          PROVE  (\E w \in live' : vec'[w].base = h) <=> \E w \in live : vec[w].base = h
      <3>1. live' \subseteq Vec /\ live \subseteq Vec /\ o \notin Heap
        BY <1>1, Bases DEF IInv, TypeOK
      <3>2. ASSUME NEW w \in live', vec'[w].base = h PROVE \E u \in live : vec[u].base = h
        BY <3>1, <3>2, <1>1, <1>4, <1>5
      <3>3. ASSUME NEW w \in live, vec[w].base = h PROVE \E u \in live' : vec'[u].base = h
        BY <3>1, <3>3, <1>1, <1>5
      <3>4. QED
        BY <3>2, <3>3
    <2>3. QED
      BY <2>1, <2>2, <1>2 DEF IInv, Owned
  <1>9. Dormant'
    BY <1>1, <1>2, <1>5 DEF IInv, Dormant, Empty
  <1>10. Value(v)' = Value(o) /\ Value(o)' = <<>> /\ \A w \in Vec \ {v, o} : Value(w)' = Value(w)
    BY <1>2, <1>4, <1>5 DEF Value
  <1>11. QED
    BY <1>1, <1>6, <1>7, <1>8, <1>9, <1>10 DEF IInv, V!MoveConstruct

LEMMA DestroyStep ==
  ASSUME IInv, NEW v \in Vec, Destroy(v)
  PROVE  IInv' /\ V!Destroy(v)
  <1>1. v \in live /\ live' = live \ {v} /\ vec' = [vec EXCEPT ![v] = Empty(v)]
    BY DEF Destroy
  <1>2. Empty(v) \in Object /\ Empty(v).base = v /\ Empty(v).end = 0 /\ Empty(v).cap = Min
    BY Bases DEF Empty, Object
  <1>3. /\ vec' \in [Vec -> Object] /\ vec'[v] = Empty(v)
        /\ \A w \in Vec \ {v} : vec'[w] = vec[w]
    BY <1>1, <1>2 DEF IInv, TypeOK
  <1> DEFINE m == Freed(mem, v, vec[v])
             b == vec[v].base
  <1>4. /\ m \in [Buffer -> Seq(Cell)]
        /\ b # v => m[b] = <<>>
        /\ \A c \in Buffer \ {v, b} : m[c] = mem[c]
    BY Bases DEF Freed, IInv, TypeOK
  <1>5. mem' = [m EXCEPT ![v] = Fresh(Min)] /\ Fresh(Min) \in Seq(Cell) /\ Len(Fresh(Min)) = Min
    BY FreshType, SmallVectorAssumption DEF Destroy
  <1> HIDE DEF m
  <1>6. /\ mem' \in [Buffer -> Seq(Cell)] /\ Len(mem'[v]) = Min
        /\ b # v => mem'[b] = <<>>
        /\ \A c \in Buffer \ {v, b} : mem'[c] = mem[c]
    BY <1>4, <1>5, Bases
  <1>7. \A w \in Vec \ {v} : vec[w].base \in Buffer \ {v, b} /\ w \in Buffer \ {v, b}
    BY Bases DEF IInv, Owned
  <1>8. TypeOK'
    BY <1>1, <1>3, <1>6 DEF IInv, TypeOK
  <1>9. InBounds'
    <2>1. ASSUME NEW w \in Vec
          PROVE  /\ vec'[w].base \in {w} \cup Heap
                 /\ vec'[w].cap = Len(mem'[vec'[w].base])
                 /\ vec'[w].end <= vec'[w].cap
      <3>1. CASE w = v
        BY <3>1, <1>2, <1>3, <1>6, Bases
      <3>2. CASE w # v
        <4>1. vec'[w] = vec[w] /\ mem'[vec[w].base] = mem[vec[w].base]
          BY <3>2, <1>3, <1>6, <1>7
        <4>2. QED
          BY <4>1 DEF IInv, InBounds
      <3>3. QED
        BY <3>1, <3>2
    <2>2. QED
      BY <2>1 DEF InBounds
  <1>10. Owned'
    <2>1. \A u, w \in Vec : vec'[u].base = vec'[w].base => u = w
      <3>1. \A u, w \in Vec \ {v} : vec'[u].base = vec'[w].base => u = w
        BY <1>3 DEF IInv, Owned
      <3>2. QED
        BY <3>1, <1>2, <1>3, <1>7
    <2>2. ASSUME NEW h \in Heap PROVE mem'[h] # <<>> <=> \E w \in live' : vec'[w].base = h
      <3>1. live' \subseteq Vec \ {v} /\ live \subseteq Vec /\ h # v /\ h \in Buffer
        BY <1>1, Bases DEF IInv, TypeOK, Buffer
      <3>2. CASE h = b
        <4>1. mem'[h] = <<>>
          BY <3>1, <3>2, <1>6
        <4>2. \A w \in live' : vec'[w].base # h
          BY <3>1, <3>2, <1>3, <1>7
        <4>3. QED
          BY <4>1, <4>2
      <3>3. CASE h # b
        <4>1. mem'[h] = mem[h]
          BY <3>1, <3>3, <1>6
        <4>2. (\E w \in live' : vec'[w].base = h) <=> \E w \in live : vec[w].base = h
          BY <3>1, <3>3, <1>1, <1>3
        <4>3. QED
          BY <4>1, <4>2 DEF IInv, Owned
      <3>4. QED
        BY <3>2, <3>3
    <2>3. QED
      BY <2>1, <2>2 DEF Owned
  <1>11. Dormant'
    BY <1>1, <1>3, <1>6, <1>7 DEF IInv, Dormant, Empty
  <1>12. Value(v)' = <<>> /\ \A w \in Vec \ {v} : Value(w)' = Value(w)
    BY <1>2, <1>3, <1>6, <1>7 DEF Value
  <1>13. QED
    BY <1>1, <1>8, <1>9, <1>10, <1>11, <1>12 DEF IInv, V!Destroy

-----------------------------------------------------------------------------
(* The specification.                                                      *)

LEMMA InitSound == Init => IInv /\ V!Init
  <1> SUFFICES ASSUME Init PROVE IInv /\ V!Init
    OBVIOUS
  <1>2. ASSUME NEW v \in Vec
        PROVE  /\ vec[v] = Empty(v) /\ vec[v] \in Object /\ v \notin Heap /\ v \in Buffer
               /\ vec[v].base = v /\ vec[v].end = 0 /\ vec[v].cap = Min
    <2>1. vec[v] = [base |-> v, end |-> 0, cap |-> Min]
      BY DEF Init, Empty
    <2>2. v \notin Heap /\ v \in Buffer /\ Min \in Nat
      BY SmallVectorAssumption DEF Buffer
    <2>3. QED
      BY <2>1, <2>2 DEF Empty, Object
  <1>3. /\ \A v \in Vec : mem[v] = Fresh(Min) /\ Fresh(Min) \in Seq(Cell) /\ Len(Fresh(Min)) = Min
        /\ \A h \in Heap : h \notin Vec /\ mem[h] = <<>>
    <2>1. Min \in Nat /\ \A h \in Heap : h \notin Vec
      BY SmallVectorAssumption
    <2>2. QED
      BY <2>1, FreshType DEF Init, Buffer
  <1>4. mem \in [Buffer -> Seq(Cell)]
    <2>1. ASSUME NEW b \in Buffer PROVE mem[b] \in Seq(Cell)
      <3>1. CASE b \in Vec
        BY <3>1, <1>3
      <3>2. CASE b \in Heap
        BY <3>2, <1>3, EmptySeq
      <3>3. QED
        BY <3>1, <3>2 DEF Buffer
    <2>2. mem = [b \in Buffer |-> mem[b]]
      BY DEF Init
    <2>3. QED
      BY <2>1, <2>2
  <1>5. TypeOK /\ InBounds /\ Owned /\ Dormant
    <2>1. TypeOK
      BY <1>2, <1>4 DEF Init, TypeOK
    <2>2. InBounds
      <3>1. Min \in Nat
        BY SmallVectorAssumption
      <3>2. ASSUME NEW v \in Vec
            PROVE  /\ vec[v].base \in {v} \cup Heap /\ vec[v].cap = Len(mem[vec[v].base])
                   /\ vec[v].end <= vec[v].cap
        BY <3>1, <1>2, <1>3
      <3>3. QED
        BY <3>2 DEF InBounds
    <2>3. Owned
      BY <1>2, <1>3 DEF Init, Owned
    <2>4. Dormant
      BY <1>2, <1>3 DEF Dormant
    <2>5. QED
      BY <2>1, <2>2, <2>3, <2>4
  <1>6. V!Init
    <2>1. ASSUME NEW v \in Vec PROVE Value(v) = <<>>
      <3>1. vec[v].end = 0
        BY <1>2
      <3>2. QED
        BY <3>1 DEF Value
    <2>2. [v \in Vec |-> Value(v)] = [v \in Vec |-> <<>>]
      BY <2>1
    <2>3. QED
      BY <2>2 DEF Init, V!Init
  <1>7. QED
    BY <1>5, <1>6 DEF IInv

\* pop_back is a sequence without its last element.
LEMMA PopStep ==
  ASSUME IInv, NEW v \in Vec, PopBack(v)
  PROVE  IInv' /\ V!PopBack(v)
  <1>1. v \in live /\ live' = live /\ vec[v].end > 0 /\ vec' = [vec EXCEPT ![v].end = @ - 1] /\ mem' = mem
    BY DEF PopBack, Keeps
  <1> DEFINE e == vec[v].end - 1
  <1>2. e \in 0 .. vec[v].end /\ vec[v].end \in Nat /\ Value(v) \in Seq(Cell) /\ Len(Value(v)) = vec[v].end
    BY <1>1, ValueIsSeq
  <1>3. Becomes(v, [vec |-> [vec[v] EXCEPT !.end = e], mem |-> mem])
    BY <1>1 DEF Becomes
  <1>4. IInv' /\ V!Sets(v, [i \in 1 .. e |-> Value(v)[i]])
    BY <1>1, <1>2, <1>3, ShrinkStep
  <1>5. SubSeq(Value(v), 1, Len(Value(v)) - 1) = [i \in 1 .. e |-> Value(v)[i]] /\ Value(v) # <<>>
    BY <1>1, <1>2
  <1>6. QED
    BY <1>4, <1>5 DEF V!PopBack

\* clear, and an assignment that throws, leave no element.
LEMMA ClearStep ==
  ASSUME IInv, NEW v \in Vec, Clear(v) \/ \E o \in Vec : AssignThrows(v, o)
  PROVE  IInv' /\ V!Clear(v)
  <1>1. v \in live /\ live' = live /\ Becomes(v, [vec |-> [vec[v] EXCEPT !.end = 0], mem |-> mem])
    BY DEF Clear, AssignThrows, Keeps, Cleared
  <1>2. 0 \in 0 .. vec[v].end
    BY Bases
  <1>3. IInv' /\ V!Sets(v, [i \in 1 .. 0 |-> Value(v)[i]])
    BY <1>1, <1>2, ShrinkStep
  <1>4. [i \in 1 .. 0 |-> Value(v)[i]] = <<>>
    OBVIOUS
  <1>5. QED
    BY <1>3, <1>4 DEF V!Clear

LEMMA NextSound ==
  ASSUME IInv, [Next]_vars
  PROVE  IInv' /\ [V!Next]_(V!vars)
  <1>1. CASE UNCHANGED vars
    BY <1>1 DEF vars, V!vars, IInv, TypeOK, InBounds, Owned, Dormant, Value, Empty
  <1>2. ASSUME NEW v \in Vec, Construct(v) PROVE IInv' /\ V!Next
    BY <1>2, ConstructStep DEF V!Next
  <1>3. ASSUME NEW v \in Vec, Destroy(v) PROVE IInv' /\ V!Next
    BY <1>3, DestroyStep DEF V!Next
  <1>4. ASSUME NEW v \in Vec, PopBack(v) PROVE IInv' /\ V!Next
    BY <1>4, PopStep DEF V!Next
  <1>5. ASSUME NEW v \in Vec, Clear(v) \/ \E o \in Vec : AssignThrows(v, o) PROVE IInv' /\ V!Next
    BY <1>5, ClearStep DEF V!Next
  <1>6. ASSUME NEW v \in Vec, NEW o \in Vec, CopyConstruct(v, o) PROVE IInv' /\ V!Next
    BY <1>6, CopyStep DEF V!Next
  <1>7. ASSUME NEW v \in Vec, NEW o \in Vec, MoveConstruct(v, o) PROVE IInv' /\ V!Next
    <2>1. IInv' /\ V!MoveConstruct(v, o)
      BY <1>7, MoveInlineStep, MoveBlockStep
    <2>2. QED
      BY <2>1 DEF V!Next
  <1>8. ASSUME NEW v \in Vec, NEW o \in Vec, Assign(v, o) PROVE IInv' /\ V!Next
    BY <1>8, AssignStep DEF V!Next
  <1>9. ASSUME NEW v \in Vec, NEW n \in 0 .. MaxSize, Reserve(v, n) PROVE IInv' /\ UNCHANGED V!vars
    <2>1. n \in Nat
      BY SmallVectorAssumption
    <2>2. QED
      BY <1>9, <2>1, ReserveStep
  <1>10. ASSUME NEW v \in Vec, NEW x \in Elem, PushBack(v, x) PROVE IInv' /\ V!Next
    BY <1>10, PushStep DEF V!Next
  <1>11. ASSUME NEW v \in Vec, NEW x \in Elem, NEW i \in 1 .. MaxSize, Write(v, i, x) PROVE IInv' /\ V!Next
    <2>1. i \in Nat
      BY SmallVectorAssumption
    <2>2. IInv' /\ i \in 1 .. Len(Value(v)) /\ V!Write(v, i, x)
      BY <1>11, <2>1, WriteStep
    <2>3. QED
      BY <2>2 DEF V!Next
  <1>12. QED
    BY <1>1, <1>2, <1>3, <1>4, <1>5, <1>6, <1>7, <1>8, <1>9, <1>10, <1>11 DEF Next

\* The strengthened invariant holds in every reachable state.
THEOREM Invariance == Spec => []IInv
  <1>1. Init => IInv
    BY InitSound
  <1>2. IInv /\ [Next]_vars => IInv'
    BY NextSound
  <1>3. QED
    BY <1>1, <1>2, PTL DEF Spec

\* Whatever is pushed, copied, moved and destroyed, no vector reads or writes
\* outside its buffer.
THEOREM BoundsKept == Spec => []InBounds
  <1>1. IInv => InBounds
    BY DEF IInv
  <1>2. QED
    BY <1>1, Invariance, PTL

\* Each block has exactly one owner: nothing leaks and nothing is freed twice.
THEOREM OwnersUnique == Spec => []Owned
  <1>1. IInv => Owned
    BY DEF IInv
  <1>2. QED
    BY <1>1, Invariance, PTL

\* small_vector implements sequences.
THEOREM ImplementsSequences == Spec => Sequence
  <1>1. Init => V!Init
    BY InitSound
  <1>2. IInv /\ [Next]_vars => [V!Next]_(V!vars)
    BY NextSound
  <1>3. QED
    BY <1>1, <1>2, Invariance, PTL DEF Spec, Sequence, V!Spec
=============================================================================
