---------------------------- MODULE SmallVector -----------------------------
(***************************************************************************)
(* small_vector<T, Min> of small_vector.hh: a vector that keeps up to Min  *)
(* elements in a buffer of its own and more of them on the heap.  The      *)
(* library's only instance is the offsets of the attributes of a die, so T *)
(* is a type whose destructor leaves the bytes of the element alone.       *)
(*                                                                         *)
(* The inline buffer of a vector is named by the vector.  A pointer is a   *)
(* buffer and an offset: end and cap are offsets from base.                *)
(***************************************************************************)
EXTENDS Integers, Sequences

CONSTANTS
  Vec,       \* the objects
  Heap,      \* the blocks the allocator can hand out
  Elem,      \* values of an element
  Raw,       \* the value of a cell nothing was written to
  Min,       \* elements that fit inline
  MaxSize    \* bound (for TLC) on the size of a vector

VARIABLES
  live,      \* the objects that are constructed
  vec,       \* base, end and cap of each object
  mem        \* cells of each buffer, none for a free block

vars == <<live, vec, mem>>

ASSUME SmallVectorAssumption ==
  /\ Vec \cap Heap = {}
  /\ Raw \notin Elem
  /\ {Min, MaxSize} \subseteq Nat

Buffer == Vec \cup Heap
Cell   == Elem \cup {Raw}
Object == [base : Buffer, end : Nat, cap : Nat]

-----------------------------------------------------------------------------
(* Steps of the operations, on an object r and a memory m.                 *)

Fresh(n)  == [i \in 1 .. n |-> Raw]
Empty(v)  == [base |-> v, end |-> 0, cap |-> Min]
Cleared(r) == [r EXCEPT !.end = 0]

Unused(m) == {h \in Heap : m[h] = <<>>}

\* delete[], unless base is the inline buffer.  (Mutant: the block stays.)
FreedNot(m, v, r) == m
Freed(m, v, r)    == IF r.base = v THEN m ELSE [m EXCEPT ![r.base] = <<>>]

\* The first n cells of one buffer in another.
Copied(m, from, to, n) ==
  [m EXCEPT ![to] = [i \in DOMAIN m[to] |-> IF i <= n THEN m[from][i] ELSE m[to][i]]]

\* The capacity doubles until it is no less than n > c.
Grown(c, n) ==
  {t \in n .. 2 * n - 1 : \E k \in 0 .. n : t = (IF c = 0 THEN 1 ELSE c) * 2 ^ k}

\* (Mutant.  The elements move and end does not.)
ReservedAtStart(m, v, r, n) ==
  IF n <= r.cap THEN {[vec |-> r, mem |-> m]}
  ELSE {[vec |-> [base |-> h, end |-> 0, cap |-> t],
         mem |-> Freed(Copied([m EXCEPT ![h] = Fresh(t)], r.base, h, r.end), v, r)] :
           h \in Unused(m), t \in Grown(r.cap, n)}

\* reserve(n): what it leaves, for each block the allocator may hand out.
Reserved(m, v, r, n) ==
  IF n <= r.cap THEN {[vec |-> r, mem |-> m]}
  ELSE {[vec |-> [base |-> h, end |-> r.end, cap |-> t],
         mem |-> Freed(Copied([m EXCEPT ![h] = Fresh(t)], r.base, h, r.end), v, r)] :
           h \in Unused(m), t \in Grown(r.cap, n)}

\* new throws: nothing has changed yet.
Throws(m, r, n) == n > r.cap /\ Unused(m) = {}

\* The assignment of o to r.
Assigned(m, v, r, o) ==
  {[vec |-> [s.vec EXCEPT !.end = o.end], mem |-> Copied(s.mem, o.base, s.vec.base, o.end)] :
     s \in Reserved(m, v, Cleared(r), o.end)}

Becomes(v, s) == vec' = [vec EXCEPT ![v] = s.vec] /\ mem' = s.mem

-----------------------------------------------------------------------------
(* Operations.                                                             *)

Starts(v) == v \notin live /\ live' = live \cup {v}
Keeps(v)  == v \in live /\ UNCHANGED live

\* Before it is constructed a vector is empty and inline already.
Construct(v) == Starts(v) /\ UNCHANGED <<vec, mem>>

CopyConstruct(v, o) ==
  /\ Starts(v) /\ o \in live
  /\ \E s \in Assigned(mem, v, vec[v], vec[o]) : Becomes(v, s)

\* (Mutant.  The vector moved from keeps its pointers.)
EmptiedNot(o) == vec[o]

\* The vector moved from, when its block is taken.
Emptied(o) == Empty(o)

MoveConstruct(v, o) ==
  /\ Starts(v) /\ o \in live
  /\ IF vec[o].base = o
     THEN \E s \in Assigned(mem, v, vec[v], vec[o]) :
            /\ vec' = [vec EXCEPT ![v] = s.vec, ![o] = Cleared(vec[o])]
            /\ mem' = s.mem
     ELSE /\ vec' = [vec EXCEPT ![v] = vec[o], ![o] = Emptied(o)]
          /\ UNCHANGED mem

\* The object's own storage goes with it.
Destroy(v) ==
  /\ v \in live /\ live' = live \ {v}
  /\ vec' = [vec EXCEPT ![v] = Empty(v)]
  /\ mem' = [Freed(mem, v, vec[v]) EXCEPT ![v] = Fresh(Min)]

\* Also of a vector to itself: its elements are destroyed first.
Assign(v, o) ==
  /\ Keeps(v) /\ o \in live
  /\ \E s \in Assigned(mem, v, vec[v], vec[o]) : Becomes(v, s)

AssignThrows(v, o) ==
  /\ Keeps(v) /\ o \in live
  /\ Throws(mem, vec[v], vec[o].end)
  /\ Becomes(v, [vec |-> Cleared(vec[v]), mem |-> mem])

Reserve(v, n) ==
  /\ Keeps(v)
  /\ \E s \in Reserved(mem, v, vec[v], n) : Becomes(v, s)

\* (Mutant.  Room for the elements there are.)
SameSize(v) == vec[v].end
NewSize(v)  == vec[v].end + 1

\* x is not an element of the vector itself, which may be freed on the way.
PushBack(v, x) ==
  /\ Keeps(v)
  /\ vec[v].end < MaxSize
  /\ \E s \in Reserved(mem, v, vec[v], NewSize(v)) :
       Becomes(v, [vec |-> [s.vec EXCEPT !.end = @ + 1],
                   mem |-> [s.mem EXCEPT ![s.vec.base][s.vec.end + 1] = x]])

PopBack(v) ==
  /\ Keeps(v) /\ vec[v].end > 0
  /\ vec' = [vec EXCEPT ![v].end = @ - 1]
  /\ UNCHANGED mem

Clear(v) == Keeps(v) /\ Becomes(v, [vec |-> Cleared(vec[v]), mem |-> mem])

\* Through a reference: [], at, front and back count from the start, revat
\* from the end.
Write(v, i, x) ==
  /\ Keeps(v) /\ i \in 1 .. vec[v].end
  /\ mem' = [mem EXCEPT ![vec[v].base][i] = x]
  /\ UNCHANGED vec

Init ==
  /\ live = {}
  /\ vec = [v \in Vec |-> Empty(v)]
  /\ mem = [b \in Buffer |-> IF b \in Vec THEN Fresh(Min) ELSE <<>>]

Next ==
  \E v \in Vec :
    \/ Construct(v) \/ Destroy(v) \/ PopBack(v) \/ Clear(v)
    \/ \E o \in Vec : \/ CopyConstruct(v, o) \/ MoveConstruct(v, o)
                      \/ Assign(v, o) \/ AssignThrows(v, o)
    \/ \E n \in 0 .. MaxSize : Reserve(v, n)
    \/ \E x \in Elem : PushBack(v, x)
    \/ \E x \in Elem, i \in 1 .. MaxSize : Write(v, i, x)

Spec == Init /\ [][Next]_vars

-----------------------------------------------------------------------------
(* Properties.                                                             *)

\* Type correctness: an object has pointers, a buffer has cells.
TypeOK ==
  /\ live \subseteq Vec
  /\ vec \in [Vec -> Object]
  /\ mem \in [Buffer -> Seq(Cell)]

\* The elements lie in the buffer and cap is its size, so that neither a read
\* nor the next push_back leaves it; base is the inline buffer or a block.
InBounds ==
  \A v \in Vec :
    /\ vec[v].base \in {v} \cup Heap
    /\ vec[v].cap = Len(mem[vec[v].base])
    /\ vec[v].end <= vec[v].cap

\* No two vectors share a block, no block leaks when its vector grows, is
\* moved from or dies, and none is used after it was deleted.
Owned ==
  /\ \A v, w \in Vec : vec[v].base = vec[w].base => v = w
  /\ \A h \in Heap : mem[h] # <<>> <=> \E v \in live : vec[v].base = h

\* Every vector is a sequence of its own: growing, copying, moving and
\* deleting change no other one, and a throw empties at most the target of
\* an assignment.
Value(v) == [i \in 1 .. vec[v].end |-> mem[vec[v].base][i]]
V == INSTANCE Vectors WITH value <- [v \in Vec |-> Value(v)]
Sequence == V!Spec
=============================================================================
