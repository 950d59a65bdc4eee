------------------------------ MODULE Vectors -------------------------------
(***************************************************************************)
(* What small_vector promises of its objects: each is a sequence of its    *)
(* own.  A copy is independent of its original, a moved-from vector is     *)
(* empty, and an operation that throws changes nothing, except that an     *)
(* assignment may have emptied its target.                                 *)
(***************************************************************************)
EXTENDS Integers, Sequences

CONSTANTS
  Vec,    \* names of the objects
  Elem    \* values of the elements

VARIABLES
  live,    \* the objects that exist
  value    \* their elements, and none for the others

vars == <<live, value>>

Init == live = {} /\ value = [v \in Vec |-> <<>>]

\* The elements of v become s.
Sets(v, s) ==
  /\ v \in live
  /\ value' = [value EXCEPT ![v] = s]
  /\ UNCHANGED live

Construct(v) ==
  /\ v \notin live
  /\ live' = live \cup {v}
  /\ UNCHANGED value

CopyConstruct(v, o) ==
  /\ v \notin live /\ o \in live
  /\ live' = live \cup {v}
  /\ value' = [value EXCEPT ![v] = value[o]]

MoveConstruct(v, o) ==
  /\ v \notin live /\ o \in live
  /\ live' = live \cup {v}
  /\ value' = [value EXCEPT ![v] = value[o], ![o] = <<>>]

Destroy(v) ==
  /\ v \in live
  /\ live' = live \ {v}
  /\ value' = [value EXCEPT ![v] = <<>>]

Clear(v)       == Sets(v, <<>>)
Assign(v, o)   == o \in live /\ Sets(v, value[o])
PushBack(v, x) == Sets(v, Append(value[v], x))
PopBack(v)     == value[v] # <<>> /\ Sets(v, SubSeq(value[v], 1, Len(value[v]) - 1))
Write(v, i, x) == Sets(v, [value[v] EXCEPT ![i] = x])

Next ==
  \E v \in Vec :
    \/ Construct(v) \/ Destroy(v) \/ Clear(v) \/ PopBack(v)
    \/ \E o \in Vec : CopyConstruct(v, o) \/ MoveConstruct(v, o) \/ Assign(v, o)
    \/ \E x \in Elem : PushBack(v, x) \/ \E i \in 1 .. Len(value[v]) : Write(v, i, x)

Spec == Init /\ [][Next]_vars
=============================================================================
