--------------------------- MODULE SectionsProofs ---------------------------
(***************************************************************************)
(* What cursors never do, for every file, every size of byte and word and  *)
(* every section and slice of it.                                          *)
(***************************************************************************)
EXTENDS Sections, SequenceTheorems, FiniteSetTheorems, TLAPS

Got == {"fixed", "address", "uleb128", "undefined"}

\* The cursor is not before its section, which is a real one; nothing was
\* read before there was a section.
SInv ==
  /\ TypeOK
  /\ sec.begin <= pos
  /\ outer.begin <= sec.begin
  /\ sec.begin <= sec.end /\ outer.begin <= outer.end
  /\ ~Reading => last.op = "none" /\ sec = outer
  /\ ReadsInside
  /\ SlicesBounded

\* Before the file's data is named, nothing can be read.
LEMMA InitSInv == Init => SInv
BY SMT DEF Init, SInv, TypeOK, Reading, ReadsInside, SlicesBounded, NoSection, Nothing

\* A step that neither reads nor moves the section keeps the invariant.
LEMMA StutterSInv == SInv /\ UNCHANGED vars => SInv'
BY SMT DEF vars, SInv, TypeOK, Reading, ReadsInside, SlicesBounded

\* Loading a header leaves every cursor alone.
LEMMA LoadSInv == SInv /\ Load => SInv'
BY SMT DEF Load, SInv, TypeOK, Reading, ReadsInside, SlicesBounded

\* Opening a section puts the cursor on its first byte.
LEMMA OpenSInv == SInv /\ Open => SInv'
<1> SUFFICES ASSUME SInv, Open PROVE SInv'
  OBVIOUS
<1>1. PICK begin \in 0 .. Len(bytes), end \in 0 .. Len(bytes) :
        /\ begin < end
        /\ outer' = [begin |-> begin, end |-> end]
        /\ sec' = outer' /\ pos' = begin
  BY DEF Open
<1>2. Len(bytes) \in Nat
  BY SectionsAssumption DEF SInv, TypeOK, bytes
<1>3. file' = file /\ last' = last
  BY DEF Open
<1>4. last.op = "none"
  BY DEF SInv, Open, Reading
<1> QED
  BY <1>1, <1>2, <1>3, <1>4 DEF SInv, TypeOK, Reading, ReadsInside, SlicesBounded, NoSection

\* Reading forward inside the section keeps the invariant.
LEMMA ReadsSInv ==
  ASSUME SInv, Reading, NEW op \in Got, NEW v, NEW to \in Nat, Reads(op, to, v),
         pos < to, to <= sec.end
  PROVE  SInv'
<1>1. /\ last' = [op |-> op, from |-> pos, to |-> to, value |-> v]
      /\ pos' = to
      /\ file' = file /\ outer' = outer /\ sec' = sec
  BY DEF Reads
<1>2. {sec.begin, sec.end, pos} \subseteq Nat
  BY SMT DEF SInv, TypeOK
<1>3. TypeOK'
  BY <1>1, <1>2 DEF SInv, TypeOK
<1>4. ReadsInside'
  BY <1>1, <1>2 DEF SInv, ReadsInside
<1>5. SlicesBounded' /\ Reading'
  BY <1>1 DEF SInv, SlicesBounded, Reading
<1>6. /\ (sec.begin <= pos)' /\ (outer.begin <= sec.begin)'
      /\ (sec.begin <= sec.end)' /\ (outer.begin <= outer.end)'
  BY <1>1, <1>2 DEF SInv
<1> QED
  BY <1>3, <1>4, <1>5, <1>6 DEF SInv

\* An underflow reads nothing.
LEMMA UnderflowSInv ==
  ASSUME SInv, Reading, NEW p \in Nat, pos <= p, Underflow(p)
  PROVE  SInv'
<1>1. /\ last' = [op |-> "underflow", from |-> p, to |-> p, value |-> 0]
      /\ pos' = p
      /\ file' = file /\ outer' = outer /\ sec' = sec
  BY DEF Underflow
<1> QED
  BY <1>1, SMT DEF SInv, TypeOK, Reading, ReadsInside, SlicesBounded

\* fixed reads only what ensure promises, wherever the cursor was moved.
LEMMA FixedSInv ==
  ASSUME SInv, NEW op \in {"fixed", "address"}, NEW n \in Sizes, Fixed(op, n)
  PROVE  SInv'
<1>1. n \in Nat /\ n > 0
  BY SectionsAssumption
<1>2. Reading /\ {pos, sec.end} \subseteq Nat
  BY DEF Fixed, SInv, TypeOK
<1>3. CASE Ensured(n)
  <2>1. pos + n \in Nat /\ pos < pos + n /\ pos + n <= sec.end
    BY <1>1, <1>2, <1>3 DEF Ensured
  <2>2. Reads(op, pos + n, FixedValue(pos, n))
    BY <1>3 DEF Fixed
  <2> QED
    BY <1>2, <2>1, <2>2, ReadsSInv DEF Got
<1>4. CASE ~Ensured(n)
  <2>1. Underflow(pos)
    BY <1>4 DEF Fixed
  <2> QED
    BY <1>2, <2>1, UnderflowSInv
<1> QED
  BY <1>3, <1>4

\* A number in base 128 ends inside the section or underflows at its end.
LEMMA UlebSInv == SInv /\ Uleb128 => SInv'
<1> SUFFICES ASSUME SInv, Uleb128 PROVE SInv'
  OBVIOUS
<1>1. Reading /\ {pos, sec.end} \subseteq Nat
  BY DEF Uleb128, SInv, TypeOK
<1>2. CASE Underflow(pos) \/ (pos < sec.end /\ Underflow(sec.end))
  BY <1>1, <1>2, UnderflowSInv
<1>5. CASE pos < sec.end /\ Reads("undefined", sec.end, 0)
  BY <1>1, <1>5, ReadsSInv DEF Got
<1>3. ASSUME NEW i \in Ends(pos), NEW op \in Got, NEW v, Reads(op, i + 1, v)
      PROVE  SInv'
  <2>1. i + 1 \in Nat /\ pos < i + 1 /\ i + 1 <= sec.end
    BY <1>1 DEF Ends
  <2> QED
    BY <1>1, <1>3, <2>1, ReadsSInv
<1>4. \/ Underflow(pos) \/ (pos < sec.end /\ Underflow(sec.end))
      \/ pos < sec.end /\ Reads("undefined", sec.end, 0)
      \/ \E i \in Ends(pos), v \in {Uleb128Value(pos, j + 1) : j \in Ends(pos)} \cup {0}, op \in Got :
           Reads(op, i + 1, v)
  BY DEF Uleb128, Got
<1> QED
  BY <1>2, <1>3, <1>4, <1>5

\* Moving the cursor forward is always allowed, even behind the end.
LEMMA AdvanceSInv ==
  ASSUME SInv, NEW n \in 1 .. MaxStep, Advance(n)
  PROVE  SInv'
<1>1. n \in Nat
  BY SectionsAssumption
<1> QED
  BY <1>1, SMT DEF Advance, SInv, TypeOK, Reading, ReadsInside, SlicesBounded

\* A slice has no more bytes than the section it is taken from.
LEMMA SliceSInv ==
  ASSUME SInv, NEW start \in 0 .. Len(bytes), NEW len \in 0 .. Len(bytes), Slice(start, len)
  PROVE  SInv'
<1> DEFINE e == sec.begin + start + Least(len, sec.end - sec.begin)
<1>1. Len(bytes) \in Nat /\ start \in Nat /\ len \in Nat
  BY SectionsAssumption DEF SInv, TypeOK, bytes
<1>2. {sec.begin, sec.end, outer.begin, outer.end} \subseteq Nat
      /\ outer.begin <= sec.begin /\ sec.begin <= sec.end
  BY SMT DEF SInv, TypeOK
<1>3. /\ Reading
      /\ sec' = [begin |-> sec.begin + start, end |-> e]
      /\ pos' = sec.begin + start
      /\ last' = Nothing
      /\ file' = file /\ outer' = outer
  BY DEF Slice, SliceOf
<1>4. e \in Nat /\ sec.begin + start <= e /\ e - (sec.begin + start) <= sec.end - sec.begin
  BY <1>1, <1>2 DEF Least
<1> HIDE DEF e
<1>5. TypeOK' /\ sec'.begin <= sec'.end
  BY <1>1, <1>2, <1>3, <1>4 DEF SInv, TypeOK, Nothing
<1>6. ReadsInside' /\ Reading'
  BY <1>3 DEF ReadsInside, Nothing, Reading
<1>7. SlicesBounded'
  <2>1. sec.end - sec.begin <= outer.end - outer.begin
    BY DEF SInv, SlicesBounded
  <2>2. sec'.begin = sec.begin + start /\ sec'.end = e
    BY <1>3
  <2>3. e - (sec.begin + start) <= outer.end - outer.begin
    BY <1>1, <1>2, <1>4, <2>1
  <2> QED
    BY <1>3, <2>2, <2>3 DEF SlicesBounded
<1>8. (sec.begin <= pos)' /\ (outer.begin <= sec.begin)'
  BY <1>1, <1>2, <1>3
<1> QED
  BY <1>3, <1>5, <1>6, <1>7, <1>8 DEF SInv

\* A new cursor starts in the section or behind it.
LEMMA RewindSInv ==
  ASSUME SInv, NEW offset \in 0 .. MaxStep, Rewind(offset)
  PROVE  SInv'
<1>1. offset \in Nat
  BY SectionsAssumption
<1>2. {outer.begin, outer.end} \subseteq Nat
  BY SMT DEF SInv, TypeOK
<1> QED
  BY <1>1, <1>2, SMT DEF Rewind, SInv, TypeOK, Reading, ReadsInside, SlicesBounded, Nothing

\* The strengthened invariant holds in every reachable state.
THEOREM CursorInvariance == Spec => []SInv
<1>1. Init => SInv
  BY InitSInv
<1>2. SInv /\ [Next]_vars => SInv'
  <2> SUFFICES ASSUME SInv, [Next]_vars PROVE SInv'
    OBVIOUS
  <2>1. CASE Load
    BY <2>1, LoadSInv
  <2>2. CASE Open
    BY <2>2, OpenSInv
  <2>3. CASE \E n \in Sizes : Fixed("fixed", n)
    BY <2>3, FixedSInv
  <2>4. CASE Uleb128
    BY <2>4, UlebSInv
  <2>5. CASE Address
    <3>1. PICK n \in Sizes : Fixed("address", n)
      BY <2>5 DEF Address
    <3> QED
      BY <3>1, FixedSInv
  <2>6. CASE \E n \in 1 .. MaxStep : Advance(n)
    BY <2>6, AdvanceSInv
  <2>7. CASE \E start, len \in 0 .. Len(bytes) : Slice(start, len)
    BY <2>7, SliceSInv
  <2>8. CASE \E offset \in 0 .. MaxStep : Rewind(offset)
    BY <2>8, RewindSInv
  <2>9. CASE UNCHANGED vars
    BY <2>9, StutterSInv
  <2> QED
    BY <2>1, <2>2, <2>3, <2>4, <2>5, <2>6, <2>7, <2>8, <2>9 DEF Next
<1> QED
  BY <1>1, <1>2, PTL DEF Spec

\* A cursor reads nothing outside the section or slice it was put on,
\* whatever it was moved by and whatever it is asked for.
THEOREM ReadsAreBounded == Spec => []ReadsInside
<1>1. SInv => ReadsInside
  BY DEF SInv
<1> QED
  BY <1>1, CursorInvariance, PTL

\* However deep slices are nested, and whatever starts and lengths they are asked
\* for with, a read is no further behind the section than its slice begins in it.
THEOREM ReadsAreNearSection == Spec => []ReadsNearSection
<1>1. SInv => ReadsNearSection
  <2> SUFFICES ASSUME SInv, last.op \in {"fixed", "address", "uleb128", "undefined"}
               PROVE  outer.begin <= last.from /\ last.to - outer.end <= sec.begin - outer.begin
    BY DEF ReadsNearSection
  <2>1. {sec.begin, sec.end, outer.begin, outer.end, last.from, last.to} \subseteq Nat
    BY SMT DEF SInv, TypeOK
  <2>2. sec.begin <= last.from /\ last.to <= sec.end
    BY DEF SInv, ReadsInside
  <2>3. outer.begin <= sec.begin /\ sec.end - sec.begin <= outer.end - outer.begin
    BY DEF SInv, SlicesBounded
  <2> QED
    BY <2>1, <2>2, <2>3
<1> QED
  BY <1>1, CursorInvariance, PTL

-----------------------------------------------------------------------------
(* Headers.                                                                *)

\* A number read backwards twice is the number.
LEMMA ReverseTwice ==
  ASSUME NEW S, NEW s \in Seq(S)
  PROVE  /\ Reverse(s) \in Seq(S) /\ Len(Reverse(s)) = Len(s)
         /\ Reverse(Reverse(s)) = s
<1>1. /\ Len(s) \in Nat
      /\ DOMAIN s = 1 .. Len(s)
      /\ \A i \in 1 .. Len(s) : s[i] \in S
      /\ s = [i \in 1 .. Len(s) |-> s[i]]
  BY LenProperties, ElementOfSeq
<1> DEFINE r == Reverse(s)
<1>2. r = [i \in 1 .. Len(s) |-> s[(Len(s) - i) + 1]]
  BY DEF Reverse
<1>3. \A i \in 1 .. Len(s) : (Len(s) - i) + 1 \in 1 .. Len(s) /\ (Len(s) - ((Len(s) - i) + 1)) + 1 = i
  BY <1>1
<1>4. r \in Seq(S) /\ Len(r) = Len(s)
  <2>1. r \in [1 .. Len(s) -> S]
    BY <1>1, <1>2, <1>3
  <2> QED BY <2>1, <1>1, SeqDef, LenProperties
<1>5. Reverse(r) = [i \in 1 .. Len(s) |-> r[(Len(s) - i) + 1]]
  BY <1>4 DEF Reverse
<1> HIDE DEF r
<1>6. \A i \in 1 .. Len(s) : r[(Len(s) - i) + 1] = s[i]
  BY <1>2, <1>3
<1>7. Reverse(r) = [i \in 1 .. Len(s) |-> s[i]]
  BY <1>5, <1>6
<1> QED BY <1>1, <1>4, <1>7 DEF r

\* Swapping the bytes on the way in undoes what the order of the file and of
\* the host did to them.
LEMMA SwappedBack ==
  ASSUME NEW v \in Seq(Byte), NEW o \in Order, NEW host \in Order
  PROVE  /\ swizzle(InOrder(InOrder(v, o), host), o, "native", host) = v
         /\ InOrder(v, o) \in Seq(Byte) /\ Len(InOrder(v, o)) = Len(v)
<1>1. /\ Reverse(v) \in Seq(Byte) /\ Len(Reverse(v)) = Len(v)
      /\ Reverse(Reverse(v)) = v
  BY ReverseTwice
<1>2. Resolved("native", host) = host /\ Resolved(o, host) = o
  BY DEF Resolved, Order
<1>3. /\ Reverse(Reverse(Reverse(v))) = Reverse(v)
  BY <1>1
<1> QED
  BY <1>1, <1>2, <1>3 DEF swizzle, InOrder, Order

-----------------------------------------------------------------------------
(* Where the fields of a header lie.                                       *)

\* The members of the structures.
Name ==
  {"ei_magic", "ei_class", "ei_data", "ei_version", "ei_osabi",
   "ei_abiversion", "ei_pad", "type", "machine", "version", "entry", "phoff",
   "shoff", "flags", "ehsize", "phentsize", "phnum", "shentsize", "shnum",
   "shstrndx", "name", "addr", "offset", "size", "link", "info", "addralign",
   "entsize", "vaddr", "paddr", "filesz", "memsz", "align", "value", "other",
   "shnxd"}

\* A field: a name, a size, and whether it is a number.
Field == Name \X (1 .. Widest) \X BOOLEAN

\* The bytes before a field are finitely many, and with the field's own they
\* are the bytes before the next.
LEMMA OffsetNext ==
  ASSUME NEW l \in Seq(Field), NEW i \in DOMAIN l
  PROVE  /\ OffsetOf(l, i) \in Nat
         /\ l[i][2] \in 1 .. Widest
         /\ OffsetOf(l, i + 1) = OffsetOf(l, i) + l[i][2]
<1>1. Len(l) \in Nat /\ DOMAIN l = 1 .. Len(l) /\ i \in Nat /\ i > 0 /\ l[i] \in Field
  BY LenProperties, ElementOfSeq
<1> DEFINE w == l[i][2]
<1>2. w \in 1 .. Widest
  BY <1>1 DEF Field
<1>3. Widest = 8
  BY DEF Widest
<1>4. IsFiniteSet((1 .. i - 1) \X (1 .. Widest))
  <2>1. 1 \in Int /\ i - 1 \in Int /\ Widest \in Int
    BY <1>1, <1>3
  <2>2. IsFiniteSet(1 .. i - 1)
    BY <2>1, FS_Interval
  <2>3. IsFiniteSet(1 .. Widest)
    BY <2>1, FS_Interval
  <2> QED BY <2>2, <2>3, FS_Product
<1>5. IsFiniteSet(BytesBefore(l, i)) /\ Cardinality(BytesBefore(l, i)) \in Nat
  <2>1. BytesBefore(l, i) \in SUBSET ((1 .. i - 1) \X (1 .. Widest))
    BY DEF BytesBefore
  <2>2. IsFiniteSet(BytesBefore(l, i))
    BY <1>4, <2>1, FS_Subset
  <2> QED BY <2>2, FS_CardinalityType
<1> DEFINE own == {i} \X (1 .. w)
<1>6. IsFiniteSet(own) /\ Cardinality(own) = w
  <2>1. IsFiniteSet({i}) /\ Cardinality({i}) = 1
    BY FS_Singleton
  <2>2. IsFiniteSet(1 .. w) /\ Cardinality(1 .. w) = w
    <3>1. 1 \in Int /\ w \in Int /\ ~(1 > w) /\ (w - 1) + 1 = w
      BY <1>2, <1>3
    <3> HIDE DEF w
    <3> QED BY <3>1, FS_Interval
  <2>3. IsFiniteSet(own) /\ Cardinality(own) = 1 * w
    BY <2>1, <2>2, FS_Product
  <2> QED BY <2>3, <1>2, <1>3
<1>7. BytesBefore(l, i + 1) = BytesBefore(l, i) \cup own
  <2>1. (1 .. (i + 1) - 1) = (1 .. i - 1) \cup {i}
    BY <1>1
  <2>2. ASSUME NEW p
        PROVE  p \in BytesBefore(l, i + 1) <=> p \in BytesBefore(l, i) \cup own
    <3>1. p \in BytesBefore(l, i + 1) <=>
            p \in ((1 .. i - 1) \cup {i}) \X (1 .. Widest) /\ p[2] <= l[p[1]][2]
      BY <2>1 DEF BytesBefore
    <3>2. p \in BytesBefore(l, i) <=> p \in (1 .. i - 1) \X (1 .. Widest) /\ p[2] <= l[p[1]][2]
      BY DEF BytesBefore
    <3>3. p \in own <=> p \in {i} \X (1 .. Widest) /\ p[2] <= l[p[1]][2]
      BY <1>2, <1>3
    <3>4. p \in ((1 .. i - 1) \cup {i}) \X (1 .. Widest) <=>
            p \in (1 .. i - 1) \X (1 .. Widest) \/ p \in {i} \X (1 .. Widest)
      BY Zenon
    <3> QED BY <3>1, <3>2, <3>3, <3>4, Zenon
  <2> HIDE DEF own
  <2> QED BY <2>2, Zenon
<1>8. BytesBefore(l, i) \cap own = {}
  <2>1. i \notin 1 .. i - 1
    BY <1>1
  <2> QED BY <2>1, Zenon DEF BytesBefore
<1>9. Cardinality(BytesBefore(l, i + 1)) = Cardinality(BytesBefore(l, i)) + w
  <2> HIDE DEF own, w
  <2>1. Cardinality(BytesBefore(l, i) \cup own) = Cardinality(BytesBefore(l, i)) + Cardinality(own) - Cardinality(BytesBefore(l, i) \cap own)
    BY <1>5, <1>6, FS_Union
  <2>2. Cardinality(BytesBefore(l, i) \cap own) = 0
    BY <1>8, FS_EmptySet
  <2>3. Cardinality(BytesBefore(l, i + 1)) = Cardinality(BytesBefore(l, i) \cup own)
    BY <1>7
  <2>4. Cardinality(own) = w /\ w \in Int
    BY <1>2, <1>3, <1>6
  <2>5. Cardinality(BytesBefore(l, i + 1)) = Cardinality(BytesBefore(l, i)) + w - 0
    BY <2>1, <2>2, <2>3, <2>4
  <2> QED BY <2>4, <2>5, <1>5
<1>10. OffsetOf(l, i) = Cardinality(BytesBefore(l, i)) /\ OffsetOf(l, i + 1) = Cardinality(BytesBefore(l, i + 1))
  BY DEF OffsetOf
<1> QED
  BY <1>2, <1>5, <1>9, <1>10

\* No bytes lie before the first field.  A later field starts behind an
\* earlier one.
LEMMA OffsetBehind ==
  ASSUME NEW l \in Seq(Field), NEW i \in DOMAIN l, NEW j \in DOMAIN l \cup {Len(l) + 1}, i < j
  PROVE  /\ OffsetOf(l, i) + l[i][2] <= OffsetOf(l, j)
         /\ OffsetOf(l, j) \in Nat
<1>1. Len(l) \in Nat /\ DOMAIN l = 1 .. Len(l) /\ i \in Nat /\ j \in Nat /\ i > 0 /\ j > 0
  BY LenProperties
<1>2. IsFiniteSet(BytesBefore(l, j)) /\ Cardinality(BytesBefore(l, j)) \in Nat
  <2>1. BytesBefore(l, j) \in SUBSET ((1 .. j - 1) \X (1 .. Widest))
    BY DEF BytesBefore
  <2>2. 1 \in Int /\ j - 1 \in Int /\ Widest \in Int
    BY <1>1 DEF Widest
  <2>3. IsFiniteSet(1 .. j - 1)
    BY <2>2, FS_Interval
  <2>4. IsFiniteSet(1 .. Widest)
    BY <2>2, FS_Interval
  <2>5. IsFiniteSet((1 .. j - 1) \X (1 .. Widest))
    BY <2>3, <2>4, FS_Product
  <2>6. IsFiniteSet(BytesBefore(l, j))
    BY <2>1, <2>5, FS_Subset
  <2> QED BY <2>6, FS_CardinalityType
<1>3. BytesBefore(l, i + 1) \in SUBSET BytesBefore(l, j)
  <2>1. 1 .. (i + 1) - 1 \subseteq 1 .. j - 1
    BY <1>1
  <2> QED BY <2>1, Zenon DEF BytesBefore
<1>4. Cardinality(BytesBefore(l, i + 1)) <= Cardinality(BytesBefore(l, j))
  BY <1>2, <1>3, FS_Subset
<1>5. OffsetOf(l, j) = Cardinality(BytesBefore(l, j)) /\ OffsetOf(l, i + 1) = Cardinality(BytesBefore(l, i + 1))
  BY DEF OffsetOf
<1>6. OffsetOf(l, i + 1) = OffsetOf(l, i) + l[i][2]
  BY OffsetNext
<1> QED BY <1>2, <1>4, <1>5, <1>6

\* Bytes of two fields, the first of which ends before the second starts, are
\* not the same.
LEMMA Apart ==
  ASSUME NEW a \in Int, NEW b \in Int, NEW w \in Int, NEW p \in Int, a + w <= b, b < p
  PROVE  ~(p <= a + w)
OBVIOUS

\* Each byte of a field is that field's, and lies inside the header.
LEMMA FieldFound ==
  ASSUME NEW l \in Seq(Field), NEW i \in DOMAIN l, NEW q \in 1 .. l[i][2]
  PROVE  /\ OffsetOf(l, i) + q \in 1 .. OffsetOf(l, Len(l) + 1)
         /\ FieldAt(l, OffsetOf(l, i) + q) = i
<1> DEFINE p == OffsetOf(l, i) + q
           At(j) == OffsetOf(l, j) < p /\ p <= OffsetOf(l, j) + l[j][2]
<1>1. Len(l) \in Nat /\ DOMAIN l = 1 .. Len(l) /\ i \in Nat
  BY LenProperties
<1>2. \A j \in DOMAIN l : OffsetOf(l, j) \in Int /\ l[j][2] \in Int
  BY OffsetNext DEF Widest
<1>3. q \in Int /\ q > 0 /\ q <= l[i][2] /\ p \in Int
  BY <1>2
<1>4. At(i)
  <2> DEFINE a == OffsetOf(l, i)
             w == l[i][2]
  <2>1. a \in Int /\ w \in Int /\ q \in Int /\ q > 0 /\ q <= w
    BY <1>2, <1>3
  <2> HIDE DEF a, w
  <2>2. a < a + q /\ a + q <= a + w
    BY <2>1
  <2> QED BY <2>2 DEF a, w
<1>5. ASSUME NEW j \in DOMAIN l, At(j)
      PROVE  j = i
  <2>1. ASSUME NEW m \in DOMAIN l, NEW n \in DOMAIN l, m < n, At(n)
        PROVE  ~At(m)
    <3>1. OffsetOf(l, m) + l[m][2] <= OffsetOf(l, n)
      BY <2>1, OffsetBehind
    <3>2. OffsetOf(l, n) < p
      BY <2>1
    <3> HIDE DEF p
    <3>3. ~(p <= OffsetOf(l, m) + l[m][2])
      BY <1>2, <1>3, <3>1, <3>2, Apart
    <3> QED BY <3>3
  <2> HIDE DEF At
  <2>2. ~(i < j) /\ ~(j < i)
    BY <1>4, <1>5, <2>1
  <2> QED BY <2>2, <1>1
<1>6. i < Len(l) + 1 /\ Len(l) + 1 \in DOMAIN l \cup {Len(l) + 1}
  BY <1>1
<1>7. /\ OffsetOf(l, i) + l[i][2] <= OffsetOf(l, Len(l) + 1)
      /\ OffsetOf(l, Len(l) + 1) \in Nat
  BY <1>6, OffsetBehind
<1>8. p \in 1 .. OffsetOf(l, Len(l) + 1)
  <2> DEFINE a == OffsetOf(l, i)
             w == l[i][2]
             e == OffsetOf(l, Len(l) + 1)
  <2>1. a \in Nat /\ w \in Int /\ q \in Int /\ q > 0 /\ q <= w /\ a + w <= e /\ e \in Nat
    BY <1>2, <1>3, <1>7, OffsetNext
  <2> HIDE DEF a, w, e
  <2>2. a + q \in 1 .. e
    BY <2>1
  <2> QED BY <2>2 DEF a, e
<1>9. FieldAt(l, p) = CHOOSE j \in DOMAIN l : At(j)
  BY DEF FieldAt
<1> HIDE DEF p, At
<1>10. FieldAt(l, p) = i
  BY <1>4, <1>5, <1>9, Zenon
<1> QED BY <1>8, <1>10 DEF p

\* A field read from a header that was written is the field, in the order of
\* the file.
IsReadBack(bs, l, i, s) == SubSeq(bs, OffsetOf(l, i) + 1, OffsetOf(l, i) + l[i][2]) = s

LEMMA FieldReadBack ==
  ASSUME NEW fields, NEW k, NEW c, NEW o, Layout(k, c) \in Seq(Field),
         NEW i \in DOMAIN Layout(k, c),
         NEW s, s = Stored(fields[Layout(k, c)[i][1]], Layout(k, c)[i][3], o),
         s \in Seq(Byte), Len(s) = Layout(k, c)[i][2]
  PROVE  IsReadBack(Written(fields, k, c, o), Layout(k, c), i, s)
<1> DEFINE l == Layout(k, c)
           w == l[i][2]
           off == OffsetOf(l, i)
           bs == Written(fields, k, c, o)
<1>1. off \in Int /\ w \in Int /\ w > 0
  <2>1. off \in Nat /\ w \in 1 .. Widest
    BY OffsetNext
  <2> HIDE DEF off, w
  <2> QED BY <2>1 DEF Widest
<1>2. \A q \in 1 .. w : off + q \in 1 .. OffsetOf(l, Len(l) + 1) /\ FieldAt(l, off + q) = i
  BY FieldFound
<1>3. bs = [p \in 1 .. OffsetOf(l, Len(l) + 1) |->
              Stored(fields[l[FieldAt(l, p)][1]], l[FieldAt(l, p)][3], o)[p - OffsetOf(l, FieldAt(l, p))]]
  BY DEF Written
<1>4. s = Stored(fields[l[i][1]], l[i][3], o) /\ s \in Seq(Byte) /\ Len(s) = w
  OBVIOUS
<1> HIDE DEF l
<1>5. ASSUME NEW q \in 1 .. w
      PROVE  bs[off + q] = s[q]
  <2>1. bs[off + q] = Stored(fields[l[FieldAt(l, off + q)][1]], l[FieldAt(l, off + q)][3], o)
                        [(off + q) - OffsetOf(l, FieldAt(l, off + q))]
    <3> HIDE DEF bs, off
    <3> QED BY <1>2, <1>3
  <2>2. FieldAt(l, off + q) = i
    BY <1>2
  <2>3. bs[off + q] = s[(off + q) - off]
    BY <2>1, <2>2, <1>4
  <2>4. (off + q) - off = q
    BY <1>1
  <2> QED BY <2>3, <2>4
<1>6. SubSeq(bs, off + 1, off + w) = [q \in 1 .. w |-> bs[off + q]]
  <2> DEFINE piece == SubSeq(bs, off + 1, off + w)
             S == {bs[p] : p \in Int}
  <2>1. off + 1 \in Int /\ off + w \in Int /\ \A q \in (off + 1) .. (off + w) : bs[q] \in S
    BY <1>1
  <2>2. off + 1 <= off + w /\ (off + w) - (off + 1) + 1 = w
        /\ \A q \in 1 .. w : (off + 1) + q - 1 = off + q
    <3> HIDE DEF off, w
    <3> QED BY <1>1
  <2> HIDE DEF off, bs, w, S
  <2>3. /\ piece \in Seq(S)
        /\ Len(piece) = (off + w) - (off + 1) + 1
        /\ \A q \in 1 .. (off + w) - (off + 1) + 1 : piece[q] = bs[(off + 1) + q - 1]
    BY <2>1, <2>2, SubSeqProperties
  <2> HIDE DEF piece
  <2>4. piece \in Seq(S) /\ Len(piece) = w /\ \A q \in 1 .. w : piece[q] = bs[off + q]
    BY <2>2, <2>3
  <2>5. piece = [q \in 1 .. w |-> piece[q]]
    BY <2>4, LenProperties
  <2> QED BY <2>4, <2>5 DEF piece
<1>7. s = [q \in 1 .. w |-> s[q]]
  BY <1>4, LenProperties
<1> HIDE DEF off, bs, w
<1>8. SubSeq(bs, off + 1, off + w) = s
  BY <1>5, <1>6, <1>7
<1> QED BY <1>8 DEF off, bs, w, l, IsReadBack

-----------------------------------------------------------------------------
(* Which fields a header has.                                              *)

\* The fields of l are numbers with these names and these plain bytes.
IsLayout(l, numbers, plains) ==
  /\ l \in Seq(Field)
  /\ \A i \in DOMAIN l : IF l[i][3] THEN l[i][1] \in numbers ELSE l[i] \in plains
  /\ \A f \in numbers : \E i \in DOMAIN l : l[i][1] = f
  /\ \A p \in plains : \E i \in DOMAIN l : l[i][1] = p[1]

\* Two groups of fields one behind the other.
LEMMA LayoutJoined ==
  ASSUME NEW l, NEW m, NEW N, NEW P, NEW N2, NEW P2, IsLayout(l, N, P), IsLayout(m, N2, P2)
  PROVE  IsLayout(l \o m, N \cup N2, P \cup P2)
<1>1. l \in Seq(Field) /\ m \in Seq(Field)
  BY DEF IsLayout
<1> DEFINE lm == l \o m
<1>2. /\ lm \in Seq(Field) /\ Len(lm) = Len(l) + Len(m)
      /\ \A i \in 1 .. Len(l) + Len(m) : lm[i] = IF i <= Len(l) THEN l[i] ELSE m[i - Len(l)]
  BY <1>1, ConcatProperties
<1>3. /\ Len(l) \in Nat /\ Len(m) \in Nat /\ DOMAIN l = 1 .. Len(l) /\ DOMAIN m = 1 .. Len(m)
      /\ DOMAIN lm = 1 .. Len(l) + Len(m)
  BY <1>1, <1>2, LenProperties
<1> HIDE DEF lm
<1>4. \A i \in DOMAIN lm : (i \in DOMAIN l /\ lm[i] = l[i]) \/ \E j \in DOMAIN m : lm[i] = m[j]
  <2> TAKE i \in DOMAIN lm
  <2>1. CASE i <= Len(l)
    BY <2>1, <1>2, <1>3
  <2>2. CASE ~(i <= Len(l))
    <3>1. i - Len(l) \in DOMAIN m /\ lm[i] = m[i - Len(l)]
      BY <2>2, <1>2, <1>3
    <3> QED BY <3>1
  <2> QED BY <2>1, <2>2
<1>5. \A i \in DOMAIN l : i \in DOMAIN lm /\ lm[i] = l[i]
  BY <1>2, <1>3
<1>6. \A j \in DOMAIN m : \E i \in DOMAIN lm : lm[i] = m[j]
  <2> TAKE j \in DOMAIN m
  <2>1. Len(l) + j \in DOMAIN lm /\ ~(Len(l) + j <= Len(l)) /\ (Len(l) + j) - Len(l) = j
    BY <1>3
  <2>2. lm[Len(l) + j] = m[j]
    BY <1>2, <1>3, <2>1
  <2> QED BY <2>1, <2>2
<1>7. \A i \in DOMAIN lm : IF lm[i][3] THEN lm[i][1] \in N \cup N2 ELSE lm[i] \in P \cup P2
  BY <1>4 DEF IsLayout
<1>8. \A f \in N \cup N2 : \E i \in DOMAIN lm : lm[i][1] = f
  BY <1>5, <1>6 DEF IsLayout
<1>9. \A p \in P \cup P2 : \E i \in DOMAIN lm : lm[i][1] = p[1]
  BY <1>5, <1>6 DEF IsLayout
<1> QED
  BY <1>2, <1>7, <1>8, <1>9 DEF lm, IsLayout

\* Numbers of one size.
LEMMA LayoutNumbers ==
  ASSUME NEW fs \in Seq(Name), NEW size, NEW c, size[c] \in 1 .. Widest,
         NEW N, N = {fs[i] : i \in 1 .. Len(fs)}
  PROVE  IsLayout(Numbers(fs, size, c), N, {})
<1> DEFINE l == Numbers(fs, size, c)
           w == size[c]
<1>1. Len(fs) \in Nat /\ DOMAIN fs = 1 .. Len(fs) /\ \A i \in 1 .. Len(fs) : fs[i] \in Name
  BY LenProperties, ElementOfSeq
<1>2. l = [i \in 1 .. Len(fs) |-> <<fs[i], w, TRUE>>]
  BY DEF Numbers, Number
<1> HIDE DEF l, w
<1>3. \A i \in 1 .. Len(fs) : /\ <<fs[i], w, TRUE>> \in Field
                             /\ <<fs[i], w, TRUE>>[1] = fs[i] /\ <<fs[i], w, TRUE>>[3] = TRUE
  BY <1>1 DEF Field, w
<1>4. DOMAIN l = 1 .. Len(fs) /\ \A i \in 1 .. Len(fs) : l[i] \in Field /\ l[i][1] = fs[i] /\ l[i][3]
  BY <1>2, <1>3
<1>5. l \in Seq(Field)
  <2>1. l \in [1 .. Len(fs) -> Field]
    BY <1>2, <1>3
  <2> QED BY <2>1, <1>1, SeqDef
<1> QED
  BY <1>1, <1>4, <1>5 DEF IsLayout, l

\* Bytes that are not a number.
LEMMA LayoutPlain ==
  ASSUME NEW f \in Name, NEW n \in 1 .. Widest
  PROVE  IsLayout(<<Plain(f, n)>>, {}, {Plain(f, n)})
<1> DEFINE p == Plain(f, n)
<1>1. p \in Field /\ p[1] = f /\ p[3] = FALSE
  BY DEF Plain, Field
<1> HIDE DEF p
<1>2. <<p>> \in Seq(Field) /\ DOMAIN <<p>> = {1} /\ <<p>>[1] = p
  BY <1>1
<1>3. IsLayout(<<p>>, {}, {p})
  BY <1>1, <1>2 DEF IsLayout
<1> QED BY <1>3 DEF p

\* Names of numbers and of bytes do not mix.
IsTidy(N, P) == (\A p \in P : p[1] \notin N) /\ \A p, q \in P : p[1] = q[1] => p = q

\* Every name of l is one of m, and the bytes of that name are as many.
Agree(l, m) ==
  /\ \A i \in DOMAIN l : \E j \in DOMAIN m : m[j][1] = l[i][1]
  /\ \A i \in DOMAIN l, j \in DOMAIN m : l[i][1] = m[j][1] /\ ~l[i][3] => l[i][2] = m[j][2]

\* Two arrangements of the same numbers and bytes agree.
LEMMA LayoutsAgree ==
  ASSUME NEW l, NEW m, NEW N, NEW P, IsLayout(l, N, P), IsLayout(m, N, P), IsTidy(N, P)
  PROVE  Agree(l, m)
<1>1. \A i \in DOMAIN l : \E j \in DOMAIN m : m[j][1] = l[i][1]
  BY DEF IsLayout
<1>2. ASSUME NEW i \in DOMAIN l, NEW j \in DOMAIN m, l[i][1] = m[j][1], ~l[i][3]
      PROVE  l[i][2] = m[j][2]
  <2>1. l[i] \in P
    BY <1>2 DEF IsLayout
  <2>2. ~m[j][3]
    BY <1>2, <2>1 DEF IsLayout, IsTidy
  <2>3. m[j] \in P
    BY <2>2 DEF IsLayout
  <2> QED BY <1>2, <2>1, <2>3 DEF IsTidy
<1> QED BY <1>1, <1>2 DEF Agree

\* The elements of sequences of up to six.
IsListed(s, S, elements) == s \in Seq(S) /\ elements = {s[i] : i \in 1 .. Len(s)}

LEMMA Listed1 ==
  ASSUME NEW S, NEW d \in S
  PROVE  IsListed(<<d>>, S, {d})
<1> DEFINE s == <<d>>
<1>1. s \in Seq(S) /\ Len(s) = 1
  OBVIOUS
<1>2. s[1] = d
  OBVIOUS
<1>3. 1 .. 1 = {1}
  OBVIOUS
<1> HIDE DEF s
<1>4. {s[i] : i \in {1}} = {s[1]}
  BY Zenon
<1> QED BY <1>1, <1>2, <1>3, <1>4 DEF s, IsListed

LEMMA Listed2 ==
  ASSUME NEW S, NEW d \in S, NEW e \in S
  PROVE  IsListed(<<d, e>>, S, {d, e})
<1> DEFINE s == <<d, e>>
<1>1. s \in Seq(S) /\ Len(s) = 2
  OBVIOUS
<1>2. s[1] = d /\ s[2] = e
  OBVIOUS
<1>3. 1 .. 2 = {1, 2}
  OBVIOUS
<1> HIDE DEF s
<1>4. {s[i] : i \in {1, 2}} = {s[1], s[2]}
  BY Zenon
<1> QED BY <1>1, <1>2, <1>3, <1>4 DEF s, IsListed

LEMMA Listed3 ==
  ASSUME NEW S, NEW d \in S, NEW e \in S, NEW f \in S
  PROVE  IsListed(<<d, e, f>>, S, {d, e, f})
<1> DEFINE s == <<d, e, f>>
<1>1. s \in Seq(S) /\ Len(s) = 3
  OBVIOUS
<1>2. s[1] = d /\ s[2] = e /\ s[3] = f
  OBVIOUS
<1>3. 1 .. 3 = {1, 2, 3}
  OBVIOUS
<1> HIDE DEF s
<1>4. {s[i] : i \in {1, 2, 3}} = {s[1], s[2], s[3]}
  BY Zenon
<1> QED BY <1>1, <1>2, <1>3, <1>4 DEF s, IsListed

LEMMA Listed4 ==
  ASSUME NEW S, NEW d \in S, NEW e \in S, NEW f \in S, NEW g \in S
  PROVE  IsListed(<<d, e, f, g>>, S, {d, e, f, g})
<1> DEFINE s == <<d, e, f, g>>
<1>1. s \in Seq(S) /\ Len(s) = 4
  OBVIOUS
<1>2. s[1] = d /\ s[2] = e /\ s[3] = f /\ s[4] = g
  OBVIOUS
<1>3. 1 .. 4 = {1, 2, 3, 4}
  OBVIOUS
<1> HIDE DEF s
<1>4. {s[i] : i \in {1, 2, 3, 4}} = {s[1], s[2], s[3], s[4]}
  BY Zenon
<1> QED BY <1>1, <1>2, <1>3, <1>4 DEF s, IsListed

LEMMA Listed5 ==
  ASSUME NEW S, NEW d \in S, NEW e \in S, NEW f \in S, NEW g \in S, NEW h \in S
  PROVE  IsListed(<<d, e, f, g, h>>, S, {d, e, f, g, h})
<1> DEFINE s == <<d, e, f, g, h>>
<1>1. s \in Seq(S) /\ Len(s) = 5
  OBVIOUS
<1>2. s[1] = d /\ s[2] = e /\ s[3] = f /\ s[4] = g /\ s[5] = h
  OBVIOUS
<1>3. 1 .. 5 = {1, 2, 3, 4, 5}
  OBVIOUS
<1> HIDE DEF s
<1>4. {s[i] : i \in {1, 2, 3, 4, 5}} = {s[1], s[2], s[3], s[4], s[5]}
  BY Zenon
<1> QED BY <1>1, <1>2, <1>3, <1>4 DEF s, IsListed

LEMMA Listed6 ==
  ASSUME NEW S, NEW d \in S, NEW e \in S, NEW f \in S, NEW g \in S, NEW h \in S, NEW k \in S
  PROVE  IsListed(<<d, e, f, g, h, k>>, S, {d, e, f, g, h, k})
<1> DEFINE s == <<d, e, f, g, h, k>>
<1>1. s \in Seq(S) /\ Len(s) = 6
  OBVIOUS
<1>2. s[1] = d /\ s[2] = e /\ s[3] = f /\ s[4] = g /\ s[5] = h /\ s[6] = k
  OBVIOUS
<1>3. 1 .. 6 = {1, 2, 3, 4, 5, 6}
  OBVIOUS
<1> HIDE DEF s
<1>4. {s[i] : i \in {1, 2, 3, 4, 5, 6}} = {s[1], s[2], s[3], s[4], s[5], s[6]}
  BY Zenon
<1> QED BY <1>1, <1>2, <1>3, <1>4 DEF s, IsListed

LEMMA NumbersListed ==
  ASSUME NEW size, NEW c, size[c] \in 1 .. Widest, NEW s, NEW N, IsListed(s, Name, N)
  PROVE  IsLayout(Numbers(s, size, c), N, {})
BY LayoutNumbers DEF IsListed

\* More numbers behind a group of fields.
LEMMA LayoutExtended ==
  ASSUME NEW l, NEW N, NEW P, IsLayout(l, N, P),
         NEW size, NEW c, size[c] \in 1 .. Widest, NEW s, NEW M, IsListed(s, Name, M)
  PROVE  IsLayout(l \o Numbers(s, size, c), N \cup M, P)
<1>1. IsLayout(Numbers(s, size, c), M, {})
  BY NumbersListed
<1>2. IsLayout(l \o Numbers(s, size, c), N \cup M, P \cup {})
  BY <1>1, LayoutJoined
<1>3. P \cup {} = P
  BY Zenon
<1> QED BY <1>2, <1>3

\* More bytes behind a group of fields.
LEMMA LayoutExtendedPlain ==
  ASSUME NEW l, NEW N, NEW P, IsLayout(l, N, P), NEW f \in Name, NEW n \in 1 .. Widest
  PROVE  IsLayout(l \o <<Plain(f, n)>>, N, P \cup {Plain(f, n)})
<1>1. IsLayout(<<Plain(f, n)>>, {}, {Plain(f, n)})
  BY LayoutPlain
<1>2. IsLayout(l \o <<Plain(f, n)>>, N \cup {}, P \cup {Plain(f, n)})
  BY <1>1, LayoutJoined
<1>3. N \cup {} = N
  BY Zenon
<1> QED BY <1>2, <1>3

\* The sizes of the basic types.
LEMMA BasicSizes ==
  ASSUME NEW c \in Class
  PROVE  /\ Half[c] \in 1 .. Widest /\ Word[c] \in 1 .. Widest /\ Addr[c] \in 1 .. Widest
         /\ Ident[c] \in 1 .. Widest /\ Word32_Xword64[c] \in 1 .. Widest
<1>1. (32 \div 8) = 4 /\ (64 \div 8) = 8
  BY SMT
<1> QED BY <1>1 DEF Half, Word, Addr, Ident, Word32_Xword64, Class, Widest


\* The names and sizes of the members that are no numbers.
LEMMA PlainNames ==
  /\ "ei_magic" \in Name /\ "ei_pad" \in Name /\ "info" \in Name /\ "other" \in Name
  /\ 1 \in 1 .. Widest /\ 4 \in 1 .. Widest /\ 7 \in 1 .. Widest
<1>1. "ei_magic" \in Name /\ "ei_pad" \in Name /\ "info" \in Name /\ "other" \in Name
  BY Zenon DEF Name
<1>2. 1 \in 1 .. Widest /\ 4 \in 1 .. Widest /\ 7 \in 1 .. Widest
  BY DEF Widest
<1> QED BY <1>1, <1>2

\* The file header.
EhdrNumbers ==
  {"ei_class", "ei_data", "ei_version", "ei_osabi", "ei_abiversion", "type",
   "machine", "version", "entry", "phoff", "shoff", "flags", "ehsize",
   "phentsize", "phnum", "shentsize", "shnum", "shstrndx"}
EhdrPlains == {Plain("ei_magic", 4), Plain("ei_pad", 7)}

LEMMA EhdrLayout ==
  ASSUME NEW c \in Class
  PROVE  IsLayout(Ehdr(c), EhdrNumbers, EhdrPlains)
<1> DEFINE s2 == <<"ei_class", "ei_data", "ei_version", "ei_osabi", "ei_abiversion">>
           s4 == <<"type", "machine">>
           s5 == <<"version">>
           s6 == <<"entry", "phoff", "shoff">>
           s7 == <<"flags">>
           s8 == <<"ehsize", "phentsize", "phnum", "shentsize", "shnum", "shstrndx">>
           N2 == {"ei_class", "ei_data", "ei_version", "ei_osabi", "ei_abiversion"}
           N4 == {"type", "machine"}
           N5 == {"version"}
           N6 == {"entry", "phoff", "shoff"}
           N7 == {"flags"}
           N8 == {"ehsize", "phentsize", "phnum", "shentsize", "shnum", "shstrndx"}
<1>1. IsListed(s2, Name, N2)
  <2>1. "ei_class" \in Name /\ "ei_data" \in Name /\ "ei_version" \in Name /\ "ei_osabi" \in Name /\ "ei_abiversion" \in Name
    BY Zenon DEF Name
  <2> QED BY <2>1, Listed5, Zenon
<1>2. IsListed(s4, Name, N4)
  <2>1. "type" \in Name /\ "machine" \in Name
    BY Zenon DEF Name
  <2> QED BY <2>1, Listed2, Zenon
<1>3. IsListed(s5, Name, N5)
  <2>1. "version" \in Name
    BY Zenon DEF Name
  <2> QED BY <2>1, Listed1, Zenon
<1>4. IsListed(s6, Name, N6)
  <2>1. "entry" \in Name /\ "phoff" \in Name /\ "shoff" \in Name
    BY Zenon DEF Name
  <2> QED BY <2>1, Listed3, Zenon
<1>5. IsListed(s7, Name, N7)
  <2>1. "flags" \in Name
    BY Zenon DEF Name
  <2> QED BY <2>1, Listed1, Zenon
<1>6. IsListed(s8, Name, N8)
  <2>1. "ehsize" \in Name /\ "phentsize" \in Name /\ "phnum" \in Name /\ "shentsize" \in Name /\ "shnum" \in Name /\ "shstrndx" \in Name
    BY Zenon DEF Name
  <2> QED BY <2>1, Listed6, Zenon
<1> HIDE DEF s2, N2, s4, N4, s5, N5, s6, N6, s7, N7, s8, N8
<1>7. Addr[c] \in 1 .. Widest /\ Half[c] \in 1 .. Widest /\ Ident[c] \in 1 .. Widest /\ Word[c] \in 1 .. Widest
  BY BasicSizes
<1> DEFINE l1 == <<Plain("ei_magic", 4)>>
<1>8. IsLayout(l1, {}, {Plain("ei_magic", 4)})
  BY PlainNames, LayoutPlain
<1> HIDE DEF l1
<1> DEFINE l2 == l1 \o Numbers(s2, Ident, c)
<1>9. IsLayout(l2, {} \cup N2, {Plain("ei_magic", 4)})
  BY <1>7, <1>8, <1>1, LayoutExtended
<1> HIDE DEF l2
<1> DEFINE l3 == l2 \o <<Plain("ei_pad", 7)>>
<1>10. IsLayout(l3, {} \cup N2, {Plain("ei_magic", 4)} \cup {Plain("ei_pad", 7)})
  BY <1>9, PlainNames, LayoutExtendedPlain
<1> HIDE DEF l3
<1> DEFINE l4 == l3 \o Numbers(s4, Half, c)
<1>11. IsLayout(l4, {} \cup N2 \cup N4, {Plain("ei_magic", 4)} \cup {Plain("ei_pad", 7)})
  BY <1>7, <1>10, <1>2, LayoutExtended
<1> HIDE DEF l4
<1> DEFINE l5 == l4 \o Numbers(s5, Word, c)
<1>12. IsLayout(l5, {} \cup N2 \cup N4 \cup N5, {Plain("ei_magic", 4)} \cup {Plain("ei_pad", 7)})
  BY <1>7, <1>11, <1>3, LayoutExtended
<1> HIDE DEF l5
<1> DEFINE l6 == l5 \o Numbers(s6, Addr, c)
<1>13. IsLayout(l6, {} \cup N2 \cup N4 \cup N5 \cup N6, {Plain("ei_magic", 4)} \cup {Plain("ei_pad", 7)})
  BY <1>7, <1>12, <1>4, LayoutExtended
<1> HIDE DEF l6
<1> DEFINE l7 == l6 \o Numbers(s7, Word, c)
<1>14. IsLayout(l7, {} \cup N2 \cup N4 \cup N5 \cup N6 \cup N7, {Plain("ei_magic", 4)} \cup {Plain("ei_pad", 7)})
  BY <1>7, <1>13, <1>5, LayoutExtended
<1> HIDE DEF l7
<1> DEFINE l8 == l7 \o Numbers(s8, Half, c)
<1>15. IsLayout(l8, {} \cup N2 \cup N4 \cup N5 \cup N6 \cup N7 \cup N8, {Plain("ei_magic", 4)} \cup {Plain("ei_pad", 7)})
  BY <1>7, <1>14, <1>6, LayoutExtended
<1> HIDE DEF l8
<1>16. Ehdr(c) = l8
  BY DEF Ehdr, l1, l2, l3, l4, l5, l6, l7, l8, s2, s4, s5, s6, s7, s8
<1>17. {} \cup N2 \cup N4 \cup N5 \cup N6 \cup N7 \cup N8 = EhdrNumbers
  BY Zenon DEF N2, N4, N5, N6, N7, N8, EhdrNumbers
<1>18. {Plain("ei_magic", 4)} \cup {Plain("ei_pad", 7)} = EhdrPlains
  BY Zenon DEF EhdrPlains
<1> QED BY <1>15, <1>16, <1>17, <1>18

\* A section header.
ShdrNumbers ==
  {"name", "type", "flags", "addr", "offset", "size", "link", "info",
   "addralign", "entsize"}
ShdrPlains == {}

LEMMA ShdrLayout ==
  ASSUME NEW c \in Class
  PROVE  IsLayout(Shdr(c), ShdrNumbers, ShdrPlains)
<1> DEFINE s1 == <<"name", "type">>
           s2 == <<"flags", "addr", "offset", "size">>
           s3 == <<"link", "info">>
           s4 == <<"addralign", "entsize">>
           N1 == {"name", "type"}
           N2 == {"flags", "addr", "offset", "size"}
           N3 == {"link", "info"}
           N4 == {"addralign", "entsize"}
<1>1. IsListed(s1, Name, N1)
  <2>1. "name" \in Name /\ "type" \in Name
    BY Zenon DEF Name
  <2> QED BY <2>1, Listed2, Zenon
<1>2. IsListed(s2, Name, N2)
  <2>1. "flags" \in Name /\ "addr" \in Name /\ "offset" \in Name /\ "size" \in Name
    BY Zenon DEF Name
  <2> QED BY <2>1, Listed4, Zenon
<1>3. IsListed(s3, Name, N3)
  <2>1. "link" \in Name /\ "info" \in Name
    BY Zenon DEF Name
  <2> QED BY <2>1, Listed2, Zenon
<1>4. IsListed(s4, Name, N4)
  <2>1. "addralign" \in Name /\ "entsize" \in Name
    BY Zenon DEF Name
  <2> QED BY <2>1, Listed2, Zenon
<1> HIDE DEF s1, N1, s2, N2, s3, N3, s4, N4
<1>5. Addr[c] \in 1 .. Widest /\ Word[c] \in 1 .. Widest /\ Word32_Xword64[c] \in 1 .. Widest
  BY BasicSizes
<1> DEFINE l1 == Numbers(s1, Word, c)
<1>6. IsLayout(l1, N1, {})
  BY <1>5, <1>1, NumbersListed
<1> HIDE DEF l1
<1> DEFINE l2 == l1 \o Numbers(s2, Addr, c)
<1>7. IsLayout(l2, N1 \cup N2, {})
  BY <1>5, <1>6, <1>2, LayoutExtended
<1> HIDE DEF l2
<1> DEFINE l3 == l2 \o Numbers(s3, Word, c)
<1>8. IsLayout(l3, N1 \cup N2 \cup N3, {})
  BY <1>5, <1>7, <1>3, LayoutExtended
<1> HIDE DEF l3
<1> DEFINE l4 == l3 \o Numbers(s4, Word32_Xword64, c)
<1>9. IsLayout(l4, N1 \cup N2 \cup N3 \cup N4, {})
  BY <1>5, <1>8, <1>4, LayoutExtended
<1> HIDE DEF l4
<1>10. Shdr(c) = l4
  BY DEF Shdr, l1, l2, l3, l4, s1, s2, s3, s4
<1>11. N1 \cup N2 \cup N3 \cup N4 = ShdrNumbers
  BY Zenon DEF N1, N2, N3, N4, ShdrNumbers
<1>12. {} = ShdrPlains
  BY Zenon DEF ShdrPlains
<1> QED BY <1>9, <1>10, <1>11, <1>12

\* A program header.
PhdrNumbers ==
  {"type", "offset", "vaddr", "paddr", "filesz", "memsz", "flags", "align"}
PhdrPlains == {}

LEMMA Phdr32Layout ==
  IsLayout(Phdr(32), PhdrNumbers, PhdrPlains)
<1> DEFINE s1 == <<"type">>
           s2 == <<"offset", "vaddr", "paddr">>
           s3 == <<"filesz", "memsz", "flags", "align">>
           N1 == {"type"}
           N2 == {"offset", "vaddr", "paddr"}
           N3 == {"filesz", "memsz", "flags", "align"}
<1>1. IsListed(s1, Name, N1)
  <2>1. "type" \in Name
    BY Zenon DEF Name
  <2> QED BY <2>1, Listed1, Zenon
<1>2. IsListed(s2, Name, N2)
  <2>1. "offset" \in Name /\ "vaddr" \in Name /\ "paddr" \in Name
    BY Zenon DEF Name
  <2> QED BY <2>1, Listed3, Zenon
<1>3. IsListed(s3, Name, N3)
  <2>1. "filesz" \in Name /\ "memsz" \in Name /\ "flags" \in Name /\ "align" \in Name
    BY Zenon DEF Name
  <2> QED BY <2>1, Listed4, Zenon
<1> HIDE DEF s1, N1, s2, N2, s3, N3
<1>4. Addr[32] \in 1 .. Widest /\ Word[32] \in 1 .. Widest
  BY BasicSizes DEF Class
<1> DEFINE l1 == Numbers(s1, Word, 32)
<1>5. IsLayout(l1, N1, {})
  BY <1>4, <1>1, NumbersListed
<1> HIDE DEF l1
<1> DEFINE l2 == l1 \o Numbers(s2, Addr, 32)
<1>6. IsLayout(l2, N1 \cup N2, {})
  BY <1>4, <1>5, <1>2, LayoutExtended
<1> HIDE DEF l2
<1> DEFINE l3 == l2 \o Numbers(s3, Word, 32)
<1>7. IsLayout(l3, N1 \cup N2 \cup N3, {})
  BY <1>4, <1>6, <1>3, LayoutExtended
<1> HIDE DEF l3
<1>8. Phdr(32) = l3
  BY DEF Phdr, l1, l2, l3, s1, s2, s3
<1>9. N1 \cup N2 \cup N3 = PhdrNumbers
  BY Zenon DEF N1, N2, N3, PhdrNumbers
<1>10. {} = PhdrPlains
  BY Zenon DEF PhdrPlains
<1> QED BY <1>7, <1>8, <1>9, <1>10

\* A program header of the other class: the same numbers.
LEMMA Phdr64Layout ==
  IsLayout(Phdr(64), PhdrNumbers, PhdrPlains)
<1> DEFINE s1 == <<"type", "flags">>
           s2 == <<"offset", "vaddr", "paddr", "filesz", "memsz", "align">>
           N1 == {"type", "flags"}
           N2 == {"offset", "vaddr", "paddr", "filesz", "memsz", "align"}
<1>1. IsListed(s1, Name, N1)
  <2>1. "type" \in Name /\ "flags" \in Name
    BY Zenon DEF Name
  <2> QED BY <2>1, Listed2, Zenon
<1>2. IsListed(s2, Name, N2)
  <2>1. "offset" \in Name /\ "vaddr" \in Name /\ "paddr" \in Name /\ "filesz" \in Name /\ "memsz" \in Name /\ "align" \in Name
    BY Zenon DEF Name
  <2> QED BY <2>1, Listed6, Zenon
<1> HIDE DEF s1, N1, s2, N2
<1>3. Addr[64] \in 1 .. Widest /\ Word[64] \in 1 .. Widest
  BY BasicSizes DEF Class
<1> DEFINE l1 == Numbers(s1, Word, 64)
<1>4. IsLayout(l1, N1, {})
  BY <1>3, <1>1, NumbersListed
<1> HIDE DEF l1
<1> DEFINE l2 == l1 \o Numbers(s2, Addr, 64)
<1>5. IsLayout(l2, N1 \cup N2, {})
  BY <1>3, <1>4, <1>2, LayoutExtended
<1> HIDE DEF l2
<1>6. Phdr(64) = l2
  BY DEF Phdr, l1, l2, s1, s2
<1>7. N1 \cup N2 = PhdrNumbers
  BY Zenon DEF N1, N2, PhdrNumbers
<1>8. {} = PhdrPlains
  BY Zenon DEF PhdrPlains
<1> QED BY <1>5, <1>6, <1>7, <1>8

\* A symbol.
SymNumbers ==
  {"name", "value", "size", "shnxd"}
SymPlains == {Plain("info", 1), Plain("other", 1)}

LEMMA Sym32Layout ==
  IsLayout(Sym(32), SymNumbers, SymPlains)
<1> DEFINE s1 == <<"name">>
           s2 == <<"value">>
           s3 == <<"size">>
           s6 == <<"shnxd">>
           N1 == {"name"}
           N2 == {"value"}
           N3 == {"size"}
           N6 == {"shnxd"}
<1>1. IsListed(s1, Name, N1)
  <2>1. "name" \in Name
    BY Zenon DEF Name
  <2> QED BY <2>1, Listed1, Zenon
<1>2. IsListed(s2, Name, N2)
  <2>1. "value" \in Name
    BY Zenon DEF Name
  <2> QED BY <2>1, Listed1, Zenon
<1>3. IsListed(s3, Name, N3)
  <2>1. "size" \in Name
    BY Zenon DEF Name
  <2> QED BY <2>1, Listed1, Zenon
<1>4. IsListed(s6, Name, N6)
  <2>1. "shnxd" \in Name
    BY Zenon DEF Name
  <2> QED BY <2>1, Listed1, Zenon
<1> HIDE DEF s1, N1, s2, N2, s3, N3, s6, N6
<1>5. Addr[32] \in 1 .. Widest /\ Half[32] \in 1 .. Widest /\ Word[32] \in 1 .. Widest
  BY BasicSizes DEF Class
<1> DEFINE l1 == Numbers(s1, Word, 32)
<1>6. IsLayout(l1, N1, {})
  BY <1>5, <1>1, NumbersListed
<1> HIDE DEF l1
<1> DEFINE l2 == l1 \o Numbers(s2, Addr, 32)
<1>7. IsLayout(l2, N1 \cup N2, {})
  BY <1>5, <1>6, <1>2, LayoutExtended
<1> HIDE DEF l2
<1> DEFINE l3 == l2 \o Numbers(s3, Word, 32)
<1>8. IsLayout(l3, N1 \cup N2 \cup N3, {})
  BY <1>5, <1>7, <1>3, LayoutExtended
<1> HIDE DEF l3
<1> DEFINE l4 == l3 \o <<Plain("info", 1)>>
<1>9. IsLayout(l4, N1 \cup N2 \cup N3, {} \cup {Plain("info", 1)})
  BY <1>8, PlainNames, LayoutExtendedPlain
<1> HIDE DEF l4
<1> DEFINE l5 == l4 \o <<Plain("other", 1)>>
<1>10. IsLayout(l5, N1 \cup N2 \cup N3, {} \cup {Plain("info", 1)} \cup {Plain("other", 1)})
  BY <1>9, PlainNames, LayoutExtendedPlain
<1> HIDE DEF l5
<1> DEFINE l6 == l5 \o Numbers(s6, Half, 32)
<1>11. IsLayout(l6, N1 \cup N2 \cup N3 \cup N6, {} \cup {Plain("info", 1)} \cup {Plain("other", 1)})
  BY <1>5, <1>10, <1>4, LayoutExtended
<1> HIDE DEF l6
<1>12. Sym(32) = l6
  BY DEF Sym, l1, l2, l3, l4, l5, l6, s1, s2, s3, s6
<1>13. N1 \cup N2 \cup N3 \cup N6 = SymNumbers
  BY Zenon DEF N1, N2, N3, N6, SymNumbers
<1>14. {} \cup {Plain("info", 1)} \cup {Plain("other", 1)} = SymPlains
  BY Zenon DEF SymPlains
<1> QED BY <1>11, <1>12, <1>13, <1>14

\* A symbol of the other class: the same numbers and bytes.
LEMMA Sym64Layout ==
  IsLayout(Sym(64), SymNumbers, SymPlains)
<1> DEFINE s1 == <<"name">>
           s4 == <<"shnxd">>
           s5 == <<"value", "size">>
           N1 == {"name"}
           N4 == {"shnxd"}
           N5 == {"value", "size"}
<1>1. IsListed(s1, Name, N1)
  <2>1. "name" \in Name
    BY Zenon DEF Name
  <2> QED BY <2>1, Listed1, Zenon
<1>2. IsListed(s4, Name, N4)
  <2>1. "shnxd" \in Name
    BY Zenon DEF Name
  <2> QED BY <2>1, Listed1, Zenon
<1>3. IsListed(s5, Name, N5)
  <2>1. "value" \in Name /\ "size" \in Name
    BY Zenon DEF Name
  <2> QED BY <2>1, Listed2, Zenon
<1> HIDE DEF s1, N1, s4, N4, s5, N5
<1>4. Addr[64] \in 1 .. Widest /\ Half[64] \in 1 .. Widest /\ Word[64] \in 1 .. Widest
  BY BasicSizes DEF Class
<1> DEFINE l1 == Numbers(s1, Word, 64)
<1>5. IsLayout(l1, N1, {})
  BY <1>4, <1>1, NumbersListed
<1> HIDE DEF l1
<1> DEFINE l2 == l1 \o <<Plain("info", 1)>>
<1>6. IsLayout(l2, N1, {} \cup {Plain("info", 1)})
  BY <1>5, PlainNames, LayoutExtendedPlain
<1> HIDE DEF l2
<1> DEFINE l3 == l2 \o <<Plain("other", 1)>>
<1>7. IsLayout(l3, N1, {} \cup {Plain("info", 1)} \cup {Plain("other", 1)})
  BY <1>6, PlainNames, LayoutExtendedPlain
<1> HIDE DEF l3
<1> DEFINE l4 == l3 \o Numbers(s4, Half, 64)
<1>8. IsLayout(l4, N1 \cup N4, {} \cup {Plain("info", 1)} \cup {Plain("other", 1)})
  BY <1>4, <1>7, <1>2, LayoutExtended
<1> HIDE DEF l4
<1> DEFINE l5 == l4 \o Numbers(s5, Addr, 64)
<1>9. IsLayout(l5, N1 \cup N4 \cup N5, {} \cup {Plain("info", 1)} \cup {Plain("other", 1)})
  BY <1>4, <1>8, <1>3, LayoutExtended
<1> HIDE DEF l5
<1>10. Sym(64) = l5
  BY DEF Sym, l1, l2, l3, l4, l5, s1, s4, s5
<1>11. N1 \cup N4 \cup N5 = SymNumbers
  BY Zenon DEF N1, N4, N5, SymNumbers
<1>12. {} \cup {Plain("info", 1)} \cup {Plain("other", 1)} = SymPlains
  BY Zenon DEF SymPlains
<1> QED BY <1>9, <1>10, <1>11, <1>12

\* The structures of both classes have the same numbers and bytes.
LEMMA SameFields ==
  ASSUME NEW k \in Kind, NEW c \in Class
  PROVE  \E N, P : /\ IsLayout(Layout(k, c), N, P) /\ IsLayout(Layout(k, 64), N, P)
                   /\ IsTidy(N, P) /\ (k = "Shdr" => P = {})
<1>1. 64 \in Class /\ (c = 32 \/ c = 64)
  BY DEF Class
<1>2. CASE k = "Ehdr"
  <2>1. Layout(k, c) = Ehdr(c) /\ Layout(k, 64) = Ehdr(64)
    BY <1>2, Zenon DEF Layout
  <2>2. IsTidy(EhdrNumbers, EhdrPlains)
    BY DEF IsTidy, EhdrNumbers, EhdrPlains, Plain
  <2>3. IsLayout(Ehdr(c), EhdrNumbers, EhdrPlains) /\ IsLayout(Ehdr(64), EhdrNumbers, EhdrPlains)
    BY <1>1, EhdrLayout
  <2>4. k # "Shdr"
    BY <1>2
  <2> QED BY <2>1, <2>2, <2>3, <2>4, Zenon
<1>3. CASE k = "Shdr"
  <2>1. Layout(k, c) = Shdr(c) /\ Layout(k, 64) = Shdr(64)
    BY <1>3, Zenon DEF Layout
  <2>2. IsTidy(ShdrNumbers, ShdrPlains) /\ ShdrPlains = {}
    BY DEF IsTidy, ShdrPlains
  <2>3. IsLayout(Shdr(c), ShdrNumbers, ShdrPlains) /\ IsLayout(Shdr(64), ShdrNumbers, ShdrPlains)
    BY <1>1, ShdrLayout
  <2> QED BY <2>1, <2>2, <2>3, Zenon
<1>4. CASE k = "Phdr"
  <2>1. Layout(k, c) = Phdr(c) /\ Layout(k, 64) = Phdr(64)
    BY <1>4, Zenon DEF Layout
  <2>2. IsTidy(PhdrNumbers, PhdrPlains)
    BY DEF IsTidy, PhdrPlains
  <2>3. IsLayout(Phdr(c), PhdrNumbers, PhdrPlains) /\ IsLayout(Phdr(64), PhdrNumbers, PhdrPlains)
    BY <1>1, Phdr32Layout, Phdr64Layout
  <2>4. k # "Shdr"
    BY <1>4
  <2> QED BY <2>1, <2>2, <2>3, <2>4, Zenon
<1>5. CASE k = "Sym"
  <2>1. Layout(k, c) = Sym(c) /\ Layout(k, 64) = Sym(64)
    BY <1>5, Zenon DEF Layout
  <2>2. IsTidy(SymNumbers, SymPlains)
    BY DEF IsTidy, SymNumbers, SymPlains, Plain
  <2>3. IsLayout(Sym(c), SymNumbers, SymPlains) /\ IsLayout(Sym(64), SymNumbers, SymPlains)
    BY <1>1, Sym32Layout, Sym64Layout
  <2>4. k # "Shdr"
    BY <1>5
  <2> QED BY <2>1, <2>2, <2>3, <2>4, Zenon
<1> QED BY <1>2, <1>3, <1>4, <1>5 DEF Kind

\* Every member of the canonical form is found in the file's structure; one
\* that is no number has the same size there.
LEMMA FieldMatches ==
  ASSUME NEW k \in Kind, NEW c \in Class, NEW f \in FieldsOf(k),
         NEW l, l = Layout(k, c), NEW i, i = IndexOf(l, f)
  PROVE  /\ l \in Seq(Field) /\ i \in DOMAIN l /\ l[i][1] = f /\ l[i][2] = WidthOf(k, c, f)
         /\ ~l[i][3] => CanonicalWidth(k, f) = WidthOf(k, c, f)
<1>1. PICK N, P : /\ IsLayout(l, N, P) /\ IsLayout(Layout(k, 64), N, P)
                  /\ IsTidy(N, P) /\ (k = "Shdr" => P = {})
  BY SameFields, Zenon
<1> DEFINE m == Layout(k, 64)
           j == IndexOf(m, f)
<1>2. \E x \in DOMAIN m : m[x][1] = f
  BY DEF FieldsOf
<1>3. j \in DOMAIN m /\ m[j][1] = f
  BY <1>2, Zenon DEF IndexOf
<1>4. WidthOf(k, 64, f) = m[j][2]
  BY DEF WidthOf
<1>5. Agree(l, m) /\ Agree(m, l)
  BY <1>1, LayoutsAgree
<1>6. \E x \in DOMAIN l : l[x][1] = f
  <2> HIDE DEF m, j
  <2>1. \A x \in DOMAIN m : \E y \in DOMAIN l : l[y][1] = m[x][1]
    BY <1>5 DEF Agree
  <2>2. \E x \in DOMAIN l : l[x][1] = m[j][1]
    BY <2>1, <1>3
  <2> QED BY <2>2, <1>3
<1>7. i \in DOMAIN l /\ l[i][1] = f
  BY <1>6, Zenon DEF IndexOf
<1>8. WidthOf(k, c, f) = l[i][2]
  BY DEF WidthOf
<1>9. ASSUME ~l[i][3]
      PROVE  CanonicalWidth(k, f) = WidthOf(k, c, f)
  <2>1. l[i][2] = m[j][2]
    <3> HIDE DEF m, j
    <3>1. \A x \in DOMAIN l, y \in DOMAIN m : l[x][1] = m[y][1] /\ ~l[x][3] => l[x][2] = m[y][2]
      BY <1>5 DEF Agree
    <3> QED BY <3>1, <1>3, <1>7, <1>9
  <2>2. l[i] \in P
    BY <1>1, <1>7, <1>9 DEF IsLayout
  <2>3. k # "Shdr"
    BY <1>1, <2>2
  <2> QED BY <2>1, <2>3, <1>4, <1>8 DEF CanonicalWidth
<1>10. l \in Seq(Field)
  BY <1>1 DEF IsLayout
<1> QED BY <1>7, <1>8, <1>9, <1>10

\* As many bytes as there are, widened, are the bytes.
LEMMA WidenedSame ==
  ASSUME NEW v \in Seq(Byte), NEW n, n = Len(v)
  PROVE  Widened(v, n) = v
<1>1. Len(v) \in Nat /\ v = [i \in 1 .. Len(v) |-> v[i]]
  BY LenProperties
<1>2. Widened(v, n) = [i \in 1 .. n |-> IF i <= Len(v) THEN v[i] ELSE 0]
  BY DEF Widened
<1>3. \A i \in 1 .. n : i <= Len(v)
  BY <1>1
<1>4. Widened(v, n) = [i \in 1 .. n |-> v[i]]
  BY <1>2, <1>3
<1> QED BY <1>1, <1>4

\* A header written from its fields has them in its canonical form, whatever
\* its class, its order and the order of the host.
LEMMA WrittenIsDecoded ==
  ASSUME NEW k \in Kind, NEW c \in Class, NEW o \in Order, NEW host \in Order,
         NEW fields,
         \A f \in FieldsOf(k) : fields[f] \in Seq(Byte) /\ Len(fields[f]) = WidthOf(k, c, f),
         NEW f \in FieldsOf(k)
  PROVE  Canonical(Written(fields, k, c, o), k, c, o, host)[f] = Widened(fields[f], CanonicalWidth(k, f))
<1> DEFINE l == Layout(k, c)
           i == IndexOf(l, f)
           bs == Written(fields, k, c, o)
           raw == SubSeq(bs, OffsetOf(l, i) + 1, OffsetOf(l, i) + l[i][2])
           n == CanonicalWidth(k, f)
           v == fields[f]
           s == Stored(v, l[i][3], o)
<1>1. Canonical(bs, k, c, o, host)[f] = IF l[i][3] THEN Converted(InOrder(raw, host), n, o, host) ELSE raw
  BY DEF Canonical
<1>2. /\ l \in Seq(Field) /\ i \in DOMAIN l /\ l[i][1] = f /\ l[i][2] = WidthOf(k, c, f)
      /\ ~l[i][3] => CanonicalWidth(k, f) = WidthOf(k, c, f)
  BY FieldMatches
<1>3. v \in Seq(Byte) /\ Len(v) = WidthOf(k, c, f)
  OBVIOUS
<1>4. /\ swizzle(InOrder(InOrder(v, o), host), o, "native", host) = v
      /\ InOrder(v, o) \in Seq(Byte) /\ Len(InOrder(v, o)) = Len(v)
  BY <1>3, SwappedBack
<1>5. s \in Seq(Byte) /\ Len(s) = l[i][2]
  BY <1>2, <1>3, <1>4 DEF Stored
<1>6. raw = s
  <2>1. s = Stored(fields[l[i][1]], l[i][3], o)
    BY <1>2
  <2>2. Layout(k, c) \in Seq(Field) /\ i \in DOMAIN Layout(k, c) /\ Len(s) = Layout(k, c)[i][2]
    BY <1>2, <1>5
  <2>3. IsReadBack(bs, l, i, s)
    <3> HIDE DEF s, i
    <3> QED BY <1>5, <2>1, <2>2, FieldReadBack
  <2> HIDE DEF s, i, bs, l
  <2> QED BY <2>3 DEF IsReadBack
<1> HIDE DEF raw, bs, v, n, i, l
<1>7. CASE l[i][3]
  <2>1. raw = InOrder(v, o)
    BY <1>6, <1>7 DEF Stored
  <2>2. Converted(InOrder(raw, host), n, o, host) = Widened(v, n)
    BY <2>1, <1>4 DEF Converted
  <2> QED BY <1>1, <1>7, <2>2 DEF bs, v, n
<1>8. CASE ~l[i][3]
  <2>1. raw = v
    BY <1>6, <1>8 DEF Stored
  <2>2. n = Len(v)
    BY <1>2, <1>3, <1>8 DEF n
  <2>3. Widened(v, n) = v
    BY <1>3, <2>2, WidenedSame
  <2> QED BY <1>1, <1>8, <2>1, <2>3 DEF bs, v, n
<1> QED BY <1>7, <1>8

\* Only Load makes a header, and no step changes the file it came from.
LEMMA HeaderKept ==
  ASSUME Next \/ UNCHANGED vars
  PROVE  file' = file /\ (header' = header \/ Load)
<1>1. CASE Load
  BY <1>1 DEF Load
<1>2. CASE Open
  BY <1>2 DEF Open
<1>3. ASSUME NEW op, NEW n, Fixed(op, n)
      PROVE  file' = file /\ header' = header
  BY <1>3 DEF Fixed, Reads, Underflow
<1>4. CASE Uleb128
  BY <1>4 DEF Uleb128, Reads, Underflow
<1>5. CASE Address
  BY <1>3, <1>5 DEF Address
<1>6. CASE \E n \in 1 .. MaxStep : Advance(n)
  BY <1>6 DEF Advance
<1>7. CASE \E start, len \in 0 .. Len(bytes) : Slice(start, len)
  BY <1>7 DEF Slice
<1>8. CASE \E offset \in 0 .. MaxStep : Rewind(offset)
  BY <1>8 DEF Rewind
<1>9. CASE UNCHANGED vars
  BY <1>9 DEF vars
<1> QED BY <1>1, <1>2, <1>3, <1>4, <1>5, <1>6, <1>7, <1>8, <1>9 DEF Next

\* Whatever class and byte order the file and the host have, every field of
\* the canonical header holds the number the file was written with.
THEOREM HeadersAreDecoded == Spec => []HeaderDecoded
<1>1. Init => HeaderDecoded
  BY DEF Init, HeaderDecoded
<1>2. SInv /\ HeaderDecoded /\ [Next]_vars => HeaderDecoded'
  <2> SUFFICES ASSUME SInv, HeaderDecoded, [Next]_vars PROVE HeaderDecoded'
    OBVIOUS
  <2>1. file' = file /\ (header' = header \/ Load)
    BY HeaderKept
  <2>2. CASE header' = header
    BY <2>1, <2>2 DEF HeaderDecoded
  <2>3. CASE Load
    <3>1. header' = Canonical(Written(file.fields, file.kind, file.class, file.order),
                              file.kind, file.class, file.order, file.host)
      BY <2>3 DEF Load
    <3>2. file \in Files
      BY DEF SInv, TypeOK
    <3>3. /\ file.kind \in Kind /\ file.class \in Class /\ file.order \in Order /\ file.host \in Order
          /\ \A f \in FieldsOf(file.kind) :
               file.fields[f] \in Seq(Byte) /\ Len(file.fields[f]) = WidthOf(file.kind, file.class, f)
      BY <3>2, SectionsAssumption
    <3>4. \A f \in FieldsOf(file.kind) : header'[f] = Widened(file.fields[f], CanonicalWidth(file.kind, f))
      BY <3>1, <3>3, WrittenIsDecoded
    <3> QED BY <2>1, <3>4 DEF HeaderDecoded
  <2> QED BY <2>1, <2>2, <2>3
<1> QED
  BY <1>1, <1>2, CursorInvariance, PTL DEF Spec
=============================================================================
