----------------------------- MODULE Sections -------------------------------
(***************************************************************************)
(* From a file to the numbers in a section: its header is converted, a     *)
(* section is the bytes it names, and cursors read from the section or     *)
(* from slices of it (struct section and struct cursor of                  *)
(* dwarf/internal.hh).  Which header and which operations follow is up to  *)
(* the library, whose sources are not in the repository.                   *)
(*                                                                         *)
(* The size of a byte and of a word are parameters: they are 8 bits and 8  *)
(* bytes in the program.  Positions count bytes of the file's data.        *)
(***************************************************************************)
EXTENDS ElfHeaders

CONSTANTS
  ByteBits,    \* bits of a byte
  WordBytes,   \* bytes of the largest integer
  Sizes,       \* sizes of the integers of the machine
  AddrSizes,   \* sizes of addresses a unit may ask for
  Files,       \* the files: class, order, host, a header with its fields, the bytes after it
  MaxStep      \* bound (for TLC) on the distance a cursor is moved

VARIABLES
  file,        \* a member of Files
  header,      \* canonical form of the header, or NoHeader
  outer,       \* the section, from its first byte up to its end
  sec,         \* the section or slice the cursor reads from
  pos,         \* where the cursor is
  last         \* history variable: what the last operation did

bytes == file.data    \* memory from the start of the file

vars == <<file, header, outer, sec, pos, last>>

ASSUME SectionsAssumption ==
  /\ {ByteBits, WordBytes} \subseteq Nat \ {0}
  /\ Radix = 2 ^ ByteBits
  /\ Sizes \subseteq 1 .. WordBytes
  /\ AddrSizes \subseteq Nat
  /\ MaxStep \in Nat
  /\ \A f \in Files : f.data \in Seq(Byte)
  /\ \A f \in Files : f.kind \in Kind /\ f.class \in Class /\ {f.order, f.host} \subseteq Order
  /\ \A f \in Files : \A g \in FieldsOf(f.kind) :
       f.fields[g] \in Seq(Byte) /\ Len(f.fields[g]) = WidthOf(f.kind, f.class, g)

DigitBits == ByteBits - 1
WordBits  == ByteBits * WordBytes

NoHeader  == <<>>
NoSection == [begin |-> 0, end |-> 0]
Nothing   == [op |-> "none", from |-> 0, to |-> 0, value |-> 0]

\* The number with these bytes.
ValueOf(v) == MapThenSumSet(LAMBDA i : v[i] * Radix ^ (i - 1), DOMAIN v)

Init ==
  /\ file \in Files
  /\ header = NoHeader
  /\ outer = NoSection /\ sec = NoSection
  /\ pos = 0
  /\ last = Nothing

Load ==
  /\ header = NoHeader
  /\ header' = Canonical(Written(file.fields, file.kind, file.class, file.order),
                         file.kind, file.class, file.order, file.host)
  /\ UNCHANGED <<file, outer, sec, pos, last>>

\* elf::section and the dwarf loader: the bytes the header names.
Open ==
  /\ header # NoHeader /\ file.kind = "Shdr" /\ outer = NoSection
  /\ \E begin, end \in 0 .. Len(bytes) :
       /\ begin < end
       /\ begin = ValueOf(header["offset"]) /\ end - begin = ValueOf(header["size"])
       /\ outer' = [begin |-> begin, end |-> end]
       /\ sec' = outer' /\ pos' = begin
  /\ UNCHANGED <<file, header, last>>

-----------------------------------------------------------------------------
(* Cursors.                                                                *)

Reading == outer # NoSection

\* The cursor reads up to "to" and yields a value.
Reads(op, to, v) ==
  /\ last' = [op |-> op, from |-> pos, to |-> to, value |-> v]
  /\ pos' = to
  /\ UNCHANGED <<file, header, outer, sec>>

\* underflow() throws, with the cursor at p.
Underflow(p) ==
  /\ last' = [op |-> "underflow", from |-> p, to |-> p, value |-> 0]
  /\ pos' = p
  /\ UNCHANGED <<file, header, outer, sec>>

\* (Mutant.  One byte is enough.)
EnsuredOne(n) == pos < sec.end

\* ensure(n).  Behind the end the difference is a large number.
Ensured(n) == (pos > sec.end \/ sec.end - pos >= n) /\ pos < sec.end

\* fixed<T>(): the bytes are shifted in one by one.
FixedValue(p, n) ==
  IF file.order = "lsb"
  THEN MapThenSumSet(LAMBDA i : bytes[p + i + 1] * Radix ^ i, 0 .. n - 1)
  ELSE FoldLeft(LAMBDA v, b : v * Radix + b, 0, SubSeq(bytes, p + 1, p + n))

Fixed(op, n) ==
  /\ Reading
  /\ IF Ensured(n) THEN Reads(op, pos + n, FixedValue(pos, n)) ELSE Underflow(pos)

\* The last byte of a number in base 128: the first with a clear top bit.
Ends(p)    == {i \in p .. sec.end - 1 : bytes[i + 1] < 2 ^ DigitBits}

\* (Mutant.  The top bit is not masked.)
DigitUnmasked(i) == bytes[i + 1]
Digit(i)   == bytes[i + 1] % (2 ^ DigitBits)

Uleb128Value(p, to) ==
  MapThenSumSet(LAMBDA i : Digit(i) * 2 ^ (DigitBits * (i - p)), p .. to - 1) % (2 ^ WordBits)

\* A digit beyond the word is shifted by its size or more: undefined.
Shiftable(p, to) == DigitBits * (to - 1 - p) < WordBits

Uleb128 ==
  /\ Reading
  /\ \/ pos >= sec.end /\ Underflow(pos)
     \/ /\ pos < sec.end /\ Ends(pos) = {}
        /\ IF Shiftable(pos, sec.end) THEN Underflow(sec.end) ELSE Reads("undefined", sec.end, 0)
     \/ \E i \in Ends(pos) :
          /\ \A j \in Ends(pos) : i <= j
          /\ IF Shiftable(pos, i + 1) THEN Reads("uleb128", i + 1, Uleb128Value(pos, i + 1))
             ELSE Reads("undefined", i + 1, 0)

\* address() of a section with this size of addresses; it throws for others.
Address == \E n \in AddrSizes \cap Sizes : Fixed("address", n)

\* operator+=: the distance is not checked.
Advance(n) ==
  /\ Reading
  /\ pos + n <= Len(bytes) + MaxStep
  /\ pos' = pos + n
  /\ UNCHANGED <<file, header, outer, sec, last>>

Least(m, n) == IF m <= n THEN m ELSE n

\* (Mutant.  The length is taken as it comes.)
SliceOfAny(s, start, len) == [begin |-> s.begin + start, end |-> s.begin + start + len]

\* slice takes at most as many bytes as the section has, from wherever it
\* starts.
SliceOf(s, start, len) ==
  [begin |-> s.begin + start, end |-> s.begin + start + Least(len, s.end - s.begin)]

\* A slice and a cursor on it, as far as the memory of the model goes.
Slice(start, len) ==
  /\ Reading
  /\ sec' = SliceOf(sec, start, len)
  /\ sec'.end <= Len(bytes)
  /\ pos' = sec'.begin
  /\ last' = Nothing
  /\ UNCHANGED <<file, header, outer>>

\* A new cursor on the section.
Rewind(offset) ==
  /\ Reading
  /\ sec' = outer /\ pos' = outer.begin + offset
  /\ last' = Nothing
  /\ UNCHANGED <<file, header, outer>>

Next ==
  \/ Load \/ Open
  \/ \E n \in Sizes : Fixed("fixed", n)
  \/ Uleb128 \/ Address
  \/ \E n \in 1 .. MaxStep : Advance(n)
  \/ \E start, len \in 0 .. Len(bytes) : Slice(start, len)
  \/ \E offset \in 0 .. MaxStep : Rewind(offset)

Spec == Init /\ [][Next]_vars

-----------------------------------------------------------------------------
(* Properties.                                                             *)

\* Type correctness of the cursor.
TypeOK ==
  /\ file \in Files
  /\ {outer, sec} \subseteq [begin : Nat, end : Nat]
  /\ pos \in Nat
  /\ {last.from, last.to} \subseteq Nat

\* Whatever class and byte order the file and the host have, the canonical
\* header holds the numbers the file was written with, in the same fields.
HeaderDecoded ==
  header # NoHeader =>
    \A f \in FieldsOf(file.kind) : header[f] = Widened(file.fields[f], CanonicalWidth(file.kind, f))

\* A cursor reads nothing outside the section or slice it was put on, also
\* when it was moved behind the end first.
ReadsInside ==
  last.op \in {"fixed", "address", "uleb128", "undefined"} =>
    last.from < last.to /\ sec.begin <= last.from /\ last.to <= sec.end

\* A slice of slices has no more bytes than the section: what slice() checks.
SlicesBounded == sec.end - sec.begin <= outer.end - outer.begin

\* slice() bounds a length without regard to the start, so that a slice may reach
\* behind its section, and a cursor reads there.  But however many slices are taken
\* of one another, and whatever is asked for, no read is further behind the section
\* than the slice begins in it: one that begins where the section does is safe.
ReadsNearSection ==
  last.op \in {"fixed", "address", "uleb128", "undefined"} =>
    outer.begin <= last.from /\ last.to - outer.end <= sec.begin - outer.begin

\* A number is what an encoder would have written there: in the order of the
\* file for a fixed size, in base 128 otherwise.
Encoded(v, n)  == [i \in 1 .. n |-> (v \div Radix ^ (i - 1)) % Radix]
Groups(v, n)   == [i \in 1 .. n |-> (v \div 2 ^ (DigitBits * (i - 1))) % (2 ^ DigitBits)]
Decodes ==
  LET read == SubSeq(bytes, last.from + 1, last.to)
      n    == Len(read)
  IN  /\ last.op \in {"fixed", "address"} => read = InOrder(Encoded(last.value, n), file.order)
      /\ last.op = "uleb128" /\ DigitBits * n <= WordBits =>
           read = [i \in 1 .. n |-> Groups(last.value, n)[i] + (IF i < n THEN 2 ^ DigitBits ELSE 0)]
=============================================================================
