---------------------------- MODULE ElfHeaders ------------------------------
(***************************************************************************)
(* The headers of an ELF file, of elf/data.hh, and their conversion to the *)
(* canonical form, the 64-bit one in the byte order of the host.           *)
(*                                                                         *)
(* A number is the sequence of its bytes, least significant first, whatever*)
(* the order they are stored in.  A byte is one of 0 .. Radix - 1.         *)
(***************************************************************************)
EXTENDS Integers, Sequences, FiniteSetsExt, SequencesExt

CONSTANT Radix

ASSUME RadixAssumption == Radix \in Nat \ {0, 1}

Byte  == 0 .. Radix - 1
Order == {"lsb", "msb"}
Class == {32, 64}
Kind  == {"Ehdr", "Shdr", "Phdr", "Sym"}

\* Sizes of the basic types.
Half    == [c \in Class |-> 2]
Word    == [c \in Class |-> 4]
Addr    == [c \in Class |-> c \div 8]
Ident   == [c \in Class |-> 1]
\* Word in ELF32 and Xword in ELF64.
Word32_Xword64 == Addr

\* A field: its name, its size, and whether it is a number or bytes.
Number(f, size, c) == <<f, size[c], TRUE>>
Plain(f, n)        == <<f, n, FALSE>>
Numbers(fs, size, c) == [i \in 1 .. Len(fs) |-> Number(fs[i], size, c)]

Ehdr(c) ==
  <<Plain("ei_magic", 4)>>
  \o Numbers(<<"ei_class", "ei_data", "ei_version", "ei_osabi", "ei_abiversion">>, Ident, c)
  \o <<Plain("ei_pad", 7)>>
  \o Numbers(<<"type", "machine">>, Half, c) \o Numbers(<<"version">>, Word, c)
  \o Numbers(<<"entry", "phoff", "shoff">>, Addr, c) \o Numbers(<<"flags">>, Word, c)
  \o Numbers(<<"ehsize", "phentsize", "phnum", "shentsize", "shnum", "shstrndx">>, Half, c)

Shdr(c) ==
  Numbers(<<"name", "type">>, Word, c)
  \o Numbers(<<"flags", "addr", "offset", "size">>, Addr, c)
  \o Numbers(<<"link", "info">>, Word, c)
  \o Numbers(<<"addralign", "entsize">>, Word32_Xword64, c)

\* The flags move between the classes.
Phdr(c) ==
  IF c = 32
  THEN Numbers(<<"type">>, Word, c) \o Numbers(<<"offset", "vaddr", "paddr">>, Addr, c)
       \o Numbers(<<"filesz", "memsz", "flags", "align">>, Word, c)
  ELSE Numbers(<<"type", "flags">>, Word, c)
       \o Numbers(<<"offset", "vaddr", "paddr", "filesz", "memsz", "align">>, Addr, c)

Sym(c) ==
  IF c = 32
  THEN Numbers(<<"name">>, Word, c) \o Numbers(<<"value">>, Addr, c) \o Numbers(<<"size">>, Word, c)
       \o <<Plain("info", 1), Plain("other", 1)>> \o Numbers(<<"shnxd">>, Half, c)
  ELSE Numbers(<<"name">>, Word, c) \o <<Plain("info", 1), Plain("other", 1)>>
       \o Numbers(<<"shnxd">>, Half, c) \o Numbers(<<"value", "size">>, Addr, c)

Layout(k, c) ==
  CASE k = "Ehdr" -> Ehdr(c) [] k = "Shdr" -> Shdr(c) [] k = "Phdr" -> Phdr(c) [] k = "Sym" -> Sym(c)

FieldsOf(k)     == {Layout(k, 64)[i][1] : i \in DOMAIN Layout(k, 64)}
IndexOf(l, f)   == CHOOSE i \in DOMAIN l : l[i][1] = f
WidthOf(k, c, f) == LET l == Layout(k, c) IN l[IndexOf(l, f)][2]

\* In the canonical form a section number is a half-word everywhere.
CanonicalWidth(k, f) == IF k = "Shdr" /\ f = "link" THEN 2 ELSE WidthOf(k, 64, f)

\* No field has more bytes.
Widest == 8

\* One pair for each byte of the fields before field i.
BytesBefore(l, i) == {p \in (1 .. i - 1) \X (1 .. Widest) : p[2] <= l[p[1]][2]}
OffsetOf(l, i)    == Cardinality(BytesBefore(l, i))

-----------------------------------------------------------------------------
(* Conversion.                                                             *)

\* The number that a host reads from, or writes as, these bytes.
InOrder(bs, o) == IF o = "lsb" THEN bs ELSE Reverse(bs)

\* resolve_order
Resolved(o, host) == IF o = "native" THEN host ELSE o

swizzle(v, from, to, host) == IF Resolved(from, host) = Resolved(to, host) THEN v ELSE Reverse(v)

\* The value of a number in n bytes.
Widened(v, n) == [i \in 1 .. n |-> IF i <= Len(v) THEN v[i] ELSE 0]

\* (Mutant.  The number is widened before its bytes are swapped.)
ConvertedWide(v, n, o, host) == swizzle(Widened(v, n), o, "native", host)

\* One field of from: the bytes are swapped in the size they have in the file.
Converted(v, n, o, host) == Widened(swizzle(v, o, "native", host), n)

\* The bytes of a header as it lies in a file of class c, cast to the
\* structure of that class and order, in the canonical form.
Canonical(bs, k, c, o, host) ==
  [f \in FieldsOf(k) |->
     LET l == Layout(k, c)
         i == IndexOf(l, f)
         raw == SubSeq(bs, OffsetOf(l, i) + 1, OffsetOf(l, i) + l[i][2])
     IN  IF l[i][3] THEN Converted(InOrder(raw, host), CanonicalWidth(k, f), o, host) ELSE raw]

\* The bytes an assembler writes for a header, field after field: each number
\* in the order of the file.
Stored(v, number, o) == IF number THEN InOrder(v, o) ELSE v

FieldAt(l, p) == CHOOSE i \in DOMAIN l : OffsetOf(l, i) < p /\ p <= OffsetOf(l, i) + l[i][2]

Written(fields, k, c, o) ==
  LET l == Layout(k, c)
  IN  [p \in 1 .. OffsetOf(l, Len(l) + 1) |->
         LET i == FieldAt(l, p)
         IN  Stored(fields[l[i][1]], l[i][3], o)[p - OffsetOf(l, i)]]
=============================================================================
