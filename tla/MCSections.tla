----------------------------- MODULE MCSections -----------------------------
(***************************************************************************)
(* Files for TLC, of bytes of two bits: for each header one per field that *)
(* holds a number whose bytes differ, and section headers that name bytes  *)
(* 1 to 4 of the data.                                                     *)
(***************************************************************************)
EXTENDS Sections

Zeros(n)    == [i \in 1 .. n |-> 0]
Distinct(n) == [i \in 1 .. n |-> IF n = 1 THEN 2 ELSE 1 + (i % 3)]

Probing(k, c, f) ==
  [g \in FieldsOf(k) |-> IF g = f THEN Distinct(WidthOf(k, c, g)) ELSE Zeros(WidthOf(k, c, g))]

Small(n, width) == [Zeros(width) EXCEPT ![1] = n % Radix, ![2] = n \div Radix]
Naming(c, n) ==
  [g \in FieldsOf("Shdr") |->
     LET w == WidthOf("Shdr", c, g)
     IN  CASE g = "offset" -> Small(1, w) [] g = "size" -> Small(n, w) [] OTHER -> Zeros(w)]

File(k, c, o, h, fields, data) ==
  [kind |-> k, class |-> c, order |-> o, host |-> h, fields |-> fields, data |-> data]

\* Every three bytes, and a number of six digits, which do not fit a word.
MCData == {<<0, b[1], b[2], b[3], 1, 0>> : b \in [1 .. 3 -> Byte]}
MCLong == <<0, 2, 3, 3, 2, 3, 1, 0>>

MCFiles ==
  UNION {{File(k, c, o, h, Probing(k, c, f), <<>>) : f \in FieldsOf(k), c \in Class, o \in Order, h \in Order} :
           k \in Kind}
  \cup {File("Shdr", 64, o, "lsb", Naming(64, 3), d) : o \in Order, d \in MCData}
  \cup {File("Shdr", 32, o, "msb", Naming(32, 6), MCLong) : o \in Order}
=============================================================================
