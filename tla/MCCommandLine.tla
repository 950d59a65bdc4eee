--------------------------- MODULE MCCommandLine ---------------------------
(***************************************************************************)
(* Lines for TLC: every abbreviation of every command, with the arguments  *)
(* of README.md, with too few of them, and with malformed ones.            *)
(***************************************************************************)
EXTENDS CommandLine

\* The words ws with the first one cut short, and with the last one left out.
Abbreviated(ws) == {<<SubSeq(ws[1], 1, n)>> \o Tail(ws) : n \in 0 .. Len(ws[1])}
Shortened(ws)   == {SubSeq(ws, 1, n) : n \in 1 .. Len(ws)}

Malformed == {
  <<"b", "0x">>, <<"b", "0">>, <<"b", ":3">>, <<"b", "t.c:">>, <<"b", "t.c:x">>, <<"b", "">>,
  <<"register", "">>, <<"register", "x">>, <<"r", "read", "rxx">>, <<"r", "w", "rip", "9">>,
  <<"r", "w", "rip", "0xg">>, <<"r", "w", "rxx", "9">>, <<"r", "w", "rxx", "0xg">>,
  <<"r", "w", "rbp", "0x7f">>, <<"m", "", "0x10">>, <<"m", "x", "0x10">>, <<"m", "r", "9">>, <<"m", "r", "0xg">>,
  <<"m", "w", "0x10", "0x">>, <<"", "x">>, <<"symbol", "errno">>, <<"symbol", "nosuch">>, <<"x">>, <<"step", "", "">>}

\* A table of symbols with a name twice, the table for the dynamic linker, and
\* a section of another type; "tls" has no case in the mapping.
Symbol(n, t) == [name |-> n, type |-> t]
MCTables == <<
  [type |-> "progbits", entries |-> <<>>],
  [type |-> "symtab", entries |-> <<Symbol("main", "func"), Symbol("main", "object"), Symbol("errno", "tls")>>],
  [type |-> "dynsym", entries |-> <<Symbol("main", "func")>>] >>

\* Functions with all registers that have a number, with variables of each kind,
\* with parameters and blocks between them, and with lists of places.
Below(t, form, place) == [tag |-> t, form |-> form, place |-> place]
Var(place) == Below("variable", "exprloc", place)
InAll ==
  LET numbered == SelectSeq(user_regs_struct, LAMBDA r : r \in DOMAIN Abi)
  IN  [i \in DOMAIN numbered |-> Var(InRegister(numbered[i]))]

MCFunctions == {
  InAll,
  <<Var(InRegister("rdx")), Var(InFrame("rbp", "-8")), Var(InRegister("r15")), Var(InFrame("rsp", "16"))>>,
  <<Var(Static("0x4010")), Below("variable", "loclist", Local("-20")), Var(Behind("rbp", "-24"))>>,
  <<Below("formal_parameter", "exprloc", Local("-36")), Var(InFrame("rbp", "-8")),
    Below("lexical_block", "none", Local("0"))>>,
  <<Var(InFrame("rbp", "-8")), Var(Literal("42"))>>,
  <<Var(InRegister("rax")), Below("variable", "none", Local("0"))>>,
  <<Var(Local("-20"))>>,
  <<Var(ThreadLocal("8"))>>,
  <<>> }

MCLines == {Rejoined(ws) : ws \in Malformed
              \cup UNION {Abbreviated(e.words) \cup Shortened(e.words) : e \in Manual}}
=============================================================================
