------------------------------ MODULE Registers ------------------------------
(***************************************************************************)
(* The table of registers of registers.h.  A register is looked up in it   *)
(* by name or by DWARF number, and its row number is its place among the   *)
(* registers that ptrace reads and writes.                                 *)
(***************************************************************************)
EXTENDS Integers, Sequences

Reg(n, d) == [name |-> n, dwarf_reg_no |-> d]

registers == <<
  Reg("r15", 15), Reg("r14", 14), Reg("r13", 13), Reg("r12", 12), Reg("rbp", 6), Reg("rbx", 3),
  Reg("r11", 11), Reg("r10", 10), Reg("r9", 9), Reg("r8", 8), Reg("rax", 0), Reg("rcx", 2),
  Reg("rdx", 1), Reg("rsi", 4), Reg("rdi", 5), Reg("orig_rax", -1), Reg("rip", -1),
  Reg("cs", 51), Reg("eflags", 49), Reg("rsp", 7), Reg("ss", 52), Reg("fs_base", 58),
  Reg("gs_base", 59), Reg("ds", 53), Reg("es", 50), Reg("fs", 54), Reg("gs", 55) >>

\* user_regs_struct of sys/user.h, in the order of its members.
user_regs_struct == <<
  "r15", "r14", "r13", "r12", "rbp", "rbx", "r11", "r10", "r9", "r8", "rax", "rcx", "rdx",
  "rsi", "rdi", "orig_rax", "rip", "cs", "eflags", "rsp", "ss", "fs_base", "gs_base",
  "ds", "es", "fs", "gs" >>

\* The registers that the x86-64 ABI numbers for DWARF, but for the return address.
AbiNumbers == {
  <<"rax", 0>>, <<"rdx", 1>>, <<"rcx", 2>>, <<"rbx", 3>>, <<"rsi", 4>>, <<"rdi", 5>>,
  <<"rbp", 6>>, <<"rsp", 7>>, <<"r8", 8>>, <<"r9", 9>>, <<"r10", 10>>, <<"r11", 11>>,
  <<"r12", 12>>, <<"r13", 13>>, <<"r14", 14>>, <<"r15", 15>>, <<"eflags", 49>>, <<"es", 50>>,
  <<"cs", 51>>, <<"ss", 52>>, <<"ds", 53>>, <<"fs", 54>>, <<"gs", 55>>,
  <<"fs_base", 58>>, <<"gs_base", 59>> }

\* The number of each of them.
Abi == [r \in {p[1] : p \in AbiNumbers} |-> (CHOOSE p \in AbiNumbers : p[1] = r)[2]]

First(is(_)) == CHOOSE i \in DOMAIN registers : is(i) /\ \A j \in 1 .. i - 1 : ~is(j)

Named(name) == \E i \in DOMAIN registers : registers[i].name = name

\* get_register_type_from_name
RowOfName(name) == First(LAMBDA i : registers[i].name = name)

\* (Mutant.  rcx and rdx are numbered as in instructions.)
RowOfDwarfEncoded(n) == First(LAMBDA i : registers[i].dwarf_reg_no = IF n \in {1, 2} THEN 3 - n ELSE n)

RowOfDwarf(n) == First(LAMBDA i : registers[i].dwarf_reg_no = n)

\* get_register_value_from_type, get_register_value_from_dwarf_register
Value(regs, row)   == regs[row]
DwarfValue(regs, n) == Value(regs, RowOfDwarf(n))

\* (Mutant.  Rows count from 0, members of the structure from 1.)
SetValueBelow(regs, row, v) == [regs EXCEPT ![IF row = 1 THEN 1 ELSE row - 1] = v]

\* set_register_value
SetValue(regs, row, v) == [regs EXCEPT ![row] = v]
=============================================================================
