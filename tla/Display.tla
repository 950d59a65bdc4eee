------------------------------ MODULE Display ------------------------------
(***************************************************************************)
(* What the debugger finds out and prints without changing anything: the   *)
(* source around a line, the symbols of a name, and the variables of a     *)
(* function, whose places libelfin computes from location expressions.     *)
(*                                                                         *)
(* Addresses and contents of memory are terms: sequences of strings in     *)
(* postfix notation.  <<v, "-8", "contents">> is what memory has 8 below   *)
(* the address v; "load" adds the load address.                            *)
(***************************************************************************)
EXTENDS Registers, SequencesExt

CONSTANTS
  SourceLength,   \* lines of the source file
  Tables,         \* sections of the program: [type, entries], and in those of
                  \* type "symtab" or "dynsym" entries [name, type]
  Functions       \* for each function the entries directly below its own, in
                  \* order: [tag, form, place], where form is that of the entry's
                  \* DW_AT_location ("none": it has no such attribute) and place
                  \* has the location expression, if there is one

ASSUME DisplayAssumption == SourceLength \in Nat

-----------------------------------------------------------------------------
(* print_source.                                                           *)

\* (Mutant.  The window starts too late at the beginning of the file.)
FirstShownLate(line, context_size) == IF line > context_size THEN line - context_size ELSE context_size
FirstShown(line, context_size)     == IF line > context_size THEN line - context_size ELSE 1
LastShown(line, context_size) ==
  line + context_size + (IF context_size > line THEN context_size - line ELSE 0) + 1

\* A mark is printed in front of the first line and behind each newline: there
\* "<<" binds more tightly than "?:", so that it is a truth value.
Mark(current, start, line) ==
  CASE current = start -> IF current = line THEN "> " ELSE " "
    [] OTHER           -> IF current = line THEN "1" ELSE "0"

\* The lines printed, with 0 for what is behind the last newline.
print_source(line, context_size) ==
  LET start == FirstShown(line, context_size)
      end   == LastShown(line, context_size)
      last  == IF end < SourceLength THEN end ELSE SourceLength
  IN  [i \in 1 .. last - start + 2 |->
         LET n == start + i - 1 IN
           [mark |-> Mark(n, start, line), text |-> IF n > last THEN 0 ELSE n]]

\* What wait_for_signal and handle_bptrap print of a stop at a line: the source
\* around it if it is a breakpoint's, nothing if it is that of a single step, and
\* otherwise a message.
StopCauses == {"breakpoint", "step", "unknown trap", "segmentation fault", "signal"}
StopShown(cause, line) == IF cause = "breakpoint" THEN print_source(line, 2) ELSE <<>>

-----------------------------------------------------------------------------
(* lookup_symbol.                                                          *)

symbol_type == {"notype", "section", "func", "file", "object"}

\* Types the switch statements have no case for (thread-local variables,
\* for instance) leave the functions without a result.
Mapped(type) == type \in symbol_type

lookup_symbol(name) ==
  LET Found(s) == IF s.type \in {"dynsym", "symtab"}
                  THEN SelectSeq(s.entries, LAMBDA e : e.name = name) ELSE <<>>
  IN  FlattenSeq([i \in DOMAIN Tables |-> Found(Tables[i])])

SymbolsMapped(name) == \A i \in DOMAIN lookup_symbol(name) : Mapped(lookup_symbol(name)[i].type)

-----------------------------------------------------------------------------
(* Location expressions.                                                   *)

Contents(address) == Append(address, "contents")
Loaded(address, relocated) == IF relocated THEN Append(address, "load") ELSE address

\* What evaluate has come to: the stack, and the kind of location.
Location(type, stack) == [type |-> type, stack |-> stack]
Top(stack) == stack[Len(stack)]
WithTop(stack, t) == [stack EXCEPT ![Len(stack)] = t]

\* ptrace_expr_context.  The methods it does not override throw.
ContextReg(regs, n) == <<DwarfValue(regs, n)>>
DerefSize(address, relocated) == Contents(Loaded(address, relocated))

\* One operation of an expression.  One the context has no method for, such as
\* the offset from the frame base ("fbreg"), throws.
Step(r, op, regs, relocated) ==
  CASE op.op = "addr"  -> Location("address", Append(r.stack, <<op.address>>))
    [] op.op = "breg"  -> Location("address", Append(r.stack, Append(ContextReg(regs, op.reg), op.offset)))
    [] op.op = "reg"   -> Location("reg", Append(r.stack, op.reg))
    [] op.op = "deref" -> Location("address", WithTop(r.stack, DerefSize(Top(r.stack), relocated)))
    [] op.op = "lit"   -> Location("address", Append(r.stack, <<op.value>>))
    [] op.op = "stack_value" -> Location("literal", r.stack)
    [] OTHER           -> Location("throws", r.stack)

evaluate(expr, regs, relocated) ==
  FoldLeft(LAMBDA r, op : IF r.type = "throws" THEN r ELSE Step(r, op, regs, relocated),
           Location("empty", <<>>), expr)

-----------------------------------------------------------------------------
(* read_variables.                                                         *)

ShownOf(r, regs) ==
  IF r.type = "address" THEN Contents(Top(r.stack)) ELSE ContextReg(regs, Top(r.stack))

Unhandled(r) == r.type \notin {"address", "reg"}

\* The entries that are variables, and those of them with an expression for
\* their place; lists of places are passed over.
Variables(f) == {i \in DOMAIN f : f[i].tag = "variable"}
Placed(f)    == {i \in Variables(f) : f[i].form = "exprloc"}

Locations(f, regs, relocated) ==
  [i \in Placed(f) |-> evaluate(f[i].place.location, regs, relocated)]
read_variables(f, regs, relocated) ==
  [i \in Placed(f) |-> ShownOf(Locations(f, regs, relocated)[i], regs)]
VariablesThrow(f, regs, relocated) ==
  \/ \E i \in Variables(f) : f[i].form = "none"
  \/ \E i \in Placed(f) : Unhandled(Locations(f, regs, relocated)[i])
=============================================================================
