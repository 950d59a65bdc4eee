---------------------------- MODULE CommandLine ----------------------------
(***************************************************************************)
(* The loop of debugger::run: a line is read from the terminal or a pipe,  *)
(* split at blanks and given to the handler of the first branch of         *)
(* runCommand whose name the first word is a prefix of.  Lines and words   *)
(* are strings, that is sequences of characters.                           *)
(***************************************************************************)
EXTENDS Terminal, Display

CONSTANT Lines   \* lines the user types

VARIABLES
  line,        \* the string run passes to Readline
  outcome,     \* what the last line came to
  regs,        \* registers of the process, as ptrace reads and writes them
  relocated,   \* is the program loaded elsewhere than it was linked for?
  printed      \* what the last line had printed (text), and about what (of),
               \* until the next one is read

vars == <<terminalVars, line, outcome, regs, relocated, printed>>

Char(s, i)   == SubSeq(s, i, i)
From(s, i)   == SubSeq(s, i, Len(s))
HasPrefix(s, p) == Len(p) <= Len(s) /\ SubSeq(s, 1, Len(p)) = p

-----------------------------------------------------------------------------
(* helper.h                                                                *)

is_prefix(a, b) == HasPrefix(b, a)

\* The fields between delimiters; what follows the last delimiter is a field
\* unless it is empty.
Fields(s, d) ==
  LET ends == SetToSortSeq({i \in 1 .. Len(s) : Char(s, i) = d} \cup {0, Len(s) + 1}, <)
  IN  [i \in 1 .. Len(ends) - 1 |-> SubSeq(s, ends[i] + 1, ends[i + 1] - 1)]

\* (Mutant.  What follows the last delimiter is never a field.)
splitShort(s, d) == Front(Fields(s, d))
split(s, d) ==
  LET fs == Fields(s, d) IN IF Last(fs) = "" THEN Front(fs) ELSE fs

-----------------------------------------------------------------------------
(* runCommand.                                                             *)

Branches == <<"continue", "break", "register", "memory", "stepinst", "step",
              "next", "finish", "symbol", "backtrace", "variables">>

\* (Mutant.  The name is looked for in the word, instead of the other way round.)
BranchesForSwapped(w) == {i \in DOMAIN Branches : is_prefix(Branches[i], w)}
BranchesFor(w)        == {i \in DOMAIN Branches : is_prefix(w, Branches[i])}

Command(w) ==
  LET bs == BranchesFor(w)
  IN  IF bs = {} THEN "none" ELSE Branches[CHOOSE i \in bs : \A j \in bs : i <= j]

\* What a line comes to: the name of the function it calls (two names where
\* the order of evaluation decides), "none", an exception nothing catches, or
\* undefined behaviour: an element past the end of a vector is read, or the
\* end of the table of registers.
Digit  == {"0", "1", "2", "3", "4", "5", "6", "7", "8", "9"}
Parses(s, digits) == s # "" /\ Char(s, 1) \in digits
ParsesHex(s)      == Parses(s, Digit \cup {"a", "b", "c", "d", "e", "f"})

\* args has no element i (counting from 0, as the code does).
Lacks(args, i) == Len(args) <= i

\* string{s, 2} and stol(.., 0, 16).  (Signs, capitals and numbers too large for
\* a long are left out.)
NumberThrows(s) == Len(s) < 2 \/ ~ParsesHex(From(s, 3))

Break(arg) ==
  IF HasPrefix(arg, "0x")
  THEN IF ParsesHex(From(arg, 3)) THEN {"addBreakpoint"} ELSE {"throws"}
  ELSE IF \E i \in 1 .. Len(arg) : Char(arg, i) = ":"
  THEN LET fl == split(arg, ":") IN
       IF Lacks(fl, 1) THEN {"undefined"}
       ELSE IF Parses(fl[2], Digit) THEN {"set_bp_at_source_line"} ELSE {"throws"}
  ELSE {"set_bp_at_func"}

Register(args) ==
  CASE Lacks(args, 1)             -> {"undefined"}
    [] is_prefix(args[2], "dump") -> {"dump_registers"}
    [] is_prefix(args[2], "read") /\ ~is_prefix(args[2], "dump") ->
         IF Lacks(args, 2) \/ ~Named(args[3])
         THEN {"undefined"} ELSE {"get_register_value_from_type"}
    [] is_prefix(args[2], "write") /\ args[2] # "" ->
         IF Lacks(args, 3) THEN {"undefined"}
         ELSE IF Len(args[4]) < 2 THEN {"throws"}
         ELSE LET bad == (IF ~Named(args[3]) THEN {"undefined"} ELSE {})
                         \cup (IF NumberThrows(args[4]) THEN {"throws"} ELSE {})
              IN  IF bad = {} THEN {"set_register_value"} ELSE bad
    [] OTHER -> {"none"}

Memory(args) ==
  IF Lacks(args, 2) THEN {"undefined"}
  ELSE IF Len(args[3]) < 2 THEN {"throws"}
  ELSE CASE is_prefix(args[2], "read") ->
              IF NumberThrows(args[3]) THEN {"throws"} ELSE {"read_memory"}
         [] is_prefix(args[2], "write") /\ args[2] # "" ->
              IF Lacks(args, 3) THEN {"undefined"}
              ELSE IF NumberThrows(args[3]) \/ NumberThrows(args[4])
              THEN {"throws"} ELSE {"write_memory"}
         [] OTHER -> {"none"}

Handlers ==
  [continue |-> "continue_execution", stepinst |-> "single_step_instruction_with_bp_check",
   step |-> "step_in", next |-> "step_over", finish |-> "step_out",
   backtrace |-> "print_backtrace", variables |-> "read_variables", none |-> "none"]

Outcomes(args) ==
  IF Lacks(args, 0) THEN {"undefined"}
  ELSE LET c == Command(args[1]) IN
       CASE c = "break"    -> IF Lacks(args, 1) THEN {"undefined"} ELSE Break(args[2])
         [] c = "register" -> Register(args)
         [] c = "memory"   -> Memory(args)
         [] c = "symbol"   -> IF Lacks(args, 1) \/ ~SymbolsMapped(args[2])
                              THEN {"undefined"} ELSE {"lookup_symbol"}
         [] OTHER          -> {Handlers[c]}

-----------------------------------------------------------------------------
(* run.                                                                    *)

Nothing == [of |-> "", text |-> <<>>]

\* Each register holds its own name at first.
Init ==
  /\ TerminalInit
  /\ line = "" /\ outcome = "none"
  /\ regs = user_regs_struct
  /\ relocated \in BOOLEAN
  /\ printed = Nothing

\* At the end of the input getline empties the line, or leaves it as it was if
\* the last one had no newline; the loop is not told.
ReadLine ==
  /\ ReadPlain
  /\ line' \in Lines \cup {"", line} /\ outcome' = "none" /\ printed' = Nothing
  /\ UNCHANGED <<regs, relocated>>

EditLine == Enable /\ printed' = Nothing /\ UNCHANGED <<line, outcome, regs, relocated>>

\* The last line runs once more.
NoLine ==
  /\ EnableFails
  /\ outcome' = "none" /\ printed' = Nothing
  /\ UNCHANGED <<line, regs, relocated>>

LineEdited ==
  /\ EditEnds("command")
  /\ line' \in Lines \cup {""} /\ outcome' = "none"
  /\ UNCHANGED <<regs, relocated, printed>>

Quit == EditEnds("returning") /\ UNCHANGED <<line, outcome, regs, relocated, printed>>

\* Functions that resume the process; those of them that end by printing the
\* source, whatever stopped the process; and those that look up a line or a
\* function, or an entry's attributes, and throw if there is none.
Resuming == {"continue_execution", "single_step_instruction_with_bp_check",
             "step_in", "step_over", "step_out"}
Stepping == {"single_step_instruction_with_bp_check", "step_in"}
LooksUp  == Resuming \cup {"print_backtrace", "read_variables", "set_bp_at_func"}

Thrown(args) == IF Outcomes(args) \cap LooksUp # {} THEN {"throws"} ELSE {}

\* The source a function that resumed the process prints last.
SourceOf(o, cause, n) == IF o \in Stepping THEN print_source(n, 2) ELSE StopShown(cause, n)

\* What a function prints: of a stop of any kind, on any line; in any function,
\* its variables.
Prints(o, args) ==
  CASE o \in Resuming ->
         \E c \in StopCauses, n \in 0 .. SourceLength :
           printed' = [of |-> [cause |-> c, line |-> n], text |-> SourceOf(o, c, n)]
    [] o = "lookup_symbol" -> printed' = [of |-> args[2], text |-> lookup_symbol(args[2])]
    [] o = "read_variables" ->
         \E f \in Functions : /\ ~VariablesThrow(f, regs, relocated)
                              /\ printed' = [of |-> f, text |-> read_variables(f, regs, relocated)]
    [] OTHER -> UNCHANGED printed

\* runCommand.  What the process does to its registers is not followed.  A write
\* fails if the process is gone, or the kernel refuses the value.
Run ==
  /\ at = "command"
  /\ LET args == split(line, " ") IN
     \E o \in Outcomes(args) \cup Thrown(args) :
       /\ outcome' = o
       /\ Prints(o, args)
       /\ IF o \in {"undefined", "throws"} THEN Killed ELSE CommandEnds(o \in Resuming)
       /\ regs' \in {regs} \cup IF o = "set_register_value"
                               THEN {SetValue(regs, RowOfName(args[3]), args[4])} ELSE {}
  /\ UNCHANGED <<line, relocated>>

Interrupted == Killed /\ UNCHANGED <<line, outcome, regs, relocated, printed>>
End         == Return /\ UNCHANGED <<line, outcome, regs, relocated, printed>>

Next ==
  \/ ReadLine \/ EditLine \/ NoLine \/ LineEdited \/ Quit
  \/ Run \/ Interrupted \/ End

Spec == Init /\ [][Next]_vars

-----------------------------------------------------------------------------
(* The table of commands in README.md, with arguments as it describes them *)
(* and the function that does what it says.                                *)

Entry(words, fn) == [words |-> words, fn |-> fn]
Manual == {
  Entry(<<"continue">>, "continue_execution"),
  Entry(<<"break", "0x1139">>, "addBreakpoint"),
  Entry(<<"break", "t.c:3">>, "set_bp_at_source_line"),
  Entry(<<"break", "main">>, "set_bp_at_func"),
  Entry(<<"register", "dump">>, "dump_registers"),
  Entry(<<"register", "read", "rip">>, "get_register_value_from_type"),
  Entry(<<"register", "write", "rip", "0x1139">>, "set_register_value"),
  Entry(<<"memory", "read", "0x1139">>, "read_memory"),
  Entry(<<"memory", "write", "0x1139", "0x90">>, "write_memory"),
  Entry(<<"stepinst">>, "single_step_instruction_with_bp_check"),
  Entry(<<"step">>, "step_in"),
  Entry(<<"next">>, "step_over"),
  Entry(<<"finish">>, "step_out"),
  Entry(<<"symbol", "main">>, "lookup_symbol"),
  Entry(<<"backtrace">>, "print_backtrace"),
  Entry(<<"variables">>, "read_variables")}

(***************************************************************************)
(* Splitting loses nothing but a delimiter at the very end: the fields     *)
(* with the delimiters between them are the line again.                    *)
(***************************************************************************)
Rejoined(ws) ==
  IF ws = <<>> THEN "" ELSE FoldLeft(LAMBDA s, w : s \o " " \o w, Head(ws), Tail(ws))
SplitRejoins ==
  LET joined == Rejoined(split(line, " ")) IN
    /\ joined = line \/ joined \o " " = line
    /\ line # "" /\ Char(line, Len(line)) # " " => joined = line

(***************************************************************************)
(* Any abbreviation of a command that abbreviates no other one does what   *)
(* README.md says of the command, with the arguments it names.             *)
(***************************************************************************)
Abbreviates(w, name) ==
  /\ w # "" /\ HasPrefix(name, w)
  /\ \A e \in Manual : HasPrefix(e.words[1], w) => e.words[1] = name

AbbreviationsRun ==
  at \in {"prompt", "editing"} =>
  \A e \in Manual :
    LET ws == split(line, " ") IN
      /\ ws # <<>> /\ Tail(ws) = Tail(e.words) /\ Abbreviates(ws[1], e.words[1])
      => outcome = e.fn

(***************************************************************************)
(* Whichever name the user writes and whatever was written before, the     *)
(* member of the kernel's structure with that name changes and no other,   *)
(* or none if the request fails.                                           *)
(***************************************************************************)
WritesNamed ==
  outcome' = "set_register_value" =>
    LET ws == split(line, " ") IN
      \/ regs' = regs
      \/ regs' = [i \in DOMAIN regs |-> IF user_regs_struct[i] = ws[3] THEN ws[4] ELSE regs[i]]
RegisterWrites == [][at = "command" /\ at' = "prompt" => WritesNamed]_vars

(***************************************************************************)
(* After a stop at a breakpoint, and after a step however it ended, the    *)
(* user sees where the process is: the lines around it that the file has,  *)
(* in order, and the sign "> " in front of no other line.                  *)
(***************************************************************************)
ShowsLine(n, text) ==
  LET lines == {i \in DOMAIN text : text[i].text # 0}
  IN  /\ {m \in n - 2 .. n + 2 : m \in 1 .. SourceLength} \subseteq {text[i].text : i \in lines}
      /\ \A i, j \in lines : text[j].text - text[i].text = j - i
      /\ \A i \in DOMAIN text : text[i].mark = "> " => text[i].text = n

SourceShown ==
  /\ at = "prompt" /\ outcome \in Resuming
  /\ printed.of.line > 0
  /\ outcome \in Stepping \/ printed.of.cause = "breakpoint"
  => ShowsLine(printed.of.line, printed.text)

\* Places of variables, with the expressions a compiler gives for them: in a
\* register, in memory at an offset from what one holds, where such a place
\* points to, and in static memory; at an offset from the frame base, whatever
\* that is; a constant; and a variable of each thread.
InRegister(r) == [kind |-> "register", base |-> r, location |-> <<[op |-> "reg", reg |-> Abi[r]]>>]
InFrame(r, o) ==
  [kind |-> "frame", base |-> r, offset |-> o, location |-> <<[op |-> "breg", reg |-> Abi[r], offset |-> o]>>]
Behind(r, o) ==
  [kind |-> "behind", base |-> r, offset |-> o,
   location |-> <<[op |-> "breg", reg |-> Abi[r], offset |-> o], [op |-> "deref"]>>]
Static(a)      == [kind |-> "static", base |-> a, location |-> <<[op |-> "addr", address |-> a]>>]
Local(o)       == [kind |-> "local", base |-> o, location |-> <<[op |-> "fbreg", offset |-> o]>>]
Literal(c) ==
  [kind |-> "literal", base |-> c, location |-> <<[op |-> "lit", value |-> c], [op |-> "stack_value"]>>]
ThreadLocal(o) ==
  [kind |-> "tls", base |-> o, location |-> <<[op |-> "lit", value |-> o], [op |-> "form_tls_address"]>>]

Compiled(v) ==
  CASE v.kind = "register" -> v.base \in DOMAIN Abi /\ v = InRegister(v.base)
    [] v.kind = "frame"    -> v.base \in DOMAIN Abi /\ v = InFrame(v.base, v.offset)
    [] v.kind = "behind"   -> v.base \in DOMAIN Abi /\ v = Behind(v.base, v.offset)
    [] v.kind = "static"   -> v = Static(v.base)
    [] v.kind = "local"    -> v = Local(v.base)
    [] v.kind = "literal"  -> v = Literal(v.base)
    [] v.kind = "tls"      -> v = ThreadLocal(v.base)
    [] OTHER               -> FALSE

(***************************************************************************)
(* The value printed for a variable with one of these places is the one    *)
(* the compiler meant, after any writes: what is in its register, which    *)
(* the compiler names by its number in the ABI, or in memory at its offset *)
(* from one.  None is printed for a place that the debugger does not know: *)
(* rather than a wrong value, an offset from the frame base, a constant    *)
(* and a variable of a thread give none.  (Addresses in static memory, and *)
(* those an expression reads from memory, have to be where they were       *)
(* linked.)                                                                *)
(***************************************************************************)
Held(name) == regs[CHOOSE i \in DOMAIN user_regs_struct : user_regs_struct[i] = name]
Meant(v) ==
  CASE v.kind = "register" -> <<Held(v.base)>>
    [] v.kind = "frame"    -> Contents(<<Held(v.base), v.offset>>)
    [] v.kind = "behind"   -> Contents(Contents(<<Held(v.base), v.offset>>))
    [] v.kind = "static"   -> Contents(Loaded(<<v.base>>, relocated))

VariablesShown ==
  outcome = "read_variables" /\ at = "prompt" =>
    \A i \in DOMAIN printed.text :
      LET v == printed.of[i].place IN
        Compiled(v) =>
          /\ v.kind \in {"register", "frame", "behind", "static"}
          /\ v.kind \in {"register", "frame"} \/ ~relocated => printed.text[i] = Meant(v)
=============================================================================
