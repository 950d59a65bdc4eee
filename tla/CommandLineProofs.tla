------------------------- MODULE CommandLineProofs -------------------------
(***************************************************************************)
(* The command loop as a user of the terminal, the register written, and   *)
(* the source and the variables shown, for every line, every source file,  *)
(* all functions, and every sequence of commands.                          *)
(***************************************************************************)
EXTENDS CommandLine, SequenceTheorems, WellFoundedInduction, TLAPS

-----------------------------------------------------------------------------
(* The settings of the terminal, for every sequence of lines, commands,    *)
(* failures and ways to end: Terminal by itself.                           *)

\* While a line is edited the settings to go back to are the ones the process
\* should find; outside a line they are in force, as long as no attempt to put
\* them back has failed.  They are never the raw ones before such a failure.
TInv ==
  /\ rawmode \in BOOLEAN /\ failed \in BOOLEAN /\ atexit_registered \in BOOLEAN
  /\ due # "raw"
  /\ rawmode => atexit_registered
  /\ at = "editing" => rawmode /\ mode = "raw"
  /\ at = "editing" /\ ~failed => orig_termios = due
  /\ at \notin {"editing", "cut", "gone"} /\ ~failed => mode = due /\ ~rawmode
  /\ at = "gone" /\ ~failed => mode = due
  /\ RawRemembered

\* The invariant holds at first, ...
LEMMA TerminalStarts == TerminalInit => TInv
BY DEF TerminalInit, TInv, RawRemembered

\* ... and every step keeps it.
LEMMA TerminalKeeps == TInv /\ [TerminalNext]_terminalVars => TInv'
<1> SUFFICES ASSUME TInv, [TerminalNext]_terminalVars PROVE TInv'
  OBVIOUS
<1>1. CASE ReadPlain
  BY <1>1 DEF TInv, ReadPlain, RawRemembered
<1>2. CASE Enable
  BY <1>2 DEF TInv, Enable, RawRemembered
<1>3. CASE EnableFails
  BY <1>3 DEF TInv, EnableFails, RawRemembered
<1>4. ASSUME NEW next \in {"command", "returning"}, EditEnds(next)
      PROVE  TInv'
  BY <1>4 DEF TInv, EditEnds, Restored, RawRemembered
<1>5. ASSUME NEW ran \in BOOLEAN, CommandEnds(ran)
      PROVE  TInv'
  BY <1>5 DEF TInv, CommandEnds, RawRemembered
<1>6. CASE Return
  BY <1>6 DEF TInv, Return, Restored, RawRemembered
<1>7. CASE Killed
  BY <1>7 DEF TInv, Killed, RawRemembered
<1>8. CASE UNCHANGED terminalVars
  BY <1>8 DEF TInv, terminalVars, RawRemembered
<1> QED
  BY <1>1, <1>2, <1>3, <1>4, <1>5, <1>6, <1>7, <1>8 DEF TerminalNext

\* The invariant holds in every state.
THEOREM TerminalInvariance == TerminalSpec => []TInv
BY TerminalStarts, TerminalKeeps, PTL DEF TerminalSpec

\* The process, and whoever comes after a debugger that was not killed while it
\* edited a line, finds the settings it should, unless a call failed.
THEOREM SettingsReturned == TerminalSpec => []TerminalReturned
<1>1. TInv => TerminalReturned
  BY DEF TInv, TerminalReturned
<1> QED
  BY <1>1, TerminalInvariance, PTL

\* No exit of the debugger that runs exit handlers forgets a raw terminal.
THEOREM RawIsRemembered == TerminalSpec => []RawRemembered
<1>1. TInv => RawRemembered
  BY DEF TInv
<1> QED
  BY <1>1, TerminalInvariance, PTL

-----------------------------------------------------------------------------
(* The loop does nothing to the terminal that Terminal does not do.        *)

LEMMA NextUsesTerminal ==
  ASSUME [Next]_vars
  PROVE  [TerminalNext]_terminalVars
<1>1. CASE ReadLine \/ EditLine \/ NoLine
  BY <1>1 DEF ReadLine, EditLine, NoLine, TerminalNext
<1>2. CASE LineEdited \/ Quit
  BY <1>2 DEF LineEdited, Quit, TerminalNext
<1>3. CASE Run
  <2>1. PICK o : IF o \in {"undefined", "throws"} THEN Killed ELSE CommandEnds(o \in Resuming)
    BY <1>3 DEF Run
  <2>2. CASE Killed
    BY <2>2 DEF TerminalNext
  <2>3. CASE CommandEnds(o \in Resuming)
    <3>1. (o \in Resuming) \in BOOLEAN
      OBVIOUS
    <3> QED BY <2>3, <3>1 DEF TerminalNext
  <2> QED BY <2>1, <2>2, <2>3
<1>4. CASE Interrupted \/ End
  BY <1>4 DEF Interrupted, End, TerminalNext
<1>5. CASE UNCHANGED vars
  BY <1>5 DEF vars
<1> QED BY <1>1, <1>2, <1>3, <1>4, <1>5 DEF Next

(***************************************************************************)
(* The command loop implements the component that shares the terminal with *)
(* the process: whatever lines are typed, it is only used as Terminal says.*)
(***************************************************************************)
THEOREM UsesTerminal == Spec => TerminalSpec
<1>1. Init => TerminalInit
  BY DEF Init
<1>2. [Next]_vars => [TerminalNext]_terminalVars
  BY NextUsesTerminal
<1> QED BY <1>1, <1>2, PTL DEF Spec, TerminalSpec

\* Hence the settings are put back outside lines, and a raw terminal is not
\* forgotten, also with the loop in between.
THEOREM LoopReturnsTerminal == Spec => [](TerminalReturned /\ RawRemembered)
BY UsesTerminal, SettingsReturned, RawIsRemembered, PTL

-----------------------------------------------------------------------------
(* The table of registers.                                                 *)

Row == 1 .. 27

\* Rows and members of the structure have the same names in the same order.
LEMMA RowsAreMembers ==
  /\ DOMAIN registers = Row /\ DOMAIN user_regs_struct = Row
  /\ \A i \in Row : registers[i].name = user_regs_struct[i]
<1>1. DOMAIN registers = Row /\ DOMAIN user_regs_struct = Row
  BY DEF registers, user_regs_struct, Row
<1>2. ASSUME NEW i \in Row
      PROVE  registers[i].name = user_regs_struct[i]
  BY SMTT(30) DEF registers, user_regs_struct, Row, Reg
<1> QED BY <1>1, <1>2

\* No two members of the structure have one name.
LEMMA MembersDiffer ==
  ASSUME NEW i \in Row, NEW j \in Row, user_regs_struct[i] = user_regs_struct[j]
  PROVE  i = j
BY SMTT(60) DEF user_regs_struct, Row

\* A register is found where the structure has the member of that name.
LEMMA RowFound ==
  ASSUME NEW name, Named(name)
  PROVE  RowOfName(name) \in Row /\ user_regs_struct[RowOfName(name)] = name
<1>1. PICK i \in Row : registers[i].name = name
  BY RowsAreMembers DEF Named
<1>2. ASSUME NEW j \in 1 .. i - 1
      PROVE  registers[j].name # name
  BY <1>1, RowsAreMembers, MembersDiffer DEF Row
<1>3. \E k \in DOMAIN registers : /\ registers[k].name = name
                                  /\ \A j \in 1 .. k - 1 : ~(registers[j].name = name)
  BY <1>1, <1>2, RowsAreMembers
<1>4. /\ RowOfName(name) \in DOMAIN registers
      /\ registers[RowOfName(name)].name = name
  BY <1>3 DEF RowOfName, First
<1> QED BY <1>4, RowsAreMembers

\* A value for each member.
OnRows(r) == r = [i \in Row |-> r[i]]

\* The member written is the one named, and no other.
LEMMA SetsNamed ==
  ASSUME NEW r, OnRows(r), NEW name, Named(name), NEW v
  PROVE  SetValue(r, RowOfName(name), v)
           = [i \in DOMAIN r |-> IF user_regs_struct[i] = name THEN v ELSE r[i]]
<1> DEFINE row == RowOfName(name)
<1>1. row \in Row /\ user_regs_struct[row] = name
  BY RowFound
<1>2. ASSUME NEW i \in Row
      PROVE  user_regs_struct[i] = name <=> i = row
  BY <1>1, MembersDiffer
<1>3. DOMAIN r = Row
  BY DEF OnRows
<1> HIDE DEF row
<1>4. [r EXCEPT ![row] = v] = [i \in Row |-> IF i = row THEN v ELSE r[i]]
  BY <1>1, <1>3 DEF OnRows
<1>5. [r EXCEPT ![row] = v]
        = [i \in DOMAIN r |-> IF user_regs_struct[i] = name THEN v ELSE r[i]]
  BY <1>2, <1>3, <1>4
<1> QED BY <1>5 DEF SetValue, row

-----------------------------------------------------------------------------
(* Which line comes to a write of a register.                              *)

LEMMA HasLeast ==
  ASSUME NEW S \in SUBSET Nat, S # {}
  PROVE  \E i \in S : \A j \in S : i <= j
<1>1. PICK i \in S : \A j \in S : ~(<<j, i>> \in OpToRel(<, Nat))
  BY WFMin, NatLessThanWellFounded
<1>2. ASSUME NEW j \in S
      PROVE  i <= j
  <2>1. ~(j < i)
    BY <1>1 DEF OpToRel
  <2> QED BY <2>1
<1> QED BY <1>2

\* The first branch that fits is one of the branches.
LEMMA CommandFound ==
  ASSUME NEW w
  PROVE  Command(w) \in {"none", "continue", "break", "register", "memory", "stepinst", "step",
                         "next", "finish", "symbol", "backtrace", "variables"}
<1> DEFINE bs == BranchesFor(w)
<1>1. DOMAIN Branches = 1 .. 11 /\ bs \in SUBSET (1 .. 11)
  BY DEF Branches, BranchesFor
<1>2. CASE bs = {}
  BY <1>2 DEF Command
<1>3. CASE bs # {}
  <2> HIDE DEF bs
  <2>1. \E i \in bs : \A j \in bs : i <= j
    BY <1>1, <1>3, HasLeast
  <2> DEFINE first == CHOOSE i \in bs : \A j \in bs : i <= j
  <2>2. first \in 1 .. 11
    BY <1>1, <2>1
  <2>3. Command(w) = Branches[first]
    BY <1>3 DEF Command, bs
  <2> HIDE DEF first
  <2> QED BY <2>2, <2>3 DEF Branches
<1> QED BY <1>2, <1>3

\* Only a line that names a register comes to a write of one.
LEMMA WriteNames ==
  ASSUME NEW args, "set_register_value" \in Outcomes(args) \cup Thrown(args)
  PROVE  Named(args[3])
<1> DEFINE c == Command(args[1])
<1>1. "set_register_value" \in Outcomes(args) /\ ~Lacks(args, 0)
  BY DEF Thrown, Outcomes
<1>2. c \in {"none", "continue", "break", "register", "memory", "stepinst", "step",
             "next", "finish", "symbol", "backtrace", "variables"}
  BY CommandFound
<1>3. "set_register_value" \notin Break(args[2])
  BY DEF Break
<1>4. "set_register_value" \notin Memory(args)
  BY DEF Memory
<1>5. "set_register_value" \in Register(args) => Named(args[3])
  BY DEF Register
<1>6. c = "register" => Outcomes(args) = Register(args)
  BY <1>1 DEF Outcomes
<1>7. c = "memory" => Outcomes(args) = Memory(args)
  BY <1>1 DEF Outcomes
<1>8. c = "break" => Outcomes(args) \in {{"undefined"}, Break(args[2])}
  BY <1>1 DEF Outcomes
<1>9. c = "symbol" => Outcomes(args) \in {{"undefined"}, {"lookup_symbol"}}
  BY <1>1 DEF Outcomes
<1>10. c \notin {"register", "memory", "break", "symbol"}
         => "set_register_value" \notin Outcomes(args)
  BY <1>1, <1>2 DEF Outcomes, Handlers
<1> HIDE DEF c
<1> QED BY <1>1, <1>3, <1>4, <1>5, <1>6, <1>7, <1>8, <1>9, <1>10

-----------------------------------------------------------------------------
(* The source shown.                                                       *)

\* print_source prints a line of the file as it should.
LEMMA PrintsLine ==
  ASSUME NEW n \in 1 .. SourceLength
  PROVE  ShowsLine(n, print_source(n, 2))
<1> DEFINE text   == print_source(n, 2)
           start  == IF n > 2 THEN n - 2 ELSE 1
           end    == LastShown(n, 2)
           last   == IF end < SourceLength THEN end ELSE SourceLength
           lines  == {i \in DOMAIN text : text[i].text # 0}
<1>1. /\ n \in Int /\ SourceLength \in Nat /\ 1 <= n /\ n <= SourceLength
      /\ start \in Int /\ 1 <= start /\ start <= n /\ (start <= n - 2 \/ start = 1)
  BY DisplayAssumption
<1>2. end \in Int /\ end >= n + 3
  BY <1>1 DEF LastShown
<1>3. last \in Int /\ n <= last /\ last <= SourceLength /\ (n + 2 <= last \/ last = SourceLength)
  BY <1>1, <1>2
<1>4. text = [i \in 1 .. last - start + 2 |->
                [mark |-> Mark(start + i - 1, start, n),
                 text |-> IF start + i - 1 > last THEN 0 ELSE start + i - 1]]
  BY DEF print_source, FirstShown
<1> HIDE DEF text, start, end, last
<1>5. ASSUME NEW i \in 1 .. last - start + 2
      PROVE  /\ text[i].text = IF start + i - 1 > last THEN 0 ELSE start + i - 1
             /\ text[i].mark = Mark(start + i - 1, start, n)
  BY <1>4
<1>6. DOMAIN text = 1 .. last - start + 2
  BY <1>4
<1>7. lines = 1 .. last - start + 1
  <2>1. ASSUME NEW i \in 1 .. last - start + 2
        PROVE  text[i].text # 0 <=> i \in 1 .. last - start + 1
    BY <1>1, <1>3, <1>5
  <2>2. 1 .. last - start + 1 \subseteq 1 .. last - start + 2
    BY <1>1, <1>3
  <2> QED BY <1>6, <2>1, <2>2
<1>8. ASSUME NEW i \in lines
      PROVE  text[i].text = start + i - 1
  <2>1. i \in 1 .. last - start + 2 /\ ~(start + i - 1 > last)
    BY <1>1, <1>3, <1>7
  <2> QED BY <1>5, <2>1
<1>9. ASSUME NEW i \in DOMAIN text, text[i].mark = "> "
      PROVE  text[i].text = n
  <2> DEFINE m == start + i - 1
  <2>1. i \in 1 .. last - start + 2 /\ text[i].mark = Mark(m, start, n)
    BY <1>5, <1>6, <1>9
  <2>2. m = n
    BY <1>9, <2>1 DEF Mark
  <2>3. ~(m > last)
    BY <1>3, <2>2
  <2> QED BY <1>5, <2>1, <2>2, <2>3
<1> HIDE DEF lines
<1>10. {m \in n - 2 .. n + 2 : m \in 1 .. SourceLength} \subseteq {text[i].text : i \in lines}
  <2>1. SUFFICES ASSUME NEW m \in n - 2 .. n + 2, m \in 1 .. SourceLength
                 PROVE  \E i \in lines : text[i].text = m
    OBVIOUS
  <2>2. start <= m /\ m <= last
    BY <1>1, <1>3, <2>1
  <2>3. m - start + 1 \in lines
    BY <1>1, <1>3, <1>7, <2>2
  <2> QED BY <1>1, <1>8, <2>3
<1>11. \A i, j \in lines : text[j].text - text[i].text = j - i
  BY <1>1, <1>3, <1>7, <1>8
<1> QED BY <1>9, <1>10, <1>11 DEF ShowsLine, text, lines

-----------------------------------------------------------------------------
(* The place of a variable: what an expression of one or two operations    *)
(* comes to, and the register a number stands for.                         *)

Empty == Location("empty", <<>>)
Goes(r, op, g, l) == IF r.type = "throws" THEN r ELSE Step(r, op, g, l)

Evaluates(f, q, n, g, l) ==
  f = [S \in SUBSET (1 .. n) |->
         IF S = {} THEN Empty ELSE Goes(f[S \ {Max(S)}], q[Max(S)], g, l)]

LEMMA EvaluateIs ==
  ASSUME NEW q, NEW n \in Nat, DOMAIN q = 1 .. n, NEW g, NEW l
  PROVE  evaluate(q, g, l) = (CHOOSE f : Evaluates(f, q, n, g, l))[1 .. n]
BY DEF evaluate, FoldLeft, MapThenFoldSet, Evaluates, Goes, Empty

LEMMA LargestOfTwo ==
  /\ Max({1}) = 1 /\ Max({2}) = 2 /\ Max({1, 2}) = 2
  /\ {1} \ {1} = {} /\ {2} \ {2} = {} /\ {1, 2} \ {2} = {1}
<1>1. ASSUME NEW S \in SUBSET Nat, NEW m \in S, \A y \in S : m >= y
      PROVE  Max(S) = m
  <2>1. \A x \in S : (\A y \in S : x >= y) => x = m
    BY <1>1
  <2> QED BY <1>1, <2>1 DEF Max
<1> QED BY <1>1

LEMMA OneRuns ==
  ASSUME NEW x, NEW g, NEW l
  PROVE  evaluate(<<x>>, g, l) = Step(Empty, x, g, l)
<1> DEFINE q == <<x>>
           e == CHOOSE f : Evaluates(f, q, 1, g, l)
           w == [S \in SUBSET (1 .. 1) |-> IF S = {} THEN Empty ELSE Goes(Empty, x, g, l)]
<1>1. DOMAIN q = 1 .. 1 /\ q[1] = x /\ 1 \in Nat
  OBVIOUS
<1>2. 1 .. 1 = {1} /\ {} \in SUBSET (1 .. 1) /\ {1} \in SUBSET (1 .. 1) /\ {1} # {}
  OBVIOUS
<1>3. \A S \in SUBSET (1 .. 1) : S = {} \/ S = {1}
  BY <1>2
<1> HIDE DEF q
<1>4. Evaluates(w, q, 1, g, l)
  <2>1. w[{}] = Empty
    BY <1>2
  <2>2. ASSUME NEW S \in SUBSET (1 .. 1), S # {}
        PROVE  Goes(w[S \ {Max(S)}], q[Max(S)], g, l) = Goes(Empty, x, g, l)
    <3>1. S = {1}
      BY <1>3, <2>2
    <3> HIDE DEF w
    <3> QED BY <1>1, <2>1, <3>1, LargestOfTwo
  <2> DEFINE A(S) == IF S = {} THEN Empty ELSE Goes(Empty, x, g, l)
             B(S) == IF S = {} THEN Empty ELSE Goes(w[S \ {Max(S)}], q[Max(S)], g, l)
  <2>3. w = [S \in SUBSET (1 .. 1) |-> A(S)]
    OBVIOUS
  <2>4. \A S \in SUBSET (1 .. 1) : A(S) = B(S)
    <3> HIDE DEF w
    <3> QED BY <2>2
  <2> HIDE DEF w, A, B
  <2>5. w = [S \in SUBSET (1 .. 1) |-> B(S)]
    BY <2>3, <2>4
  <2> QED BY <2>5 DEF Evaluates, B
<1>5. Evaluates(e, q, 1, g, l)
  <2> HIDE DEF w
  <2> QED BY <1>4
<1>6. evaluate(q, g, l) = e[{1}]
  <2>1. evaluate(q, g, l) = e[1 .. 1]
    BY <1>1, EvaluateIs
  <2> QED BY <1>2, <2>1
<1> HIDE DEF e
<1>7. e[{}] = Empty
  BY <1>2, <1>5 DEF Evaluates
<1>8. e[{1}] = Goes(e[{}], x, g, l)
  <2>1. e[{1}] = Goes(e[{1} \ {Max({1})}], q[Max({1})], g, l)
    BY <1>2, <1>5 DEF Evaluates
  <2> QED BY <1>1, <2>1, LargestOfTwo
<1>9. Empty.type # "throws"
  BY DEF Empty, Location
<1> QED BY <1>6, <1>7, <1>8, <1>9 DEF Goes, q

LEMMA TwoRun ==
  ASSUME NEW x, NEW y, NEW g, NEW l
  PROVE  evaluate(<<x, y>>, g, l) = Goes(Step(Empty, x, g, l), y, g, l)
<1> DEFINE q == <<x, y>>
           e == CHOOSE f : Evaluates(f, q, 2, g, l)
           o == Goes(Empty, x, g, l)
           A(S) == IF S = {} THEN Empty ELSE IF S = {1} THEN o
                   ELSE IF S = {2} THEN Goes(Empty, y, g, l) ELSE Goes(o, y, g, l)
           w == [S \in SUBSET (1 .. 2) |-> A(S)]
           B(S) == IF S = {} THEN Empty ELSE Goes(w[S \ {Max(S)}], q[Max(S)], g, l)
<1>1. DOMAIN q = 1 .. 2 /\ q[1] = x /\ q[2] = y /\ 2 \in Nat
  OBVIOUS
<1>2. /\ 1 .. 2 = {1, 2} /\ {} \in SUBSET (1 .. 2) /\ {1} \in SUBSET (1 .. 2)
      /\ {1, 2} \in SUBSET (1 .. 2) /\ {1} # {} /\ {2} # {} /\ {1, 2} # {}
      /\ {2} # {1} /\ {1, 2} # {1} /\ {1, 2} # {2}
  OBVIOUS
<1>3. \A S \in SUBSET (1 .. 2) : S = {} \/ S = {1} \/ S = {2} \/ S = {1, 2}
  BY <1>2
<1> HIDE DEF q, o
<1>4. w[{}] = Empty /\ w[{1}] = o
  BY <1>2
<1>5. ASSUME NEW S \in SUBSET (1 .. 2)
      PROVE  A(S) = B(S)
  <2>1. CASE S = {}
    BY <2>1
  <2>2. CASE S = {1}
    <3>1. B(S) = Goes(w[{}], x, g, l)
      <4> HIDE DEF w
      <4> QED BY <1>1, <1>2, <2>2, LargestOfTwo
    <3> QED BY <1>2, <1>4, <2>2, <3>1 DEF o
  <2>3. CASE S = {2}
    <3>1. B(S) = Goes(w[{}], y, g, l)
      <4> HIDE DEF w
      <4> QED BY <1>1, <1>2, <2>3, LargestOfTwo
    <3> QED BY <1>2, <1>4, <2>3, <3>1
  <2>4. CASE S = {1, 2}
    <3>1. B(S) = Goes(w[{1}], y, g, l)
      <4> HIDE DEF w
      <4> QED BY <1>1, <1>2, <2>4, LargestOfTwo
    <3> QED BY <1>2, <1>4, <2>4, <3>1
  <2> QED BY <1>3, <2>1, <2>2, <2>3, <2>4
<1>6. w = [S \in SUBSET (1 .. 2) |-> A(S)]
  OBVIOUS
<1> HIDE DEF w, A, B
<1>7. w = [S \in SUBSET (1 .. 2) |-> B(S)]
  BY <1>5, <1>6
<1>8. Evaluates(w, q, 2, g, l)
  BY <1>7 DEF Evaluates, B
<1>9. Evaluates(e, q, 2, g, l)
  BY <1>8
<1>10. evaluate(q, g, l) = e[{1, 2}]
  <2>1. evaluate(q, g, l) = e[1 .. 2]
    BY <1>1, EvaluateIs
  <2> QED BY <1>2, <2>1
<1> HIDE DEF e
<1>11. e[{}] = Empty
  BY <1>2, <1>9 DEF Evaluates
<1>12. e[{1}] = Goes(e[{}], x, g, l)
  <2>1. e[{1}] = Goes(e[{1} \ {Max({1})}], q[Max({1})], g, l)
    BY <1>2, <1>9 DEF Evaluates
  <2> QED BY <1>1, <2>1, LargestOfTwo
<1>13. e[{1, 2}] = Goes(e[{1}], y, g, l)
  <2>1. e[{1, 2}] = Goes(e[{1, 2} \ {Max({1, 2})}], q[Max({1, 2})], g, l)
    BY <1>2, <1>9 DEF Evaluates
  <2> QED BY <1>1, <2>1, LargestOfTwo
<1>14. Goes(Empty, x, g, l) = Step(Empty, x, g, l)
  BY DEF Goes, Empty, Location
<1> QED BY <1>10, <1>11, <1>12, <1>13, <1>14 DEF q

\* The rows of the table have different numbers, but for those without one.
LEMMA NumbersDiffer ==
  ASSUME NEW i \in Row, NEW j \in Row,
         registers[i].dwarf_reg_no = registers[j].dwarf_reg_no, registers[j].dwarf_reg_no # -1
  PROVE  i = j
BY SMTT(120) DEF registers, Row, Reg

\* The numbers of the table are those of the ABI.
LEMMA NumbersOfAbi ==
  ASSUME NEW r \in DOMAIN Abi
  PROVE  \E i \in Row : /\ user_regs_struct[i] = r
                        /\ registers[i].dwarf_reg_no = Abi[r] /\ Abi[r] # -1
<1>1. PICK p \in AbiNumbers : p[1] = r /\ p[2] = Abi[r]
  BY DEF Abi
<1>2. \E i \in Row : /\ user_regs_struct[i] = p[1]
                     /\ registers[i].dwarf_reg_no = p[2] /\ p[2] # -1
  BY SMTT(120) DEF registers, user_regs_struct, Row, Reg, AbiNumbers
<1> QED BY <1>1, <1>2

\* A number finds the member that the ABI means.
LEMMA MemberMeant ==
  ASSUME NEW g, NEW r \in DOMAIN Abi
  PROVE  DwarfValue(g, Abi[r]) = g[CHOOSE i \in DOMAIN user_regs_struct : user_regs_struct[i] = r]
<1> DEFINE n == Abi[r]
<1>1. PICK i \in Row : /\ user_regs_struct[i] = r
                       /\ registers[i].dwarf_reg_no = n /\ n # -1
  BY NumbersOfAbi
<1> HIDE DEF n
<1>2. (CHOOSE k \in DOMAIN user_regs_struct : user_regs_struct[k] = r) = i
  <2>1. \A k \in DOMAIN user_regs_struct : user_regs_struct[k] = r <=> k = i
    BY <1>1, RowsAreMembers, MembersDiffer
  <2> QED BY <1>1, <2>1, RowsAreMembers
<1>3. \A k \in DOMAIN registers :
        (registers[k].dwarf_reg_no = n /\ \A j \in 1 .. k - 1 : ~(registers[j].dwarf_reg_no = n)) <=> k = i
  <2>1. \A k \in Row : registers[k].dwarf_reg_no = n <=> k = i
    BY <1>1, NumbersDiffer
  <2>2. \A j \in 1 .. i - 1 : j \in Row /\ j # i
    BY DEF Row
  <2> QED BY <2>1, <2>2, RowsAreMembers
<1>4. RowOfDwarf(n) = i
  BY <1>1, <1>3, RowsAreMembers DEF RowOfDwarf, First
<1> QED BY <1>2, <1>4 DEF DwarfValue, Value, n

\* What is on a stack of one address.
LEMMA StackOfOne ==
  ASSUME NEW t, NEW u
  PROVE  /\ Append(<<>>, t) = <<t>> /\ Top(<<t>>) = t /\ WithTop(<<t>>, u) = <<u>>
         /\ Append(<<t>>, u) = <<t, u>>
<1>0. Append(<<>>, t) = <<t>>
  OBVIOUS
<1>1. Append(<<t>>, u) = <<t, u>>
  <2> DEFINE S == {t, u}
             a == Append(<<t>>, u)
             b == <<t, u>>
  <2>1. <<t>> \in Seq(S) /\ u \in S /\ b \in Seq(S) /\ Len(b) = 2 /\ b[1] = t /\ b[2] = u
        /\ Len(<<t>>) = 1 /\ <<t>>[1] = t
    OBVIOUS
  <2>2. a \in Seq(S) /\ Len(a) = 2 /\ a[1] = t /\ a[2] = u
    BY <2>1, AppendProperties
  <2>3. 1 .. 2 = {1, 2}
    OBVIOUS
  <2> HIDE DEF S, a, b
  <2>4. a = b
    BY <2>1, <2>2, <2>3, SeqEqual
  <2> QED BY <2>4 DEF a, b
<1>2. Len(<<t>>) = 1 /\ <<t>>[1] = t
  OBVIOUS
<1>3. [<<t>> EXCEPT ![1] = u] = <<u>>
  <2> DEFINE s == [<<t>> EXCEPT ![1] = u]
  <2>1. DOMAIN s = 1 .. 1 /\ s[1] = u
    OBVIOUS
  <2>2. s = [i \in 1 .. 1 |-> s[i]] /\ <<u>> = [i \in 1 .. 1 |-> u]
    OBVIOUS
  <2> QED BY <2>1, <2>2
<1>4. Top(<<t>>) = t
  BY <1>2 DEF Top
<1>5. WithTop(<<t>>, u) = <<u>>
  BY <1>2, <1>3 DEF WithTop
<1> QED BY <1>0, <1>1, <1>4, <1>5

\* What is printed for a variable is what the compiler means.
LEMMA VariableShown ==
  ASSUME NEW v, Compiled(v), ~Unhandled(evaluate(v.location, regs, relocated))
  PROVE  /\ v.kind \in {"register", "frame", "behind", "static"}
         /\ v.kind \in {"register", "frame"} \/ ~relocated
              => ShownOf(evaluate(v.location, regs, relocated), regs) = Meant(v)
<1> DEFINE r == evaluate(v.location, regs, relocated)
<1>1. Empty.stack = <<>>
  BY DEF Empty, Location
<1>2. ASSUME NEW k, NEW s PROVE Location(k, s).type = k /\ Location(k, s).stack = s
  BY DEF Location
<1>3. CASE v.kind = "register"
  <2> DEFINE x == [op |-> "reg", reg |-> Abi[v.base]]
  <2>1. v.base \in DOMAIN Abi /\ v.location = <<x>>
    BY <1>3 DEF Compiled, InRegister
  <2>2. Step(Empty, x, regs, relocated) = Location("reg", Append(<<>>, Abi[v.base]))
    BY <1>1 DEF Step
  <2>3. ContextReg(regs, Abi[v.base]) = <<Held(v.base)>>
    BY <2>1, MemberMeant DEF ContextReg, Held
  <2>4. r = Location("reg", <<Abi[v.base]>>)
    <3>1. r = Step(Empty, x, regs, relocated)
      BY <2>1, OneRuns
    <3> QED BY <2>2, <3>1, StackOfOne
  <2>5. ShownOf(r, regs) = <<Held(v.base)>>
    <3> HIDE DEF r
    <3> QED BY <1>2, <2>3, <2>4, StackOfOne DEF ShownOf
  <2> QED BY <1>3, <2>5 DEF Meant
<1>4. ASSUME NEW b \in DOMAIN Abi, NEW o
      PROVE  Step(Empty, [op |-> "breg", reg |-> Abi[b], offset |-> o], regs, relocated)
               = Location("address", <<<<Held(b), o>>>>)
  <2> DEFINE x == [op |-> "breg", reg |-> Abi[b], offset |-> o]
  <2>1. Step(Empty, x, regs, relocated)
          = Location("address", Append(<<>>, Append(ContextReg(regs, Abi[b]), o)))
    BY <1>1 DEF Step
  <2>2. ContextReg(regs, Abi[b]) = <<Held(b)>>
    BY MemberMeant DEF ContextReg, Held
  <2> QED BY <2>1, <2>2, StackOfOne
<1>5. CASE v.kind = "frame"
  <2> DEFINE x == [op |-> "breg", reg |-> Abi[v.base], offset |-> v.offset]
  <2>1. v.base \in DOMAIN Abi /\ v.location = <<x>>
    BY <1>5 DEF Compiled, InFrame
  <2>2. r = Location("address", <<<<Held(v.base), v.offset>>>>)
    <3>1. r = Step(Empty, x, regs, relocated)
      BY <2>1, OneRuns
    <3> QED BY <1>4, <2>1, <3>1
  <2>3. ShownOf(r, regs) = Contents(<<Held(v.base), v.offset>>)
    <3> HIDE DEF r
    <3> QED BY <1>2, <2>2, StackOfOne DEF ShownOf
  <2> QED BY <1>5, <2>3 DEF Meant
<1>6. CASE v.kind = "behind"
  <2> DEFINE x == [op |-> "breg", reg |-> Abi[v.base], offset |-> v.offset]
             y == [op |-> "deref"]
             a == <<Held(v.base), v.offset>>
  <2>1. v.base \in DOMAIN Abi /\ v.location = <<x, y>>
    BY <1>6 DEF Compiled, Behind
  <2>2. r = Goes(Location("address", <<a>>), y, regs, relocated)
    <3>1. r = Goes(Step(Empty, x, regs, relocated), y, regs, relocated)
      BY <2>1, TwoRun
    <3> QED BY <1>4, <2>1, <3>1
  <2> HIDE DEF a
  <2>3. Goes(Location("address", <<a>>), y, regs, relocated)
          = Location("address", WithTop(<<a>>, DerefSize(Top(<<a>>), relocated)))
    BY <1>2 DEF Goes, Step
  <2>4. ~relocated => DerefSize(a, relocated) = Contents(a)
    BY DEF DerefSize, Loaded
  <2>5. ~relocated => r = Location("address", <<Contents(a)>>)
    BY <2>2, <2>3, <2>4, StackOfOne
  <2>6. ~relocated => ShownOf(r, regs) = Contents(Contents(a))
    <3> HIDE DEF r
    <3> QED BY <1>2, <2>5, StackOfOne DEF ShownOf
  <2> QED BY <1>6, <2>6 DEF Meant, a
<1>7. CASE v.kind = "static"
  <2> DEFINE x == [op |-> "addr", address |-> v.base]
  <2>1. v.location = <<x>>
    BY <1>7 DEF Compiled, Static
  <2>2. Step(Empty, x, regs, relocated) = Location("address", Append(<<>>, <<v.base>>))
    BY <1>1 DEF Step
  <2>3. r = Location("address", <<<<v.base>>>>)
    <3>1. r = Step(Empty, x, regs, relocated)
      BY <2>1, OneRuns
    <3> QED BY <2>2, <3>1, StackOfOne
  <2>4. ShownOf(r, regs) = Contents(<<v.base>>)
    <3> HIDE DEF r
    <3> QED BY <1>2, <2>3, StackOfOne DEF ShownOf
  <2> QED BY <1>7, <2>4 DEF Meant, Loaded
<1>8. CASE v.kind = "local"
  <2> DEFINE x == [op |-> "fbreg", offset |-> v.base]
  <2>1. v.location = <<x>>
    BY <1>8 DEF Compiled, Local
  <2>2. r = Step(Empty, x, regs, relocated)
    BY <2>1, OneRuns
  <2>3. Step(Empty, x, regs, relocated).type = "throws"
    BY <1>2 DEF Step
  <2> QED BY <2>2, <2>3 DEF Unhandled
<1>9. ASSUME NEW c, NEW o \in {"stack_value", "form_tls_address"},
             v.location = <<[op |-> "lit", value |-> c], [op |-> o]>>
      PROVE  FALSE
  <2> DEFINE x == [op |-> "lit", value |-> c]
             y == [op |-> o]
             s == Step(Empty, x, regs, relocated)
  <2>1. r = Goes(s, y, regs, relocated)
    BY <1>9, TwoRun
  <2>2. s.type = "address"
    BY <1>2 DEF Step
  <2> HIDE DEF s
  <2>3. Step(s, y, regs, relocated).type \in {"literal", "throws"}
    BY <1>2 DEF Step
  <2> QED BY <2>1, <2>2, <2>3 DEF Goes, Unhandled
<1>10. CASE v.kind = "literal"
  BY <1>9, <1>10 DEF Compiled, Literal
<1>11. CASE v.kind = "tls"
  BY <1>9, <1>11 DEF Compiled, ThreadLocal
<1> QED BY <1>3, <1>5, <1>6, <1>7, <1>8, <1>10, <1>11 DEF Compiled

-----------------------------------------------------------------------------
(* The loop.                                                               *)

\* The registers are those of the structure, and a command that resumed the
\* process has printed what it prints of a stop.
Stop(o, c, n) == [of |-> [cause |-> c, line |-> n], text |-> SourceOf(o, c, n)]
LoopInv ==
  /\ OnRows(regs)
  /\ at = "prompt" /\ outcome \in Resuming =>
       \E c \in StopCauses, n \in 0 .. SourceLength : printed = Stop(outcome, c, n)

LEMMA LoopStarts ==
  ASSUME Init
  PROVE  LoopInv
<1>1. OnRows(regs)
  <2>1. user_regs_struct = [i \in Row |-> user_regs_struct[i]]
    BY RowsAreMembers DEF user_regs_struct
  <2> QED BY <2>1 DEF Init, OnRows
<1>2. outcome \notin Resuming
  BY DEF Init, Resuming
<1> QED BY <1>1, <1>2 DEF LoopInv

\* What a command leaves behind.
LEMMA RunEffect ==
  ASSUME Run
  PROVE  /\ at = "command" /\ line' = line
         /\ outcome' \in Resuming =>
              \E c \in StopCauses, n \in 0 .. SourceLength : printed' = Stop(outcome', c, n)
         /\ LET args == split(line, " ") IN
              \/ regs' = regs
              \/ /\ outcome' = "set_register_value"
                 /\ Named(args[3]) /\ regs' = SetValue(regs, RowOfName(args[3]), args[4])
<1> DEFINE args == split(line, " ")
<1>1. PICK o \in Outcomes(args) \cup Thrown(args) :
        /\ outcome' = o
        /\ Prints(o, args)
        /\ regs' \in {regs} \cup IF o = "set_register_value"
                                THEN {SetValue(regs, RowOfName(args[3]), args[4])} ELSE {}
  BY DEF Run
<1>2. o \in Resuming => \E c \in StopCauses, n \in 0 .. SourceLength : printed' = Stop(o, c, n)
  BY <1>1 DEF Prints, Resuming, Stop
<1>3. o = "set_register_value" => Named(args[3])
  BY WriteNames
<1> QED BY <1>1, <1>2, <1>3 DEF Run

LEMMA OnlyRunPrompts ==
  ASSUME Next, ~Run
  PROVE  at' # "prompt" /\ regs' = regs
BY DEF Next, ReadLine, ReadPlain, EditLine, Enable, NoLine, EnableFails, LineEdited, Quit,
   EditEnds, Interrupted, Killed, End, Return

LEMMA LoopKeeps ==
  ASSUME LoopInv, [Next]_vars
  PROVE  LoopInv'
<1>1. CASE Run
  <2> DEFINE args == split(line, " ")
  <2>1. CASE regs' # regs
    <3>1. Named(args[3]) /\ regs' = SetValue(regs, RowOfName(args[3]), args[4])
      BY <1>1, <2>1, RunEffect
    <3>2. regs' = [i \in DOMAIN regs |-> IF user_regs_struct[i] = args[3] THEN args[4] ELSE regs[i]]
      <4> HIDE DEF args
      <4> QED BY <3>1, SetsNamed DEF LoopInv
    <3>3. DOMAIN regs = Row
      BY DEF LoopInv, OnRows
    <3>4. OnRows(regs')
      BY <3>2, <3>3 DEF OnRows
    <3>5. outcome' \notin Resuming
      BY <1>1, <2>1, RunEffect DEF Resuming
    <3> QED BY <3>4, <3>5 DEF LoopInv
  <2>2. CASE regs' = regs
    BY <1>1, <2>2, RunEffect DEF LoopInv
  <2> QED BY <2>1, <2>2
<1>2. CASE Next /\ ~Run
  BY <1>2, OnlyRunPrompts DEF LoopInv
<1>3. CASE UNCHANGED vars
  BY <1>3 DEF vars, terminalVars, LoopInv
<1> QED BY <1>1, <1>2, <1>3

LEMMA LoopInvariance == Spec => []LoopInv
<1>1. Init => LoopInv
  BY LoopStarts
<1>2. LoopInv /\ [Next]_vars => LoopInv'
  BY LoopKeeps
<1> QED BY <1>1, <1>2, PTL DEF Spec

(***************************************************************************)
(* A write of a register writes the member of the kernel's structure that  *)
(* has the name in the line and no other, whatever lines came before, or   *)
(* none if the request fails.                                              *)
(***************************************************************************)
THEOREM RegistersAreNamed == Spec => RegisterWrites
<1>1. ASSUME LoopInv, Next, at = "command", at' = "prompt", outcome' = "set_register_value"
      PROVE  WritesNamed
  <2> DEFINE ws == split(line, " ")
  <2> SUFFICES ASSUME regs' # regs
               PROVE  regs' = [i \in DOMAIN regs |-> IF user_regs_struct[i] = ws[3] THEN ws[4] ELSE regs[i]]
    BY DEF WritesNamed
  <2>1. Named(ws[3]) /\ regs' = SetValue(regs, RowOfName(ws[3]), ws[4])
    BY <1>1, OnlyRunPrompts, RunEffect
  <2>2. regs' = [i \in DOMAIN regs |-> IF user_regs_struct[i] = ws[3] THEN ws[4] ELSE regs[i]]
    <3> HIDE DEF ws
    <3> QED BY <1>1, <2>1, SetsNamed DEF LoopInv
  <2> QED BY <2>2
<1>2. LoopInv /\ [Next]_vars => [at = "command" /\ at' = "prompt" => WritesNamed]_vars
  BY <1>1 DEF WritesNamed
<1> QED BY <1>2, LoopInvariance, PTL DEF Spec, RegisterWrites

(***************************************************************************)
(* After a stop at a breakpoint, and after a step, in a file of any length *)
(* the lines around the process are printed, in order, and the sign is in  *)
(* front of no other line than its own.                                    *)
(***************************************************************************)
THEOREM SourceIsShown == Spec => []SourceShown
<1>1. ASSUME LoopInv, at = "prompt", outcome \in Resuming, printed.of.line > 0,
             outcome \in Stepping \/ printed.of.cause = "breakpoint"
      PROVE  ShowsLine(printed.of.line, printed.text)
  <2>1. PICK c \in StopCauses, n \in 0 .. SourceLength : printed = Stop(outcome, c, n)
    BY <1>1 DEF LoopInv
  <2>2. /\ printed.of.line = n /\ printed.of.cause = c
        /\ printed.text = SourceOf(outcome, c, n)
    BY <2>1 DEF Stop
  <2>3. printed.text = print_source(n, 2)
    BY <1>1, <2>2 DEF SourceOf, StopShown
  <2>4. n \in 1 .. SourceLength
    BY <1>1, <2>2, DisplayAssumption
  <2> QED BY <2>2, <2>3, <2>4, PrintsLine
<1>2. LoopInv => SourceShown
  BY <1>1 DEF SourceShown
<1> QED BY <1>2, LoopInvariance, PTL

\* Variables are printed as they were read from these registers.
VariablesOf(f) == [of |-> f, text |-> read_variables(f, regs, relocated)]
VariablesInv ==
  at = "prompt" /\ outcome = "read_variables" =>
    \E f \in Functions : ~VariablesThrow(f, regs, relocated) /\ printed = VariablesOf(f)

\* A command that prints variables changes no register.
LEMMA RunPrintsVariables ==
  ASSUME Run
  PROVE  VariablesInv'
<1> SUFFICES ASSUME outcome' = "read_variables"
             PROVE  \E f \in Functions : /\ ~VariablesThrow(f, regs', relocated')
                                         /\ printed' = [of |-> f, text |-> read_variables(f, regs', relocated')]
  BY DEF VariablesInv, VariablesOf
<1> DEFINE args == split(line, " ")
<1>1. PICK o \in Outcomes(args) \cup Thrown(args) :
        /\ outcome' = o
        /\ Prints(o, args)
        /\ regs' \in {regs} \cup IF o = "set_register_value"
                                THEN {SetValue(regs, RowOfName(args[3]), args[4])} ELSE {}
  BY DEF Run
<1>2. regs' = regs /\ relocated' = relocated
  BY <1>1 DEF Run
<1>3. \E f \in Functions : /\ ~VariablesThrow(f, regs, relocated)
                           /\ printed' = [of |-> f, text |-> read_variables(f, regs, relocated)]
  BY <1>1 DEF Prints, Resuming
<1> QED BY <1>2, <1>3

(***************************************************************************)
(* For any functions, with whatever entries: what is printed for a         *)
(* variable whose place is of one of these kinds is what the compiler      *)
(* means, through the table of registers and the evaluation of its         *)
(* location expression, after any writes to registers; and for an offset   *)
(* from the frame base, a constant or a variable of a thread nothing is.   *)
(***************************************************************************)
THEOREM VariablesAreShown == Spec => []VariablesShown
<1>1. Init => VariablesInv
  BY DEF Init, VariablesInv
<1>2. VariablesInv /\ [Next]_vars => VariablesInv'
  <2> SUFFICES ASSUME VariablesInv, [Next]_vars PROVE VariablesInv'
    OBVIOUS
  <2>1. CASE Run
    BY <2>1, RunPrintsVariables
  <2>2. CASE Next /\ ~Run
    BY <2>2, OnlyRunPrompts DEF VariablesInv
  <2>3. CASE UNCHANGED vars
    BY <2>3 DEF vars, terminalVars, VariablesInv, VariablesOf
  <2> QED BY <2>1, <2>2, <2>3
<1>3. ASSUME VariablesInv, outcome = "read_variables", at = "prompt",
             NEW i \in DOMAIN printed.text, Compiled(printed.of[i].place)
      PROVE  LET v == printed.of[i].place IN
               /\ v.kind \in {"register", "frame", "behind", "static"}
               /\ v.kind \in {"register", "frame"} \/ ~relocated => printed.text[i] = Meant(v)
  <2>1. PICK f \in Functions : ~VariablesThrow(f, regs, relocated) /\ printed = VariablesOf(f)
    BY <1>3 DEF VariablesInv
  <2>2. printed.of = f /\ printed.text = read_variables(f, regs, relocated)
    BY <2>1 DEF VariablesOf
  <2>3. i \in Placed(f)
    BY <1>3, <2>2 DEF read_variables
  <2> DEFINE r == evaluate(f[i].place.location, regs, relocated)
  <2>4. Locations(f, regs, relocated)[i] = r
    BY <2>3 DEF Locations
  <2> HIDE DEF r
  <2>5. ~Unhandled(r)
    BY <2>1, <2>3, <2>4 DEF VariablesThrow
  <2>6. printed.text[i] = ShownOf(r, regs)
    BY <2>2, <2>3, <2>4 DEF read_variables
  <2>7. Compiled(f[i].place)
    BY <1>3, <2>2
  <2> QED BY <2>2, <2>5, <2>6, <2>7, VariableShown DEF r
<1>4. VariablesInv => VariablesShown
  BY <1>3 DEF VariablesShown
<1> QED BY <1>1, <1>2, <1>4, PTL DEF Spec
=============================================================================
