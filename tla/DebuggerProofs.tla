--------------------------- MODULE DebuggerProofs ---------------------------
(***************************************************************************)
(* Proofs of the theorems about class debugger, for every program, every   *)
(* debug information and every user.                                       *)
(***************************************************************************)
EXTENDS DebuggerProperties, SequenceTheorems, TLAPS

-----------------------------------------------------------------------------
(* What the helpers return.                                                *)

\* The memory requests keep memory a function from addresses to bytes.
LEMMA PokeType ==
  ASSUME NEW m \in [Addr -> Byte], NEW d, NEW K,
         \A a \in K \cap Addr : d[a] \in Byte
  PROVE  Poke(m, d, K) \in [Addr -> Byte]
BY DEF Poke, Mapped

LEMMA EnabledType ==
  ASSUME NEW m \in [Addr -> Byte], NEW K
  PROVE  Enabled(m, K) \in [Addr -> Byte]
BY DEF Enabled, Poke, Byte, INT3

LEMMA DisabledType ==
  ASSUME NEW m \in [Addr -> Byte], NEW d \in [Key -> Byte], NEW K
  PROVE  Disabled(m, d, K) \in [Addr -> Byte]
BY PokeType, KeyAssumption DEF Disabled

LEMMA SavedType ==
  ASSUME NEW m \in [Addr -> Byte], NEW d \in [Key -> Byte], NEW K
  PROVE  Saved(m, d, K) \in [Key -> Byte]
BY DEF Saved, Peek, Mapped, Byte, BadByte

\* An instruction leaves registers behind.
LEMMA ExecutesType ==
  ASSUME NEW b, NEW c \in Cpu, NEW d, Executes(b, c, d)
  PROVE  d \in Cpu
<1> USE KeyAssumption, TargetAssumption
<1>1. c.rip \in Addr /\ c.rip + 1 \in Key /\ Target[c.rip] \subseteq Key
  BY DEF Executes, Cpu
<1>2. CASE b = "nop" /\ d = At(c, c.rip + 1)
  BY <1>1, <1>2 DEF At, Cpu
<1>3. CASE b = "jump" /\ \E t \in Target[c.rip] : d = At(c, t)
  BY <1>1, <1>3 DEF At, Cpu
<1>4. CASE b = "enter" /\ d = [At(c, c.rip + 1) EXCEPT !.linked = TRUE]
  BY <1>1, <1>4 DEF At, Cpu
<1>5. CASE b = "leave" /\ d = [At(c, c.rip + 1) EXCEPT !.linked = FALSE]
  BY <1>1, <1>5 DEF At, Cpu
<1>6. CASE /\ b = "call"
           /\ \E t \in Target[c.rip] :
                d = [rip |-> t, ret |-> <<c.rip + 1>> \o c.ret, linked |-> FALSE]
  <2>1. <<c.rip + 1>> \o c.ret \in Seq(Key)
    BY <1>1 DEF Cpu
  <2> QED BY <1>1, <1>6, <2>1 DEF Cpu
<1>7. CASE b = "ret" /\ c.ret # <<>>
           /\ d = [rip |-> Head(c.ret), ret |-> Tail(c.ret), linked |-> TRUE]
  <2>1. c.ret \in Seq(Key) /\ c.ret # <<>>
    BY <1>7 DEF Cpu
  <2>2. Head(c.ret) \in Key /\ Tail(c.ret) \in Seq(Key)
    BY <2>1
  <2> QED BY <1>7, <2>2 DEF Cpu
<1> QED BY <1>2, <1>3, <1>4, <1>5, <1>6, <1>7 DEF Executes

\* The return address read off the stack is an address.
LEMMA SavedReturnType ==
  ASSUME TypeOK
  PROVE  SavedReturn \in Key
<1>1. cpu.ret \in Seq(Key)
  BY DEF TypeOK, Cpu
<1>2. Chain \in Seq(Key)
  BY <1>1 DEF Chain, Chained
<1> QED BY <1>2, KeyAssumption DEF SavedReturn

\* Rows of the line table are found where the lookups look for them.
LEMMA RowFound ==
  ASSUME NEW pc \in Int, HasLine(pc)
  PROVE  Row(pc) \in Rows
BY DebugInfoAssumption DEF HasLine, Row

LEMMA BehindFound ==
  ASSUME NEW r \in Rows
  PROVE  RowAfter(r) \in Rows \cup {CuHigh}
BY DebugInfoAssumption DEF RowAfter

LEMMA FirstRow ==
  ASSUME NEW f \in Functions
  PROVE  Row(f.low) \in Rows
<1>1. f.low \in Rows /\ f.low \in CuLow .. CuHigh
  BY DebugInfoAssumption
<1>2. \E r \in Rows : IsRowOf(r, f.low)
  BY <1>1, DebugInfoAssumption
<1> QED BY <1>2 DEF Row

LEMMA BodyRowsAreRows ==
  ASSUME NEW name
  PROVE  BodyRows(name) \subseteq Rows \cup {CuHigh}
BY FirstRow, BehindFound DEF BodyRows

LEMMA LoadedType ==
  ASSUME m_load_address \in Loads, NEW R, R \subseteq Rows \cup {CuHigh}
  PROVE  {Loaded(r) : r \in R} \subseteq Key
BY DebuggerAssumption DEF Loaded

-----------------------------------------------------------------------------
(* How the process is resumed, from memory m and breakpoints B, all of     *)
(* them enabled.                                                           *)

\* What holds of the table while the process runs.
ResumedWith(B) ==
  /\ mem' \in [Addr -> Byte]
  /\ status' \in {"running", "stepping", "exited"}
  /\ addr_to_bp' = B
  /\ \/ at' \in {"cont", "single"} /\ m_enabled' = B /\ over' = NoAddr
     \/ at' = "over" /\ over' \in B /\ m_enabled' = B \ {over'}

LEMMA ResumeStep ==
  ASSUME NEW m \in [Addr -> Byte], NEW B, NEW where \in {"cont", "single"},
         NEW how \in {"running", "stepping"}, Resume(m, B, B, where, how)
  PROVE  ResumedWith(B)
BY DEF Resume, Resumed, ResumedWith

LEMMA StepOffStep ==
  ASSUME NEW m \in [Addr -> Byte], NEW B, NEW pc \in B,
         m_data' \in [Key -> Byte], StepOff(m, B, B, pc)
  PROVE  ResumedWith(B)
<1>1. Disabled(m, m_data', {pc}) \in [Addr -> Byte]
  BY DisabledType
<1> QED BY <1>1 DEF StepOff, Resumed, ResumedWith

LEMMA ContinueFromStep ==
  ASSUME NEW m \in [Addr -> Byte], NEW B, NEW pc,
         m_data' \in [Key -> Byte], ContinueFrom(m, B, B, pc)
  PROVE  ResumedWith(B)
<1>1. CASE pc \in B
  BY <1>1, StepOffStep DEF ContinueFrom
<1>2. CASE pc \notin B
  BY <1>2, ResumeStep DEF ContinueFrom
<1> QED BY <1>1, <1>2

LEMMA StepFromStep ==
  ASSUME NEW m \in [Addr -> Byte], NEW B, NEW pc,
         m_data' \in [Key -> Byte], StepFrom(m, B, B, pc)
  PROVE  ResumedWith(B)
<1>1. CASE pc \in B
  BY <1>1, StepOffStep DEF StepFrom
<1>2. CASE pc \notin B
  BY <1>2, ResumeStep DEF StepFrom
<1> QED BY <1>1, <1>2

\* The invariant holds whenever the process has just been resumed with the
\* user's breakpoints and the temporary ones.
LEMMA ResumedInv ==
  ASSUME IInv,
         ResumedWith(asked' \cup temp'), asked' \cap temp' = {},
         asked' \in SUBSET Key, temp' \in SUBSET Key,
         cmd' \in {"continue", "stepinst", "finish", "next", "step"},
         cmd' \in {"stepinst", "step"} => temp' = {},
         cpu' \in Cpu, m_data' \in [Key -> Byte], line' \in Nat, depth' \in Nat,
         m_load_address' = m_load_address, m_load_address \in Loads
  PROVE  IInv'
<1>1. addr_to_bp' \in SUBSET Key /\ m_enabled' \in SUBSET Key /\ over' \in Key
  BY KeyAssumption DEF ResumedWith
<1>2. TypeOK'
  BY <1>1 DEF ResumedWith, IInv, TypeOK, Status
<1>3. ControlInv'
  BY DEF ResumedWith, IInv, ControlInv, Running, Resuming, Blocked
<1>4. TableInv'
  BY DEF ResumedWith, TableInv, Resuming
<1> QED BY <1>2, <1>3, <1>4 DEF IInv

\* Two reports of waitpid: a trap is rewound, and anything else leaves the
\* registers as they are.
LEMMA RewoundType ==
  ASSUME IInv, Blocked
  PROVE  Rewound \in Cpu
<1>1. CASE status = "brkpt"
  <2>1. cpu.rip - 1 \in Key /\ cpu \in Cpu
    BY <1>1, KeyAssumption DEF IInv, ControlInv, TypeOK
  <2> QED BY <1>1, <2>1 DEF Rewound, At, Cpu
<1>2. CASE status # "brkpt"
  BY <1>2 DEF Rewound, IInv, TypeOK
<1> QED BY <1>1, <1>2

-----------------------------------------------------------------------------
(* The invariant, action by action.                                        *)

LEMMA InitInv ==
  ASSUME Init
  PROVE  IInv
<1> USE DEF Init, TraceeInit
<1>1. cpu \in Cpu
  BY KeyAssumption, TextAssumption DEF Cpu, Start
<1>2. mem \in [Addr -> Byte] /\ m_data \in [Key -> Byte]
  BY TextAssumption DEF NoData, Byte, BadByte
<1>3. TypeOK
  BY <1>1, <1>2, KeyAssumption DEF TypeOK, Status
<1>4. ControlInv
  BY DEF ControlInv, Running, Resuming, Blocked
<1>5. TableInv
  BY DEF TableInv, Resuming
<1> QED BY <1>3, <1>4, <1>5 DEF IInv

\* The steps of the process itself.
LEMMA TraceeInv ==
  ASSUME IInv, TraceeStep \/ SignalArrives, ProcessStep
  PROVE  IInv'
<1> USE DEF IInv
<1>1. /\ UNCHANGED <<addr_to_bp, m_enabled, m_data, m_load_address, at, cmd>>
      /\ UNCHANGED <<over, temp, line, asked, depth>>
  BY DEF ProcessStep, bpVars, ctlVars, history
<1>2. TableInv'
  BY <1>1 DEF TableInv, Resuming
<1>3. mem' = mem
  BY DEF TraceeStep, SignalArrives, ExecStop, ExecFail, Instruction, Trap, Fault, Exit
<1>4. cpu' \in Cpu /\ status' \in Status /\ ControlInv'
  <2>1. CASE ExecStop \/ ExecFail
    BY <1>1, <2>1 DEF ExecStop, ExecFail, TypeOK, Status, StopCause, ControlInv,
       Running, Resuming, Blocked
  <2>2. CASE Instruction
    <3>1. cpu' \in Cpu
      BY <2>2, ExecutesType DEF Instruction, TypeOK
    <3> QED BY <1>1, <2>2, <3>1 DEF Instruction, TypeOK, Status, StopCause, ControlInv,
            Running, Resuming, Blocked
  <2>3. CASE Trap
    <3>1. cpu.rip \in Addr /\ cpu \in Cpu
      BY <2>3 DEF Trap, Fetched, TypeOK, INT3, BadByte
    <3>2. cpu' \in Cpu /\ cpu'.rip = cpu.rip + 1 /\ cpu'.rip - 1 = cpu.rip
      BY <2>3, <3>1, KeyAssumption DEF Trap, At, Cpu
    <3> QED BY <1>1, <2>3, <3>1, <3>2 DEF Trap, TypeOK, Status, StopCause, ControlInv,
            Running, Resuming, Blocked
  <2>4. CASE Fault \/ Exit \/ SignalArrives
    BY <1>1, <2>4 DEF Fault, Exit, SignalArrives, TypeOK, Status, StopCause, ControlInv,
       Running, Resuming, Blocked
  <2> QED BY <2>1, <2>2, <2>3, <2>4 DEF TraceeStep
<1>5. TypeOK'
  BY <1>1, <1>3, <1>4 DEF TypeOK
<1> QED BY <1>2, <1>4, <1>5

\* Breakpoints at addresses K, set from the prompt.
LEMMA UserAddsInv ==
  ASSUME IInv, at = "prompt", NEW K, K \subseteq Key, UserAdds(K)
  PROVE  IInv'
<1> USE DEF IInv
<1>1. /\ UNCHANGED <<cpu, status, m_load_address, at, cmd, over, temp, line, depth>>
      /\ asked' = asked \cup K
      /\ addr_to_bp' = addr_to_bp \cup K /\ m_enabled' = m_enabled \cup K
  BY DEF UserAdds, AtOnce, ctlVars, AddBreakpoints
<1>2. mem' \in [Addr -> Byte] /\ m_data' \in [Key -> Byte]
  BY EnabledType, SavedType DEF UserAdds, AddBreakpoints, TypeOK
<1>3. TypeOK'
  BY <1>1, <1>2 DEF TypeOK
<1>4. ControlInv'
  BY <1>1 DEF ControlInv, Running, Resuming, Blocked
<1>5. TableInv'
  BY <1>1 DEF TableInv, Resuming
<1> QED BY <1>3, <1>4, <1>5

LEMMA BreakInv ==
  ASSUME IInv, NEW a \in BreakAt, BreakAddress(a)
  PROVE  IInv'
BY UserAddsInv, DebuggerAssumption DEF BreakAddress, Prompt

LEMMA BreakFunctionInv ==
  ASSUME IInv, NEW f \in Functions, BreakFunction(f.name)
  PROVE  IInv'
<1>1. at = "prompt" /\ m_load_address \in Loads
  BY DEF BreakFunction, Prompt, IInv, ControlInv
<1>2. {Loaded(r) : r \in BodyRows(f.name)} \subseteq Key
  BY <1>1, BodyRowsAreRows, LoadedType
<1> QED BY <1>1, <1>2, UserAddsInv DEF BreakFunction

LEMMA BreakLineInv ==
  ASSUME IInv, NEW n \in SourceLines, BreakLine(n)
  PROVE  IInv'
<1>1. at = "prompt" /\ m_load_address \in Loads
  BY DEF BreakLine, Prompt, IInv, ControlInv
<1>2. RowsForLine(n) \subseteq Rows \cup {CuHigh}
  BY DEF RowsForLine
<1>3. {Loaded(r) : r \in RowsForLine(n)} \subseteq Key
  BY <1>1, <1>2, LoadedType
<1> QED BY <1>1, <1>3, UserAddsInv DEF BreakLine

\* The user's writes to registers and memory.
LEMMA WriteInv ==
  ASSUME IInv, \/ \E t \in JumpTo  : RegisterWrite(t)
               \/ \E w \in Patches : MemoryWrite(w)
  PROVE  IInv'
<1> USE DEF IInv
<1>1. /\ at = "prompt"
      /\ UNCHANGED <<status, addr_to_bp, m_enabled, m_data, m_load_address>>
      /\ UNCHANGED <<at, cmd, over, temp, line, asked, depth>>
  BY DEF RegisterWrite, MemoryWrite, Prompt, AtOnce, bpVars, ctlVars
<1>2. mem' \in [Addr -> Byte] /\ cpu' \in Cpu
  <2>1. CASE \E t \in JumpTo : RegisterWrite(t)
    BY <2>1, DebuggerAssumption DEF RegisterWrite, TypeOK, At, Cpu
  <2>2. CASE \E w \in Patches : MemoryWrite(w)
    <3>1. PICK w \in Patches : MemoryWrite(w)
      BY <2>2
    <3>2. Poke(mem, w, DOMAIN w) \in [Addr -> Byte]
      BY PokeType, DebuggerAssumption DEF TypeOK
    <3> QED BY <3>1, <3>2 DEF MemoryWrite, TypeOK
  <2> QED BY <2>1, <2>2
<1>3. TypeOK'
  BY <1>1, <1>2 DEF TypeOK
<1>4. ControlInv'
  BY <1>1 DEF ControlInv, Running, Resuming, Blocked
<1>5. TableInv'
  BY <1>1 DEF TableInv, Resuming
<1> QED BY <1>3, <1>4, <1>5

\* The end of the debugger.
LEMMA DiesInv ==
  ASSUME IInv, Dies, ~Running, status # "starting",
         cpu' \in Cpu, mem' \in [Addr -> Byte], m_enabled' \in SUBSET Key,
         m_data' \in [Key -> Byte],
         UNCHANGED <<status, addr_to_bp, m_load_address, over, temp, line, history>>
  PROVE  IInv'
<1> USE DEF IInv, Dies, history
<1>1. TypeOK'
  BY DEF TypeOK
<1>2. ControlInv'
  BY DEF ControlInv, Running, Resuming, Blocked
<1>3. TableInv'
  BY DEF TableInv, Resuming
<1> QED BY <1>1, <1>2, <1>3

LEMMA PromptDiesInv ==
  ASSUME IInv, BreakData \/ LookupThrows \/ Quit
  PROVE  IInv'
<1>1. /\ at = "prompt" /\ Dies
      /\ UNCHANGED <<mem, cpu, status, bpVars, m_load_address, over, temp, line, history>>
  BY DEF BreakData, LookupThrows, Quit, Prompt, traceeVars
<1>2. ~Running /\ status # "starting"
  BY <1>1 DEF IInv, ControlInv, Resuming
<1> QED BY <1>1, <1>2, DiesInv DEF bpVars, IInv, TypeOK

\* Commands that resume the process.
LEMMA DepthType ==
  ASSUME IInv, NEW c, Issue(c)
  PROVE  depth' \in Nat
BY DEF Issue, IInv, TypeOK, Cpu

LEMMA ContinueInv ==
  ASSUME IInv, Continue
  PROVE  IInv'
<1> USE DEF IInv
<1>1. /\ at = "prompt" /\ cmd' = "continue" /\ depth' \in Nat
      /\ UNCHANGED <<m_data, cpu, m_load_address, temp, line, asked>>
  BY DepthType DEF Continue, Prompt, Issue
<1>2. m_enabled = addr_to_bp /\ addr_to_bp = asked \cup temp /\ temp = {}
      /\ m_load_address \in Loads
  BY <1>1 DEF TableInv, ControlInv
<1>3. ResumedWith(addr_to_bp)
  BY <1>1, <1>2, ContinueFromStep DEF Continue, TypeOK
<1> QED BY <1>1, <1>2, <1>3, ResumedInv DEF TypeOK

LEMMA StepinstInv ==
  ASSUME IInv, Stepinst \/ StepIn
  PROVE  IInv'
<1> USE DEF IInv
<1>1. /\ at = "prompt" /\ cmd' \in {"stepinst", "step"} /\ depth' \in Nat
      /\ UNCHANGED <<m_data, cpu, m_load_address, temp, asked>>
  BY DepthType DEF Stepinst, StepIn, Prompt, Issue
<1>2. m_enabled = addr_to_bp /\ addr_to_bp = asked \cup temp /\ temp = {}
      /\ m_load_address \in Loads
  BY <1>1 DEF TableInv, ControlInv
<1>3. ResumedWith(addr_to_bp)
  BY <1>1, <1>2, StepFromStep DEF Stepinst, StepIn, TypeOK
<1>4. line' \in Nat
  <2>1. ASSUME NEW pc \in ProgramCounter(cpu), HasLine(Offset(pc))
        PROVE  LineAt(Offset(pc)) \in Nat
    <3>1. Offset(pc) \in Int
      BY KeyAssumption, DebuggerAssumption DEF ProgramCounter, TypeOK, Cpu, Offset, Loads
    <3> QED BY <2>1, <3>1, RowFound, DebugInfoAssumption DEF LineAt
  <2> QED BY <2>1 DEF Stepinst, StepIn, TypeOK
<1> QED BY <1>1, <1>2, <1>3, <1>4, ResumedInv DEF TypeOK

LEMMA FinishInv ==
  ASSUME IInv, Finish \/ StepOver
  PROVE  IInv'
<1> USE DEF IInv
<1>1. /\ at = "prompt" /\ cmd' \in {"finish", "next"} /\ depth' \in Nat
      /\ UNCHANGED <<cpu, m_load_address, line, asked>>
  BY DepthType DEF Finish, StepOver, Prompt, Issue
<1>2. m_enabled = addr_to_bp /\ addr_to_bp = asked /\ m_load_address \in Loads
  BY <1>1 DEF TableInv, ControlInv
<1>3. PICK K, pc : /\ K \subseteq Key
                   /\ temp' = Missing(K)
                   /\ m_data' = Saved(mem, m_data, temp')
                   /\ ContinueFrom(Enabled(mem, temp'), addr_to_bp \cup temp',
                                   m_enabled \cup temp', pc)
  <2>1. SavedReturn \in Key
    BY SavedReturnType
  <2>2. CASE Finish
    BY <2>1, <2>2 DEF Finish
  <2>3. CASE StepOver
    <3>1. PICK pc : LET rows == RowsOf(FunctionAt(Offset(pc))) \ {Row(Offset(pc))} IN
             /\ temp' = Missing({Loaded(r) : r \in rows} \cup {SavedReturn})
             /\ m_data' = Saved(mem, m_data, temp')
             /\ ContinueFrom(Enabled(mem, temp'), addr_to_bp \cup temp',
                             m_enabled \cup temp', pc)
      BY <2>3 DEF StepOver
    <3> DEFINE rows == RowsOf(FunctionAt(Offset(pc))) \ {Row(Offset(pc))}
    <3>2. rows \subseteq Rows \cup {CuHigh}
      BY DEF RowsOf
    <3>3. {Loaded(r) : r \in rows} \subseteq Key
      BY <1>2, <3>2, LoadedType
    <3> QED BY <2>1, <3>1, <3>3
  <2> QED BY <2>2, <2>3
<1>4. temp' \in SUBSET Key /\ asked' \cap temp' = {}
  BY <1>1, <1>2, <1>3 DEF Missing
<1>5. m_data' \in [Key -> Byte] /\ Enabled(mem, temp') \in [Addr -> Byte]
  BY <1>3, SavedType, EnabledType DEF TypeOK
<1>6. ResumedWith(asked' \cup temp')
  BY <1>1, <1>2, <1>3, <1>5, ContinueFromStep
<1> QED BY <1>1, <1>2, <1>4, <1>5, <1>6, ResumedInv DEF TypeOK

-----------------------------------------------------------------------------
(* What a command does when waitpid returns.                               *)

LEMMA LaunchInv ==
  ASSUME IInv, Launch
  PROVE  IInv'
<1> USE DEF IInv
<1>1. /\ at = "launch" /\ Reported /\ cpu' = Rewound
      /\ UNCHANGED <<mem, status, addr_to_bp, m_enabled, m_data>>
      /\ UNCHANGED <<cmd, over, temp, line, asked, depth>>
  BY DEF Launch, WaitReturns, WaitThrows, bpVars, history
<1>2. cpu' \in Cpu /\ ~Running /\ status # "starting"
  BY <1>1, RewoundType DEF Reported, Running, Stopped, Dead, StopCause
<1>3. /\ m_load_address' \in Loads \cup LoadGarbage
      /\ at' \in {"gone", "prompt"}
      /\ at' = "prompt" => m_load_address' \in Loads
  <2>1. m_load_address \in Loads \cup LoadGarbage
    BY DEF TypeOK
  <2>2. CASE at' = "prompt" /\ m_load_address' = IF Dyn THEN Base ELSE m_load_address
    BY <2>1, <2>2 DEF Loads
  <2>3. CASE at' = "gone" /\ m_load_address' = m_load_address
    BY <2>1, <2>3
  <2> QED BY <2>2, <2>3 DEF Launch
<1>4. TypeOK'
  BY <1>1, <1>2, <1>3 DEF TypeOK
<1>5. ControlInv'
  BY <1>1, <1>2, <1>3 DEF ControlInv, Running, Blocked
<1>6. TableInv'
  BY <1>1, <1>3 DEF TableInv, Resuming
<1> QED BY <1>4, <1>5, <1>6

\* Where every wait but the first one starts from.
LEMMA Waited ==
  ASSUME IInv, Resuming, WaitReturns \/ WaitThrows
  PROVE  /\ cpu' \in Cpu /\ ~Running /\ status # "starting"
         /\ m_load_address \in Loads
         /\ addr_to_bp = asked \cup temp /\ asked \cap temp = {}
<1>1. Blocked /\ Reported /\ cpu' = Rewound
  BY DEF Resuming, Blocked, WaitReturns, WaitThrows
<1> QED BY <1>1, RewoundType DEF Reported, Running, Stopped, Dead, StopCause, IInv,
        ControlInv, TableInv, Resuming

LEMMA HandlerThrowsInv ==
  ASSUME IInv, HandlerThrows
  PROVE  IInv'
<1>1. Resuming
  BY DEF HandlerThrows, WaitThrows, Reported, Blocked, Resuming
<1> QED BY <1>1, Waited, DiesInv DEF HandlerThrows, bpVars, IInv, TypeOK

LEMMA ContinueReturnsInv ==
  ASSUME IInv, ContinueReturns
  PROVE  IInv'
<1> USE DEF IInv
<1>1. /\ at = "cont" /\ at' = "prompt" /\ cmd' = "none"
      /\ over' = NoAddr /\ temp' = {} /\ line' = 0
      /\ addr_to_bp' = addr_to_bp \ temp /\ m_enabled' = m_enabled \ temp
      /\ UNCHANGED <<status, m_load_address, asked, depth>>
  BY DEF ContinueReturns, Idle, history
<1>2. /\ cpu' \in Cpu /\ ~Running /\ status # "starting" /\ m_load_address \in Loads
      /\ addr_to_bp = asked \cup temp /\ asked \cap temp = {}
  BY <1>1, Waited DEF ContinueReturns, Resuming
<1>3. mem' \in [Addr -> Byte] /\ m_data' \in [Key -> Byte]
  BY DisabledType DEF ContinueReturns, TypeOK, Erased, Byte, BadByte
<1>4. TypeOK'
  BY <1>1, <1>2, <1>3, KeyAssumption DEF TypeOK
<1>5. ControlInv'
  BY <1>1, <1>2 DEF ControlInv, Running, Blocked
<1>6. TableInv'
  BY <1>1, <1>2 DEF TableInv, Resuming
<1> QED BY <1>4, <1>5, <1>6

LEMMA StepReturnsInv ==
  ASSUME IInv, Resuming, NEW m \in [Addr -> Byte], NEW pc,
         cpu' \in Cpu, ~Running, status # "starting", m_load_address \in Loads,
         addr_to_bp = asked \cup temp, asked \cap temp = {},
         m_data' \in [Key -> Byte], UNCHANGED <<m_load_address, history>>,
         StepReturns(m, addr_to_bp, pc)
  PROVE  IInv'
<1> USE DEF IInv
<1>1. UNCHANGED <<m_load_address, asked, depth>>
  BY DEF history
<1>2. cmd \in {"stepinst", "step"} /\ temp = {}
  BY DEF StepReturns, TableInv
<1>3. CASE /\ mem' = m /\ m_enabled' = addr_to_bp
           /\ UNCHANGED <<addr_to_bp, status>>
           /\ Dies /\ UNCHANGED <<over, temp, line>>
  BY <1>1, <1>3, DiesInv DEF TypeOK
<1>4. CASE /\ mem' = m /\ m_enabled' = addr_to_bp
           /\ UNCHANGED <<addr_to_bp, status>>
           /\ Idle
  <2>1. TypeOK'
    BY <1>1, <1>4, KeyAssumption DEF Idle, TypeOK
  <2>2. ControlInv'
    BY <1>1, <1>4 DEF Idle, ControlInv, Running, Blocked
  <2>3. TableInv'
    BY <1>1, <1>2, <1>4 DEF Idle, TableInv, Resuming
  <2> QED BY <2>1, <2>2, <2>3
<1>5. CASE StepFrom(m, addr_to_bp, addr_to_bp, pc) /\ UNCHANGED <<cmd, temp, line>>
  <2>1. ResumedWith(addr_to_bp)
    BY <1>5, StepFromStep
  <2> QED BY <1>1, <1>2, <1>5, <2>1, ResumedInv DEF TypeOK
<1> QED BY <1>3, <1>4, <1>5 DEF StepReturns, Halt

LEMMA SingleStepReturnsInv ==
  ASSUME IInv, SingleStepReturns
  PROVE  IInv'
<1>1. Resuming /\ m_enabled = addr_to_bp
  BY DEF SingleStepReturns, Resuming, IInv, TableInv
<1>2. /\ cpu' \in Cpu /\ ~Running /\ status # "starting" /\ m_load_address \in Loads
      /\ addr_to_bp = asked \cup temp /\ asked \cap temp = {}
  BY <1>1, Waited DEF SingleStepReturns
<1> QED BY <1>1, <1>2, StepReturnsInv DEF SingleStepReturns, IInv, TypeOK

LEMMA StepOffReturnsInv ==
  ASSUME IInv, StepOffReturns
  PROVE  IInv'
<1> USE DEF IInv
<1>1. Resuming /\ over \in addr_to_bp /\ m_enabled \cup {over} = addr_to_bp
  BY DEF StepOffReturns, Resuming, TableInv
<1>2. /\ cpu' \in Cpu /\ ~Running /\ status # "starting" /\ m_load_address \in Loads
      /\ addr_to_bp = asked \cup temp /\ asked \cap temp = {}
  BY <1>1, Waited DEF StepOffReturns
<1>3. m_data' \in [Key -> Byte] /\ Enabled(mem, {over}) \in [Addr -> Byte]
  BY SavedType, EnabledType DEF StepOffReturns, TypeOK
<1>4. CASE /\ cmd \in {"continue", "finish", "next"}
           /\ Resume(Enabled(mem, {over}), addr_to_bp, addr_to_bp, "cont", "running")
           /\ UNCHANGED <<cmd, temp, line>>
  <2>1. ResumedWith(addr_to_bp)
    BY <1>3, <1>4, ResumeStep
  <2>2. UNCHANGED <<m_load_address, asked, depth>>
    BY DEF StepOffReturns, history
  <2> QED BY <1>2, <1>3, <1>4, <2>1, <2>2, ResumedInv DEF TypeOK
<1>5. CASE \E pc \in ProgramCounter(cpu') : StepReturns(Enabled(mem, {over}), addr_to_bp, pc)
  BY <1>1, <1>2, <1>3, <1>5, StepReturnsInv DEF StepOffReturns
<1> QED BY <1>1, <1>4, <1>5 DEF StepOffReturns

-----------------------------------------------------------------------------
(* The theorems.                                                           *)

LEMMA NextInv ==
  ASSUME IInv, [Next]_vars
  PROVE  IInv'
<1>1. CASE (TraceeStep \/ SignalArrives) /\ ProcessStep
  BY <1>1, TraceeInv
<1>2. CASE UserStep
  BY <1>2, ContinueInv, StepinstInv, FinishInv, BreakInv, BreakFunctionInv,
     BreakLineInv, WriteInv, PromptDiesInv DEF UserStep
<1>3. CASE DebuggerReturns
  BY <1>3, LaunchInv, HandlerThrowsInv, StepOffReturnsInv, SingleStepReturnsInv,
     ContinueReturnsInv DEF DebuggerReturns
<1>4. CASE UNCHANGED vars
  BY <1>4 DEF vars, traceeVars, bpVars, ctlVars, history, IInv, TypeOK, ControlInv,
     TableInv, Running, Resuming, Blocked, Start
<1> QED BY <1>1, <1>2, <1>3, <1>4 DEF Next

(***************************************************************************)
(* The table of breakpoints and the waitpid the debugger is in agree in    *)
(* every reachable state.                                                  *)
(***************************************************************************)
THEOREM Invariance == Spec => []IInv
BY InitInv, NextInv, PTL DEF Spec

(***************************************************************************)
(* Every variable keeps its type, whatever the program, the debug          *)
(* information and the user do.                                            *)
(***************************************************************************)
THEOREM TypeCorrect == Spec => []TypeOK
<1>1. IInv => TypeOK
  BY DEF IInv
<1> QED BY <1>1, Invariance, PTL

(***************************************************************************)
(* At the prompt the table holds the user's breakpoints and no others, all *)
(* enabled: no command leaves a temporary breakpoint behind or takes one   *)
(* of the user's with it.                                                  *)
(***************************************************************************)
THEOREM TableCorrect == Spec => []TableAsAsked
<1>1. IInv => TableAsAsked
  BY DEF IInv, TableInv, TableAsAsked
<1> QED BY <1>1, Invariance, PTL

-----------------------------------------------------------------------------
(* The text behind the traps.                                              *)

Planted(m, E) == \A k \in E \cap Addr : m[k] = INT3

LEMMA PokeAt ==
  ASSUME ~Dead, NEW m \in [Addr -> Byte], NEW d, NEW K, NEW a \in Addr
  PROVE  Poke(m, d, K)[a] = IF a \in K THEN d[a] ELSE m[a]
BY DEF Poke, Mapped

\* Breakpoints enabled where none were: the text behind the traps is the same.
LEMMA EnabledSeen ==
  ASSUME ~Dead, NEW m \in [Addr -> Byte], NEW d \in [Key -> Byte],
         NEW E, NEW K, Planted(m, E), K \cap E = {}
  PROVE  /\ Planted(Enabled(m, K), E \cup K)
         /\ SeenIn(Enabled(m, K), E \cup K, Saved(m, d, K)) = SeenIn(m, E, d)
<1>1. ASSUME NEW a \in Addr
      PROVE  Enabled(m, K)[a] = IF a \in K THEN INT3 ELSE m[a]
  BY PokeAt DEF Enabled
<1>2. ASSUME NEW a \in Addr
      PROVE  Saved(m, d, K)[a] = IF a \in K THEN m[a] ELSE d[a]
  BY KeyAssumption DEF Saved, Peek, Mapped
<1>3. Planted(Enabled(m, K), E \cup K)
  BY <1>1 DEF Planted
<1>4. ASSUME NEW a \in Addr
      PROVE  (IF a \in E \cup K THEN Saved(m, d, K)[a] ELSE Enabled(m, K)[a])
               = (IF a \in E THEN d[a] ELSE m[a])
  BY <1>1, <1>2
<1>5. SeenIn(Enabled(m, K), E \cup K, Saved(m, d, K)) = SeenIn(m, E, d)
  BY <1>4 DEF SeenIn
<1> QED BY <1>3, <1>5

\* Enabled breakpoints disabled: the text behind the traps is the same.
LEMMA DisabledSeen ==
  ASSUME ~Dead, NEW m \in [Addr -> Byte], NEW d \in [Key -> Byte],
         NEW E, NEW K, Planted(m, E)
  PROVE  /\ Planted(Disabled(m, d, K \cap E), E \ K)
         /\ SeenIn(Disabled(m, d, K \cap E), E \ K, d) = SeenIn(m, E, d)
<1>1. ASSUME NEW a \in Addr
      PROVE  Disabled(m, d, K \cap E)[a] = IF a \in K \cap E THEN d[a] ELSE m[a]
  BY PokeAt DEF Disabled
<1>2. Planted(Disabled(m, d, K \cap E), E \ K)
  BY <1>1 DEF Planted
<1>3. ASSUME NEW a \in Addr
      PROVE  (IF a \in E \ K THEN d[a] ELSE Disabled(m, d, K \cap E)[a])
               = (IF a \in E THEN d[a] ELSE m[a])
  BY <1>1
<1>4. SeenIn(Disabled(m, d, K \cap E), E \ K, d) = SeenIn(m, E, d)
  BY <1>3 DEF SeenIn
<1> QED BY <1>2, <1>4

\* What a step has to do to be invisible to the program.
Unseen(m, E, d) ==
  ~Dead => /\ ~Dead'
           /\ Planted(m, E) => /\ Planted(mem', m_enabled')
                               /\ SeenIn(mem', m_enabled', m_data') = SeenIn(m, E, d)

LEMMA ResumeUnseen ==
  ASSUME NEW m, NEW B, NEW where, NEW how \in {"running", "stepping"},
         Resume(m, B, B, where, how)
  PROVE  Unseen(m, B, m_data')
BY DEF Unseen, Resume, Resumed, Dead

LEMMA StepOffUnseen ==
  ASSUME NEW m \in [Addr -> Byte], NEW B, NEW pc \in B,
         m_data' \in [Key -> Byte], StepOff(m, B, B, pc)
  PROVE  Unseen(m, B, m_data')
<1>1. SUFFICES ASSUME ~Dead
               PROVE  Unseen(m, B, m_data')
  BY DEF Unseen
<1>2. {pc} \cap B = {pc}
  OBVIOUS
<1>3. /\ mem' = Disabled(m, m_data', {pc} \cap B) /\ m_enabled' = B \ {pc}
      /\ ~Dead'
  BY <1>1, <1>2 DEF StepOff, Resumed, Dead
<1> QED BY <1>1, <1>3, DisabledSeen DEF Unseen

LEMMA ContinueFromUnseen ==
  ASSUME NEW m \in [Addr -> Byte], NEW B, NEW pc, m_data' \in [Key -> Byte],
         ContinueFrom(m, B, B, pc) \/ StepFrom(m, B, B, pc)
  PROVE  Unseen(m, B, m_data')
<1>1. CASE pc \in B
  BY <1>1, StepOffUnseen DEF ContinueFrom, StepFrom
<1>2. CASE pc \notin B
  BY <1>2, ResumeUnseen DEF ContinueFrom, StepFrom
<1> QED BY <1>1, <1>2

(***************************************************************************)
(* A step the program cannot tell from no step at all.                     *)
(***************************************************************************)
Invisible == /\ Unseen(mem, m_enabled, m_data)
             /\ Dead => Dead'
             /\ CpuSeen' = CpuSeen

LEMMA UnchangedUnseen ==
  ASSUME UNCHANGED <<mem, m_enabled, m_data>>, Dead' <=> Dead
  PROVE  Unseen(mem, m_enabled, m_data) /\ (Dead => Dead')
BY DEF Unseen

\* The registers as the program sees them, when a command resumes it ...
LEMMA CpuSeenResumed ==
  ASSUME NEW B, ResumedWith(B),
         \/ ~Blocked /\ cpu' = cpu
         \/ Blocked /\ cpu' = Rewound
  PROVE  CpuSeen' = CpuSeen
<1>1. status' # "brkpt"
  BY DEF ResumedWith
<1>2. Rewound' = cpu'
  BY <1>1 DEF Rewound
<1> QED BY <1>2 DEF CpuSeen

\* ... and when a wait returns and the process stays stopped.
LEMMA CpuSeenStopped ==
  ASSUME ~Blocked', \/ ~Blocked /\ cpu' = cpu
                    \/ Blocked /\ cpu' = Rewound
  PROVE  CpuSeen' = CpuSeen
BY DEF CpuSeen

LEMMA ResumedDead ==
  ASSUME NEW m, NEW B, NEW pc, NEW where, NEW how,
         ContinueFrom(m, B, B, pc) \/ StepFrom(m, B, B, pc) \/ Resume(m, B, B, where, how)
  PROVE  Dead => Dead'
BY DEF ContinueFrom, StepFrom, StepOff, Resume, Resumed, Dead

LEMMA ContinueInvisible ==
  ASSUME IInv, Continue \/ Stepinst \/ StepIn
  PROVE  Invisible
<1>1. /\ at = "prompt" /\ UNCHANGED <<m_data, cpu>> /\ m_enabled = addr_to_bp
      /\ mem \in [Addr -> Byte] /\ m_data' \in [Key -> Byte]
  BY DEF Continue, Stepinst, StepIn, Prompt, IInv, TableInv, TypeOK
<1>2. PICK pc : \/ ContinueFrom(mem, m_enabled, m_enabled, pc)
                \/ StepFrom(mem, m_enabled, m_enabled, pc)
  BY <1>1 DEF Continue, Stepinst, StepIn
<1>3. Unseen(mem, m_enabled, m_data) /\ (Dead => Dead')
  BY <1>1, <1>2, ContinueFromUnseen, ResumedDead
<1>4. ResumedWith(m_enabled)
  BY <1>1, <1>2, ContinueFromStep, StepFromStep
<1>5. CpuSeen' = CpuSeen
  BY <1>1, <1>4, CpuSeenResumed DEF Blocked
<1> QED BY <1>3, <1>5 DEF Invisible

LEMMA FinishInvisible ==
  ASSUME IInv, Finish \/ StepOver
  PROVE  Invisible
<1>1. /\ at = "prompt" /\ UNCHANGED cpu /\ m_enabled = addr_to_bp
      /\ mem \in [Addr -> Byte] /\ m_data \in [Key -> Byte]
  BY DEF Finish, StepOver, Prompt, IInv, TableInv, TypeOK
<1>2. PICK K, pc : /\ temp' = Missing(K)
                   /\ m_data' = Saved(mem, m_data, temp')
                   /\ ContinueFrom(Enabled(mem, temp'), addr_to_bp \cup temp',
                                   m_enabled \cup temp', pc)
  BY DEF Finish, StepOver
<1> DEFINE B == m_enabled \cup temp'
           m == Enabled(mem, temp')
<1>3. /\ temp' \cap m_enabled = {}
      /\ m \in [Addr -> Byte] /\ m_data' \in [Key -> Byte]
      /\ ContinueFrom(m, B, B, pc)
  BY <1>1, <1>2, EnabledType, SavedType DEF Missing
<1>4. Unseen(m, B, m_data') /\ (Dead => Dead') /\ ResumedWith(B)
  <2> HIDE DEF m, B
  <2> QED BY <1>3, ContinueFromUnseen, ContinueFromStep, ResumedDead
<1>5. ~Dead /\ Planted(mem, m_enabled) =>
        /\ Planted(m, B)
        /\ SeenIn(m, B, m_data') = SeenIn(mem, m_enabled, m_data)
  BY <1>1, <1>2, <1>3, EnabledSeen
<1>6. Unseen(mem, m_enabled, m_data)
  <2> HIDE DEF m, B
  <2> QED BY <1>4, <1>5 DEF Unseen
<1>7. CpuSeen' = CpuSeen
  BY <1>1, <1>4, CpuSeenResumed DEF Blocked
<1> QED BY <1>4, <1>6, <1>7 DEF Invisible

LEMMA PromptDiesInvisible ==
  ASSUME IInv, BreakData \/ LookupThrows \/ Quit
  PROVE  Invisible
<1>1. /\ at = "prompt" /\ at' = "gone"
      /\ UNCHANGED <<mem, cpu, status, m_enabled, m_data>>
  BY DEF BreakData, LookupThrows, Quit, Prompt, Dies, traceeVars, bpVars
<1>2. Unseen(mem, m_enabled, m_data) /\ (Dead => Dead')
  BY <1>1, UnchangedUnseen DEF Dead
<1>3. CpuSeen' = CpuSeen
  BY <1>1, CpuSeenStopped DEF Blocked
<1> QED BY <1>2, <1>3 DEF Invisible

LEMMA LaunchInvisible ==
  ASSUME IInv, Launch \/ HandlerThrows
  PROVE  Invisible
<1>1. /\ Blocked /\ at' \in {"prompt", "gone"} /\ cpu' = Rewound
      /\ UNCHANGED <<mem, status, m_enabled, m_data>>
  BY DEF Launch, HandlerThrows, WaitReturns, WaitThrows, Reported, Dies, bpVars
<1>2. Unseen(mem, m_enabled, m_data) /\ (Dead => Dead')
  BY <1>1, UnchangedUnseen DEF Dead
<1>3. CpuSeen' = CpuSeen
  BY <1>1, CpuSeenStopped DEF Blocked
<1> QED BY <1>2, <1>3 DEF Invisible

LEMMA ContinueReturnsInvisible ==
  ASSUME IInv, ContinueReturns
  PROVE  Invisible
<1>1. /\ Blocked /\ at' = "prompt" /\ cpu' = Rewound /\ status' = status
      /\ mem' = Disabled(mem, m_data, temp \cap m_enabled)
      /\ m_enabled' = m_enabled \ temp
      /\ m_data' = Erased(m_data, temp)
  BY DEF ContinueReturns, WaitReturns, Reported, Idle
<1>2. mem \in [Addr -> Byte] /\ m_data \in [Key -> Byte]
  BY DEF IInv, TypeOK
<1>3. SeenIn(mem', m_enabled', m_data') = SeenIn(mem', m_enabled', m_data)
  <2>1. ASSUME NEW a \in Addr, a \in m_enabled'
        PROVE  m_data'[a] = m_data[a]
    BY <1>1, <2>1, KeyAssumption DEF Erased
  <2> QED BY <2>1 DEF SeenIn
<1>4. Unseen(mem, m_enabled, m_data) /\ (Dead => Dead')
  <2>1. ~Dead /\ Planted(mem, m_enabled) =>
          /\ Planted(mem', m_enabled')
          /\ SeenIn(mem', m_enabled', m_data) = SeenIn(mem, m_enabled, m_data)
    BY <1>1, <1>2, DisabledSeen
  <2> QED BY <1>1, <1>3, <2>1 DEF Unseen, Dead
<1>5. CpuSeen' = CpuSeen
  BY <1>1, CpuSeenStopped DEF Blocked
<1> QED BY <1>4, <1>5 DEF Invisible

\* The rest of a step command, once memory is m and B is enabled.
LEMMA StepReturnsInvisible ==
  ASSUME IInv, NEW m \in [Addr -> Byte], NEW B, NEW pc, B = addr_to_bp,
         Blocked, cpu' = Rewound, m_data' \in [Key -> Byte], StepReturns(m, B, pc)
  PROVE  Unseen(m, B, m_data') /\ (Dead => Dead') /\ CpuSeen' = CpuSeen
<1>1. CASE mem' = m /\ m_enabled' = B /\ status' = status /\ at' \in {"prompt", "gone"}
  BY <1>1, CpuSeenStopped DEF Unseen, Dead, Blocked
<1>2. CASE StepFrom(m, B, B, pc)
  <2>1. ResumedWith(B)
    BY <1>2, StepFromStep
  <2> QED BY <1>2, <2>1, ContinueFromUnseen, ResumedDead, CpuSeenResumed
<1> QED BY <1>1, <1>2 DEF StepReturns, Halt, Idle, Dies

LEMMA SingleStepReturnsInvisible ==
  ASSUME IInv, SingleStepReturns
  PROVE  Invisible
<1>1. /\ Blocked /\ cpu' = Rewound /\ m_enabled = addr_to_bp
      /\ mem \in [Addr -> Byte] /\ m_data' \in [Key -> Byte] /\ m_data' = m_data
  BY DEF SingleStepReturns, WaitReturns, Reported, IInv, TableInv, TypeOK
<1>2. PICK pc : StepReturns(mem, m_enabled, pc)
  BY DEF SingleStepReturns
<1> QED BY <1>1, <1>2, StepReturnsInvisible DEF Invisible

LEMMA StepOffReturnsInvisible ==
  ASSUME IInv, StepOffReturns
  PROVE  Invisible
<1> DEFINE m == Enabled(mem, {over})
           B == m_enabled \cup {over}
<1>1. /\ Blocked /\ cpu' = Rewound /\ B = addr_to_bp /\ {over} \cap m_enabled = {}
      /\ mem \in [Addr -> Byte] /\ m_data \in [Key -> Byte]
      /\ m_data' = Saved(mem, m_data, {over})
  BY DEF StepOffReturns, WaitReturns, Reported, IInv, TableInv, TypeOK
<1>2. m \in [Addr -> Byte] /\ m_data' \in [Key -> Byte]
  BY <1>1, EnabledType, SavedType
<1>3. \/ Resume(m, B, B, "cont", "running")
      \/ \E pc : StepReturns(m, B, pc)
  BY <1>1 DEF StepOffReturns
<1>4. Unseen(m, B, m_data') /\ (Dead => Dead') /\ CpuSeen' = CpuSeen
  <2> HIDE DEF m, B
  <2>1. CASE Resume(m, B, B, "cont", "running")
    <3>1. ResumedWith(B)
      BY <1>2, <2>1, ResumeStep
    <3> QED BY <1>1, <1>2, <2>1, <3>1, ResumeUnseen, ResumedDead, CpuSeenResumed
  <2>2. CASE \E pc : StepReturns(m, B, pc)
    BY <1>1, <1>2, <2>2, StepReturnsInvisible
  <2> QED BY <1>3, <2>1, <2>2
<1>5. ~Dead /\ Planted(mem, m_enabled) =>
        /\ Planted(m, B)
        /\ SeenIn(m, B, m_data') = SeenIn(mem, m_enabled, m_data)
  BY <1>1, EnabledSeen
<1>6. Unseen(mem, m_enabled, m_data)
  <2> HIDE DEF m, B
  <2> QED BY <1>4, <1>5 DEF Unseen
<1> QED BY <1>4, <1>6 DEF Invisible

-----------------------------------------------------------------------------
(* The steps of the user and of the process.                               *)

LEMMA UserAddsEffect ==
  ASSUME IInv, at = "prompt", NEW K, UserAdds(K)
  PROVE  /\ Dead => Dead'
         /\ ~Dead => ~Dead'
         /\ CpuSeen' = CpuSeen
         /\ TrapsPlanted => TrapsPlanted'
         /\ Rebreaks = FALSE => Unseen(mem, m_enabled, m_data)
<1>1. /\ UNCHANGED <<cpu, status, at>>
      /\ mem' = Enabled(mem, K) /\ m_data' = Saved(mem, m_data, K)
      /\ m_enabled' = m_enabled \cup K /\ m_enabled = addr_to_bp
      /\ mem \in [Addr -> Byte] /\ m_data \in [Key -> Byte]
  BY DEF UserAdds, AtOnce, ctlVars, AddBreakpoints, IInv, TableInv, TypeOK
<1>2. (Dead <=> Dead') /\ CpuSeen' = CpuSeen
  BY <1>1 DEF Dead, CpuSeen, Rewound, Blocked
<1>3. ASSUME ~Dead, TrapsPlanted, NEW k \in m_enabled' \cap Addr
      PROVE  mem'[k] = INT3
  BY <1>1, <1>3, PokeAt DEF TrapsPlanted, Enabled
<1>4. ASSUME Rebreaks = FALSE
      PROVE  Unseen(mem, m_enabled, m_data)
  <2>1. K \cap m_enabled = {}
    BY <1>1, <1>4 DEF UserAdds
  <2> QED BY <1>1, <1>2, <2>1, EnabledSeen DEF Unseen
<1> QED BY <1>2, <1>3, <1>4 DEF TrapsPlanted

LEMMA UserBreaks ==
  ASSUME IInv, \/ \E a \in BreakAt : BreakAddress(a)
               \/ \E f \in Functions : BreakFunction(f.name)
               \/ \E n \in SourceLines : BreakLine(n)
  PROVE  at = "prompt" /\ \E K : UserAdds(K)
BY DEF BreakAddress, BreakFunction, BreakLine, Prompt

\* The process executes what its own text says, and runs into nothing else.
LEMMA TraceeTextSteps ==
  ASSUME IInv, TraceeStep \/ SignalArrives, ProcessStep
  PROVE  /\ TrapsPlanted => TrapsPlanted'
         /\ ~Dead
         /\ Dead' \/ TextSeen' = TextSeen
<1>1. mem' = mem /\ UNCHANGED <<m_enabled, m_data>>
  BY DEF TraceeStep, SignalArrives, ExecStop, ExecFail, Instruction, Trap, Fault, Exit,
     ProcessStep, bpVars
<1>2. ~Dead
  BY DEF TraceeStep, SignalArrives, ExecStop, ExecFail, Instruction, Trap, Fault, Exit,
     Running, Dead
<1> QED BY <1>1, <1>2 DEF TrapsPlanted, TextSeen, SeenIn

\* Program has definitions of its own for the operators of module Cpu.
LEMMA ProgramExecutes ==
  ASSUME NEW b, NEW c, NEW d, Executes(b, c, d)
  PROVE  Program!Executes(b, c, d)
BY DEF Executes, Program!Executes, At, Program!At

\* What is fetched is what the text says, unless it is the debugger's trap.
LEMMA FetchedText ==
  ASSUME ~Dead, TrapsPlanted, cpu.rip \in Addr, Fetched # INT3
  PROVE  TextSeen[cpu.rip] = Fetched
BY DEF TrapsPlanted, Fetched, TextSeen, SeenIn

LEMMA InstructionRefines ==
  ASSUME IInv, TrapsPlanted, Instruction, ProcessStep
  PROVE  Program!ExecutesOwnText
<1>1. /\ Executes(Fetched, cpu, cpu') /\ ~Dead /\ ~Dead'
      /\ status # "brkpt" /\ status' # "brkpt"
  BY DEF Instruction, Running, Dead
<1>2. CpuSeen = cpu /\ CpuSeen' = cpu'
  BY <1>1 DEF CpuSeen, Rewound
<1>3. cpu.rip \in Addr /\ Fetched # INT3
  BY <1>1 DEF Executes, INT3
<1>4. TextSeen[cpu.rip] = Fetched
  BY <1>1, <1>3, FetchedText
<1>5. Program!Executes(TextSeen[CpuSeen.rip], CpuSeen, CpuSeen')
  BY <1>1, <1>2, <1>4, ProgramExecutes
<1>6. TextSeen' = TextSeen
  BY <1>1, TraceeTextSteps DEF TraceeStep
<1> QED BY <1>1, <1>2, <1>3, <1>5, <1>6 DEF Program!ExecutesOwnText

LEMMA EndRefines ==
  ASSUME IInv, TrapsPlanted, Exit \/ ExecFail, ProcessStep
  PROVE  Program!Ends
<1>1. ~Dead /\ Dead' /\ cpu' = cpu /\ status # "brkpt" /\ status' # "brkpt"
  BY DEF Exit, ExecFail, Running, Dead
<1>2. CpuSeen = cpu /\ CpuSeen' = CpuSeen
  BY <1>1 DEF CpuSeen, Rewound
<1>3. TextSeen' = Program!Unmapped
  BY <1>1 DEF TextSeen, Program!Unmapped, BadByte, Program!BadByte
<1>4. \/ CpuSeen.rip \in Addr /\ TextSeen[CpuSeen.rip] = "exit"
      \/ CpuSeen = [rip |-> Entry, ret |-> <<>>, linked |-> FALSE]
  <2>1. CASE Exit
    <3>1. Fetched = "exit" /\ cpu.rip \in Addr
      BY <2>1 DEF Exit, Fetched, BadByte
    <3> QED BY <1>1, <1>2, <3>1, FetchedText DEF INT3
  <2>2. CASE ExecFail
    BY <1>2, <2>2 DEF ExecFail, IInv, ControlInv, Start
  <2> QED BY <2>1, <2>2
<1> QED BY <1>1, <1>2, <1>3, <1>4 DEF Program!Ends

\* Every stop of the process is one the program does not see.
LEMMA StopInvisible ==
  ASSUME IInv, Trap \/ Fault \/ ExecStop \/ SignalArrives, ProcessStep
  PROVE  Invisible
<1>1. /\ UNCHANGED <<mem, m_enabled, m_data, at>> /\ ~Dead /\ ~Dead'
      /\ status # "brkpt"
  BY DEF Trap, Fault, ExecStop, SignalArrives, Running, Dead, ProcessStep, bpVars, ctlVars
<1>2. CASE Trap
  <2>1. /\ Blocked /\ cpu.rip \in Int /\ cpu \in Cpu
        /\ cpu' = At(cpu, cpu.rip + 1) /\ status' = "brkpt"
    BY <1>2, KeyAssumption DEF Trap, IInv, ControlInv, TypeOK, Cpu, Resuming, Blocked
  <2>2. cpu'.rip = cpu.rip + 1 /\ cpu.rip + 1 - 1 = cpu.rip
    BY <2>1 DEF At, Cpu
  <2>3. At(At(cpu, cpu.rip + 1), cpu.rip) = cpu
    BY <2>1 DEF At, Cpu
  <2>4. Rewound' = cpu /\ Rewound = cpu
    BY <1>1, <2>1, <2>2, <2>3 DEF Rewound
  <2> QED BY <1>1, <2>1, <2>4, UnchangedUnseen DEF Invisible, CpuSeen, Blocked
<1>3. CASE cpu' = cpu /\ status' # "brkpt"
  BY <1>1, <1>3, UnchangedUnseen DEF Invisible, CpuSeen, Rewound, Blocked
<1> QED BY <1>2, <1>3 DEF Fault, ExecStop, SignalArrives

LEMMA WriteEffect ==
  ASSUME IInv, TrapsPlanted, Overwrites = FALSE,
         \/ \E t \in JumpTo  : RegisterWrite(t)
         \/ \E w \in Patches : MemoryWrite(w)
  PROVE  /\ TrapsPlanted'
         /\ [Program!Next]_(Program!vars)
<1>1. /\ ~Blocked /\ ~Blocked' /\ CpuSeen = cpu /\ CpuSeen' = cpu'
      /\ UNCHANGED <<status, m_enabled, m_data>> /\ m_enabled = addr_to_bp
      /\ mem \in [Addr -> Byte]
  BY DEF RegisterWrite, MemoryWrite, Prompt, AtOnce, bpVars, ctlVars, Blocked, CpuSeen,
     IInv, TableInv, TypeOK
<1>2. CASE Dead
  <2>1. Dead' /\ cpu' = cpu
    BY <1>1, <1>2 DEF Dead, RegisterWrite, MemoryWrite
  <2> QED BY <1>1, <1>2, <2>1 DEF TrapsPlanted, TextSeen, Program!vars
<1>3. CASE ~Dead /\ \E t \in JumpTo : RegisterWrite(t)
  <2>1. ~Dead' /\ mem' = mem
    BY <1>1, <1>3 DEF Dead, RegisterWrite
  <2>2. TextSeen' = TextSeen
    BY <1>1, <1>3, <2>1 DEF TextSeen, SeenIn
  <2>3. PICK t \in JumpTo : cpu' = At(cpu, t)
    BY <1>3 DEF RegisterWrite
  <2>4. Program!UserMoves(t)
    BY <1>1, <1>3, <2>1, <2>2, <2>3 DEF Program!UserMoves, Program!At, At
  <2> QED BY <1>1, <2>1, <2>4 DEF TrapsPlanted, Dead, Program!Next
<1>4. CASE ~Dead /\ \E w \in Patches : MemoryWrite(w)
  <2>1. PICK w \in Patches : /\ mem' = Poke(mem, w, DOMAIN w)
                             /\ DOMAIN w \cap m_enabled = {}
                             /\ cpu' = cpu
    BY <1>1, <1>4 DEF MemoryWrite
  <2>2. ASSUME NEW a \in Addr
        PROVE  mem'[a] = IF a \in DOMAIN w THEN w[a] ELSE mem[a]
    BY <1>1, <1>4, <2>1, PokeAt
  <2>3. ~Dead'
    BY <1>1, <1>4 DEF Dead
  <2>4. TrapsPlanted'
    BY <1>1, <1>4, <2>1, <2>2 DEF TrapsPlanted
  <2>5. TextSeen' = [a \in Addr |-> IF a \in DOMAIN w THEN w[a] ELSE TextSeen[a]]
    BY <1>1, <1>4, <2>1, <2>2, <2>3 DEF TextSeen, SeenIn
  <2>6. Program!UserPatches(w)
    BY <1>1, <1>4, <2>1, <2>3, <2>5 DEF Program!UserPatches
  <2> QED BY <2>4, <2>6 DEF Program!Next
<1> QED BY <1>2, <1>3, <1>4

\* All steps but the user's writes and the program's own are invisible.
LEMMA CommandInvisible ==
  ASSUME IInv, \/ Continue \/ Stepinst \/ StepIn \/ Finish \/ StepOver
               \/ BreakData \/ LookupThrows \/ Quit \/ DebuggerReturns
  PROVE  Invisible
BY ContinueInvisible, FinishInvisible, PromptDiesInvisible, LaunchInvisible,
   StepOffReturnsInvisible, SingleStepReturnsInvisible, ContinueReturnsInvisible
   DEF DebuggerReturns

LEMMA InvisibleStutters ==
  ASSUME Invisible, TrapsPlanted
  PROVE  TrapsPlanted' /\ UNCHANGED Program!vars
<1>1. CASE Dead
  BY <1>1 DEF Invisible, TrapsPlanted, TextSeen, Program!vars
<1>2. CASE ~Dead
  <2>1. ~Dead' /\ Planted(mem', m_enabled')
        /\ SeenIn(mem', m_enabled', m_data') = SeenIn(mem, m_enabled, m_data)
    BY <1>2 DEF Invisible, Unseen, TrapsPlanted, Planted
  <2> QED BY <1>2, <2>1 DEF Invisible, TrapsPlanted, TextSeen, Planted, Program!vars
<1> QED BY <1>1, <1>2

LEMMA UnchangedVars ==
  ASSUME UNCHANGED vars
  PROVE  /\ TrapsPlanted => TrapsPlanted'
         /\ UNCHANGED Program!vars
BY DEF vars, traceeVars, bpVars, ctlVars, TrapsPlanted, Dead, TextSeen, SeenIn, CpuSeen,
   Rewound, Blocked, Program!vars

LEMMA NextTraps ==
  ASSUME IInv, TrapsPlanted, Overwrites = FALSE, [Next]_vars
  PROVE  TrapsPlanted'
<1>1. CASE (TraceeStep \/ SignalArrives) /\ ProcessStep
  BY <1>1, TraceeTextSteps
<1>2. CASE \/ Continue \/ Stepinst \/ StepIn \/ Finish \/ StepOver
           \/ BreakData \/ LookupThrows \/ Quit \/ DebuggerReturns
  BY <1>2, CommandInvisible, InvisibleStutters
<1>3. CASE \/ \E t \in JumpTo  : RegisterWrite(t)
           \/ \E w \in Patches : MemoryWrite(w)
  BY <1>3, WriteEffect
<1>4. CASE \/ \E a \in BreakAt : BreakAddress(a)
           \/ \E f \in Functions : BreakFunction(f.name)
           \/ \E n \in SourceLines : BreakLine(n)
  BY <1>4, UserBreaks, UserAddsEffect
<1>5. CASE UNCHANGED vars
  BY <1>5, UnchangedVars
<1> QED BY <1>1, <1>2, <1>3, <1>4, <1>5 DEF Next, UserStep

(***************************************************************************)
(* As long as the user writes no memory where a breakpoint is, every       *)
(* enabled breakpoint is a trap in memory.                                 *)
(***************************************************************************)
THEOREM TrapsCorrect ==
  ASSUME Overwrites = FALSE
  PROVE  Spec => []TrapsPlanted
<1>1. Init => TrapsPlanted
  BY DEF Init, TrapsPlanted
<1>2. IInv /\ TrapsPlanted /\ [Next]_vars => TrapsPlanted'
  BY NextTraps
<1> QED BY <1>1, <1>2, Invariance, PTL DEF Spec

LEMMA NextRefines ==
  ASSUME IInv, TrapsPlanted, Overwrites = FALSE, Rebreaks = FALSE, [Next]_vars
  PROVE  [Program!Next]_(Program!vars)
<1>1. CASE Instruction /\ ProcessStep
  BY <1>1, InstructionRefines DEF Program!Next
<1>2. CASE (Exit \/ ExecFail) /\ ProcessStep
  BY <1>2, EndRefines DEF Program!Next
<1>3. CASE (Trap \/ Fault \/ ExecStop \/ SignalArrives) /\ ProcessStep
  BY <1>3, StopInvisible, InvisibleStutters
<1>4. CASE \/ Continue \/ Stepinst \/ StepIn \/ Finish \/ StepOver
           \/ BreakData \/ LookupThrows \/ Quit \/ DebuggerReturns
  BY <1>4, CommandInvisible, InvisibleStutters
<1>5. CASE \/ \E t \in JumpTo  : RegisterWrite(t)
           \/ \E w \in Patches : MemoryWrite(w)
  BY <1>5, WriteEffect
<1>6. CASE \/ \E a \in BreakAt : BreakAddress(a)
           \/ \E f \in Functions : BreakFunction(f.name)
           \/ \E n \in SourceLines : BreakLine(n)
  <2>1. Invisible
    BY <1>6, UserBreaks, UserAddsEffect DEF Invisible
  <2> QED BY <2>1, InvisibleStutters
<1>7. CASE UNCHANGED vars
  BY <1>7, UnchangedVars
<1> QED BY <1>1, <1>2, <1>3, <1>4, <1>5, <1>6, <1>7 DEF Next, UserStep, TraceeStep

(***************************************************************************)
(* Breakpoints are transparent to a program whose user neither sets a      *)
(* breakpoint twice nor writes memory where one is: the debugged process   *)
(* implements the process run without a debugger.                          *)
(***************************************************************************)
THEOREM Transparency ==
  ASSUME Overwrites = FALSE, Rebreaks = FALSE
  PROVE  Spec => Transparent
<1>1. ASSUME Init
      PROVE  Program!Init
  <2>1. ~Dead /\ m_enabled = {} /\ mem = Text /\ cpu = Start /\ status # "brkpt"
    BY <1>1 DEF Init, TraceeInit, Dead
  <2>2. TextSeen = Text
    BY <2>1, TextAssumption DEF TextSeen, SeenIn
  <2>3. CpuSeen = [rip |-> Entry, ret |-> <<>>, linked |-> FALSE]
    BY <2>1 DEF CpuSeen, Rewound, Start
  <2>4. (~Dead) = TRUE
    BY <2>1
  <2> QED BY <2>2, <2>3, <2>4 DEF Program!Init
<1>2. IInv /\ TrapsPlanted /\ [Next]_vars => [Program!Next]_(Program!vars)
  BY NextRefines
<1> QED BY <1>1, <1>2, Invariance, TrapsCorrect, PTL DEF Spec, Transparent, Program!Spec

(***************************************************************************)
(* No breakpoint is missed, as long as the user writes no memory where one *)
(* is: its instruction is executed only when it is being stepped off.      *)
(***************************************************************************)
THEOREM NothingMissed ==
  ASSUME Overwrites = FALSE
  PROVE  Spec => NoBreakpointMissed
<1>1. ASSUME IInv, TrapsPlanted, Instruction, cpu.rip \in asked
      PROVE  at = "over" /\ over = cpu.rip
  <2>1. Executes(Fetched, cpu, cpu') /\ ~Dead /\ Resuming
    BY <1>1 DEF Instruction, Running, Dead, IInv, ControlInv
  <2>2. cpu.rip \in Addr /\ mem[cpu.rip] # INT3
    BY <2>1 DEF Executes, Fetched, INT3
  <2>3. cpu.rip \in addr_to_bp \ m_enabled
    BY <1>1, <2>1, <2>2 DEF TrapsPlanted, IInv, TableInv, Resuming
  <2> QED BY <1>1, <2>1, <2>3 DEF IInv, TableInv, Resuming
<1>2. IInv /\ TrapsPlanted /\ [Next]_vars
        => [Instruction /\ cpu.rip \in asked => at = "over" /\ over = cpu.rip]_vars
  BY <1>1
<1> QED BY <1>2, Invariance, TrapsCorrect, PTL DEF Spec, NoBreakpointMissed

-----------------------------------------------------------------------------
(* Getting off a breakpoint.                                               *)

\* A program without traps of its own, and a user who writes none.
NoOwnTraps ==
  /\ \A a \in Addr : Text[a] # INT3
  /\ \A w \in Patches : \A a \in DOMAIN w : w[a] # INT3

PlainText == ~Dead => \A a \in Addr : TextSeen[a] # INT3

\* While a breakpoint is stepped off the process is at it, for one instruction.
SteppingOff ==
  at = "over" => /\ status # "brkpt"
                 /\ Running => status = "stepping" /\ cpu.rip = over

\* No step of the program and no write of the user's puts a trap in the text.
LEMMA TextStaysPlain ==
  ASSUME NoOwnTraps, PlainText, [Program!Next]_(Program!vars)
  PROVE  PlainText'
<1>1. CASE UNCHANGED Program!vars
  BY <1>1 DEF Program!vars, PlainText
<1>2. CASE Program!Ends
  BY <1>2 DEF Program!Ends, PlainText
<1>3. CASE TextSeen' = TextSeen /\ ~Dead
  BY <1>3 DEF PlainText
<1>4. ASSUME NEW w \in Patches, Program!UserPatches(w)
      PROVE  PlainText'
  <2>1. ~Dead /\ TextSeen' = [a \in Addr |-> IF a \in DOMAIN w THEN w[a] ELSE TextSeen[a]]
    BY <1>4 DEF Program!UserPatches
  <2> QED BY <2>1 DEF PlainText, NoOwnTraps
<1> QED BY <1>1, <1>2, <1>3, <1>4 DEF Program!Next, Program!ExecutesOwnText, Program!UserMoves

\* The command that meets a breakpoint steps off it where the process is.
LEMMA ResumedOff ==
  ASSUME NEW m, NEW B, NEW E, NEW pc, Dead \/ pc = cpu'.rip,
         ContinueFrom(m, B, E, pc) \/ StepFrom(m, B, E, pc)
  PROVE  SteppingOff'
<1>1. CASE StepOff(m, B, E, pc)
  BY <1>1 DEF StepOff, Resumed, SteppingOff, Running, Dead
<1>2. CASE at' \in {"cont", "single"}
  BY <1>2 DEF SteppingOff
<1> QED BY <1>1, <1>2 DEF ContinueFrom, StepFrom, Resume

LEMMA CommandStepsOff ==
  ASSUME Continue \/ Stepinst \/ Finish \/ StepOver \/ StepIn
  PROVE  SteppingOff'
<1>1. cpu' = cpu
  BY DEF Continue, Stepinst, Finish, StepOver, StepIn
<1>2. ASSUME NEW m, NEW B, NEW E, NEW pc \in ProgramCounter(cpu),
             ContinueFrom(m, B, E, pc) \/ StepFrom(m, B, E, pc)
      PROVE  SteppingOff'
  BY <1>1, <1>2, ResumedOff DEF ProgramCounter
<1>3. CASE Continue
  BY <1>2, <1>3 DEF Continue
<1>4. CASE Stepinst \/ StepIn
  BY <1>2, <1>4 DEF Stepinst, StepIn
<1>5. CASE Finish
  BY <1>2, <1>5 DEF Finish
<1>6. CASE StepOver
  BY <1>2, <1>6 DEF StepOver
<1> QED BY <1>3, <1>4, <1>5, <1>6

LEMMA StepReturnsOff ==
  ASSUME NEW m, NEW E, NEW pc \in ProgramCounter(cpu'), StepReturns(m, E, pc)
  PROVE  SteppingOff'
<1>1. Dead \/ pc = cpu'.rip
  BY DEF ProgramCounter
<1>2. CASE at' \in {"prompt", "gone"}
  BY <1>2 DEF SteppingOff
<1>3. CASE StepFrom(m, addr_to_bp, E, pc)
  BY <1>1, <1>3, ResumedOff
<1> QED BY <1>2, <1>3 DEF StepReturns, Halt, Idle, Dies

LEMMA ReturnsOff ==
  ASSUME DebuggerReturns
  PROVE  SteppingOff'
<1>1. CASE at' \in {"prompt", "gone", "cont"}
  BY <1>1 DEF SteppingOff
<1>2. ASSUME NEW m, NEW E, \E pc \in ProgramCounter(cpu') : StepReturns(m, E, pc)
      PROVE  SteppingOff'
  BY <1>2, StepReturnsOff
<1>3. CASE Launch \/ HandlerThrows \/ ContinueReturns
  BY <1>1, <1>3 DEF Launch, HandlerThrows, ContinueReturns, Idle, Dies
<1>4. CASE SingleStepReturns
  BY <1>2, <1>4 DEF SingleStepReturns
<1>5. CASE StepOffReturns
  BY <1>1, <1>2, <1>5 DEF StepOffReturns, Resume
<1> QED BY <1>3, <1>4, <1>5 DEF DebuggerReturns

\* The one instruction behind the breakpoint is no trap.
LEMMA TraceeStepsOff ==
  ASSUME IInv, PlainText, SteppingOff, TraceeStep \/ SignalArrives, ProcessStep
  PROVE  SteppingOff'
<1>1. UNCHANGED <<m_enabled, at, over>>
  BY DEF ProcessStep, bpVars, ctlVars
<1>2. SUFFICES ASSUME at = "over"
               PROVE  SteppingOff'
  BY <1>1 DEF SteppingOff
<1>3. status # "starting" /\ over \notin m_enabled
  BY <1>2 DEF IInv, ControlInv, TableInv
<1>4. ~Trap
  <2>1. SUFFICES ASSUME Trap
                 PROVE  FALSE
    OBVIOUS
  <2>2. ~Dead /\ cpu.rip = over /\ Fetched = INT3
    BY <1>2, <2>1 DEF Trap, SteppingOff, Running, Dead
  <2>3. over \in Addr /\ mem[over] = INT3
    BY <2>2 DEF Fetched, INT3, BadByte
  <2>4. TextSeen[over] = INT3
    BY <1>3, <2>2, <2>3 DEF TextSeen, SeenIn
  <2> QED BY <2>2, <2>3, <2>4 DEF PlainText
<1>5. Instruction => status' = "trace"
  BY <1>2 DEF Instruction, SteppingOff
<1> QED BY <1>3, <1>4, <1>5 DEF TraceeStep, SignalArrives, ExecStop, ExecFail, Fault, Exit,
        SteppingOff, Running

LEMMA NextStepsOff ==
  ASSUME IInv, PlainText, SteppingOff, [Next]_vars
  PROVE  SteppingOff'
<1>1. CASE (TraceeStep \/ SignalArrives) /\ ProcessStep
  BY <1>1, TraceeStepsOff
<1>2. CASE Continue \/ Stepinst \/ StepIn \/ Finish \/ StepOver
  BY <1>2, CommandStepsOff
<1>3. CASE DebuggerReturns
  BY <1>3, ReturnsOff
<1>4. CASE at' \in {"prompt", "gone"}
  BY <1>4 DEF SteppingOff
<1>5. CASE \/ \E a \in BreakAt : BreakAddress(a)
           \/ \E f \in Functions : BreakFunction(f.name)
           \/ \E n \in SourceLines : BreakLine(n)
  <2>1. at = "prompt" /\ at' = at
    BY <1>5, UserBreaks DEF UserAdds, AtOnce, ctlVars
  <2> QED BY <1>4, <2>1
<1>6. CASE \/ \E t \in JumpTo  : RegisterWrite(t)
           \/ \E w \in Patches : MemoryWrite(w)
  <2>1. at = "prompt" /\ at' = at
    BY <1>6 DEF RegisterWrite, MemoryWrite, Prompt, AtOnce, ctlVars
  <2> QED BY <1>4, <2>1
<1>7. CASE BreakData \/ LookupThrows \/ Quit
  BY <1>4, <1>7 DEF BreakData, LookupThrows, Quit, Dies
<1>8. CASE UNCHANGED vars
  BY <1>8 DEF vars, traceeVars, ctlVars, SteppingOff, Running
<1> QED BY <1>1, <1>2, <1>3, <1>5, <1>6, <1>7, <1>8 DEF Next, UserStep

(***************************************************************************)
(* Getting off a breakpoint executes the instruction behind it and never   *)
(* runs into a trap, in a program that has none of its own and whose user  *)
(* writes none and changes no memory, and no breakpoint, where one is set. *)
(***************************************************************************)
THEOREM StepsOff ==
  ASSUME NoOwnTraps, Overwrites = FALSE, Rebreaks = FALSE
  PROVE  Spec => []StepsOffTheTrap
<1>1. Init => PlainText /\ SteppingOff
  <2>1. ASSUME Init
        PROVE  \A a \in Addr : TextSeen[a] = Text[a]
    BY <2>1 DEF Init, TraceeInit, TextSeen, SeenIn, Dead
  <2> QED BY <2>1 DEF Init, NoOwnTraps, PlainText, SteppingOff
<1>2. IInv /\ TrapsPlanted /\ PlainText /\ SteppingOff /\ [Next]_vars
        => PlainText' /\ SteppingOff'
  BY NextRefines, TextStaysPlain, NextStepsOff
<1>3. SteppingOff => StepsOffTheTrap
  BY DEF SteppingOff, StepsOffTheTrap
<1> QED BY <1>1, <1>2, <1>3, Invariance, TrapsCorrect, PTL DEF Spec

-----------------------------------------------------------------------------
(* Frames.                                                                 *)

\* The stack is as deep as the address says, and each return address belongs
\* to a frame one less deep than the one above it.
InLayer(D, c) ==
  /\ Len(c.ret) = D[c.rip]
  /\ \A i \in 1 .. Len(c.ret) : D[c.ret[i]] = Len(c.ret) - i

\* In the body of a function rbp is its frame, if it has a caller.
InBody(B, c) == c.rip \in B => c.linked \/ c.ret = <<>>

\* A call enters the next depth, ...
LEMMA CallsDeeper ==
  ASSUME NEW D \in [Key -> Nat], NEW c \in Cpu, NEW d, NEW t, NEW a \in Key,
         D[a] = D[c.rip], D[t] = D[c.rip] + 1, InLayer(D, c),
         d = [rip |-> t, ret |-> <<a>> \o c.ret, linked |-> FALSE]
  PROVE  InLayer(D, d)
<1>1. c.ret \in Seq(Key) /\ <<a>> \in Seq(Key) /\ Len(<<a>>) = 1 /\ <<a>>[1] = a
  BY DEF Cpu
<1> DEFINE s == <<a>> \o c.ret
<1>2. /\ Len(c.ret) \in Nat
      /\ Len(s) = 1 + Len(c.ret)
      /\ \A i \in 1 .. 1 + Len(c.ret) : s[i] = IF i <= 1 THEN <<a>>[i] ELSE c.ret[i - 1]
  BY <1>1, ConcatProperties, LenProperties
<1> HIDE DEF s
<1>3. s[1] = a /\ \A i \in 2 .. 1 + Len(c.ret) : i - 1 \in 1 .. Len(c.ret) /\ s[i] = c.ret[i - 1]
  BY <1>1, <1>2
<1>4. D[s[1]] = Len(s) - 1
  BY <1>2, <1>3 DEF InLayer
<1>5. \A i \in 2 .. 1 + Len(c.ret) : D[s[i]] = Len(s) - i
  <2> TAKE i \in 2 .. 1 + Len(c.ret)
  <2>1. D[c.ret[i - 1]] = Len(c.ret) - (i - 1)
    BY <1>3 DEF InLayer
  <2> QED BY <2>1, <1>2, <1>3
<1>6. \A i \in 1 .. Len(s) : D[s[i]] = Len(s) - i
  BY <1>2, <1>4, <1>5
<1>7. Len(s) = D[t]
  BY <1>2 DEF InLayer
<1>8. d.rip = t /\ d.ret = s
  BY DEF s
<1> QED BY <1>6, <1>7, <1>8 DEF InLayer

\* ... a return the one before, ...
LEMMA ReturnsShallower ==
  ASSUME NEW D \in [Key -> Nat], NEW c \in Cpu, NEW d, InLayer(D, c), c.ret # <<>>,
         d = [rip |-> Head(c.ret), ret |-> Tail(c.ret), linked |-> TRUE]
  PROVE  InLayer(D, d)
<1> DEFINE s == Tail(c.ret)
<1>1. /\ c.ret \in Seq(Key) /\ Len(c.ret) \in Nat /\ Len(c.ret) > 0
  BY EmptySeq, LenProperties DEF Cpu
<1>2. /\ Head(c.ret) = c.ret[1] /\ Len(s) = Len(c.ret) - 1
      /\ \A i \in 1 .. Len(s) : s[i] = c.ret[i + 1]
  BY <1>1, HeadTailProperties
<1> HIDE DEF s
<1>3. Len(s) = D[Head(c.ret)]
  BY <1>1, <1>2 DEF InLayer
<1>4. \A i \in 1 .. Len(s) : D[s[i]] = Len(s) - i
  <2> TAKE i \in 1 .. Len(s)
  <2>1. i + 1 \in 1 .. Len(c.ret) /\ s[i] = c.ret[i + 1]
    BY <1>1, <1>2
  <2>2. D[c.ret[i + 1]] = Len(c.ret) - (i + 1)
    BY <2>1 DEF InLayer
  <2> QED BY <2>1, <2>2, <1>1, <1>2
<1>5. d.rip = Head(c.ret) /\ d.ret = s
  BY DEF s
<1> QED BY <1>3, <1>4, <1>5 DEF InLayer

\* ... and every other instruction stays.
LEMMA ExecutesInLayer ==
  ASSUME NEW D, Layered(D), NEW c \in Cpu, NEW d, InLayer(D, c),
         c.rip \in Addr, Executes(Text[c.rip], c, d)
  PROVE  InLayer(D, d)
<1> DEFINE b == Text[c.rip]
<1>1. D \in [Key -> Nat] /\ c.rip + 1 \in Key
  BY KeyAssumption DEF Layered
<1>2. ASSUME NEW k, D[k] = D[c.rip], d.rip = k, d.ret = c.ret
      PROVE  InLayer(D, d)
  BY <1>2 DEF InLayer
<1>3. CASE b \in {"nop", "enter", "leave"} /\ d.rip = c.rip + 1 /\ d.ret = c.ret
  BY <1>2, <1>3 DEF Layered
<1>4. CASE b = "jump" /\ \E t \in Target[c.rip] : d = At(c, t)
  <2>1. PICK t \in Target[c.rip] : d = At(c, t)
    BY <1>4
  <2>2. d.rip = t /\ d.ret = c.ret
    BY <2>1 DEF At, Cpu
  <2> QED BY <1>2, <1>4, <2>2 DEF Layered
<1>5. CASE b = "call" /\ \E t \in Target[c.rip] :
                           d = [rip |-> t, ret |-> <<c.rip + 1>> \o c.ret, linked |-> FALSE]
  <2>1. PICK t \in Target[c.rip] : d = [rip |-> t, ret |-> <<c.rip + 1>> \o c.ret, linked |-> FALSE]
    BY <1>5
  <2>2. D[c.rip + 1] = D[c.rip] /\ D[t] = D[c.rip] + 1
    BY <1>5 DEF Layered
  <2> QED BY <1>1, <2>1, <2>2, CallsDeeper
<1>6. CASE c.ret # <<>> /\ d = [rip |-> Head(c.ret), ret |-> Tail(c.ret), linked |-> TRUE]
  BY <1>1, <1>6, ReturnsShallower
<1>7. b = "nop" /\ d = At(c, c.rip + 1) => d.rip = c.rip + 1 /\ d.ret = c.ret
  BY DEF At, Cpu
<1>8. b = "enter" /\ d = [At(c, c.rip + 1) EXCEPT !.linked = TRUE] => d.rip = c.rip + 1 /\ d.ret = c.ret
  BY DEF At, Cpu
<1>9. b = "leave" /\ d = [At(c, c.rip + 1) EXCEPT !.linked = FALSE] => d.rip = c.rip + 1 /\ d.ret = c.ret
  BY DEF At, Cpu
<1> QED BY <1>3, <1>4, <1>5, <1>6, <1>7, <1>8, <1>9 DEF Executes

\* A function is entered before its body, and returned from to its caller's.
LEMMA ExecutesInBody ==
  ASSUME NEW B, Bodies(B), NEW c \in Cpu, NEW d, InBody(B, c),
         c.rip \in Addr, Executes(Text[c.rip], c, d)
  PROVE  InBody(B, d)
<1> DEFINE b == Text[c.rip]
<1>1. CASE /\ b = "nop" /\ d.rip = c.rip + 1
           /\ d.ret = c.ret /\ d.linked = c.linked
  BY <1>1 DEF Bodies, InBody
<1>2. CASE b = "jump" /\ \E t \in Target[c.rip] : d = At(c, t)
  <2>1. PICK t \in Target[c.rip] : d = At(c, t)
    BY <1>2
  <2>2. d.rip = t /\ d.ret = c.ret /\ d.linked = c.linked
    BY <2>1 DEF At, Cpu
  <2>3. t \in B => c.rip \in B
    BY <1>2, <2>1 DEF Bodies
  <2> QED BY <2>2, <2>3 DEF InBody
<1>3. CASE d.linked = TRUE
  BY <1>3 DEF InBody
<1>4. CASE b = "leave" /\ d.rip = c.rip + 1
  BY <1>4 DEF Bodies, InBody
<1>5. CASE b = "call" /\ \E t \in Target[c.rip] :
                           d = [rip |-> t, ret |-> <<c.rip + 1>> \o c.ret, linked |-> FALSE]
  <2>1. d.rip \in Target[c.rip]
    BY <1>5
  <2> QED BY <1>5, <2>1 DEF Bodies, InBody
<1>6. b = "nop" /\ d = At(c, c.rip + 1)
        => d.rip = c.rip + 1 /\ d.ret = c.ret /\ d.linked = c.linked
  BY DEF At, Cpu
<1>7. b = "enter" /\ d = [At(c, c.rip + 1) EXCEPT !.linked = TRUE] => d.linked = TRUE
  BY DEF At, Cpu
<1>8. b = "leave" /\ d = [At(c, c.rip + 1) EXCEPT !.linked = FALSE] => d.rip = c.rip + 1
  BY DEF At, Cpu
<1>9. d = [rip |-> Head(c.ret), ret |-> Tail(c.ret), linked |-> TRUE] => d.linked = TRUE
  OBVIOUS
<1> QED BY <1>1, <1>2, <1>3, <1>4, <1>5, <1>6, <1>7, <1>8, <1>9 DEF Executes

\* The program is in its layers and bodies, of a user who writes neither memory
\* nor rip.
TextInv     == Dead \/ TextSeen = Text
DepthInv(D) == Dead \/ InLayer(D, CpuSeen)
BodyInv(B)  == Dead \/ InBody(B, CpuSeen)

LEMMA CpuSeenType ==
  ASSUME IInv
  PROVE  CpuSeen \in Cpu
BY RewoundType DEF CpuSeen, IInv, TypeOK

LEMMA ExecutesProgram ==
  ASSUME NEW b, NEW c, NEW d, Program!Executes(b, c, d)
  PROVE  Executes(b, c, d)
BY DEF Executes, Program!Executes, At, Program!At

LEMMA Starts ==
  ASSUME Init
  PROVE  TextInv /\ CpuSeen.rip = Entry /\ CpuSeen.ret = <<>>
<1>1. ~Dead /\ m_enabled = {} /\ mem = Text /\ cpu = Start /\ status # "brkpt"
  BY DEF Init, TraceeInit, Dead
<1>2. TextSeen = Text
  BY <1>1, TextAssumption DEF TextSeen, SeenIn
<1>3. CpuSeen = Start
  BY <1>1 DEF CpuSeen, Rewound
<1> QED BY <1>2, <1>3 DEF TextInv, Start

LEMMA StartsInLayer ==
  ASSUME NEW D, Layered(D), Init
  PROVE  DepthInv(D)
<1>1. Len(<<>>) = 0 /\ 1 .. 0 = {}
  OBVIOUS
<1> QED BY <1>1, Starts DEF DepthInv, InLayer, Layered

\* What a step of the program does to it: nothing, an end, an instruction.
LEMMA ProgramSteps ==
  ASSUME Patches = {}, JumpTo = {}, IInv, TextInv, [Program!Next]_(Program!vars)
  PROVE  /\ TextInv'
         /\ \/ CpuSeen' = CpuSeen /\ (Dead => Dead')
            \/ Dead'
            \/ /\ ~Dead /\ CpuSeen \in Cpu /\ CpuSeen.rip \in Addr
               /\ Executes(Text[CpuSeen.rip], CpuSeen, CpuSeen')
<1>1. CASE UNCHANGED Program!vars
  <2>1. TextSeen' = TextSeen /\ CpuSeen' = CpuSeen /\ (~Dead)' = ~Dead
    BY <1>1 DEF Program!vars
  <2> QED BY <2>1 DEF TextInv
<1>2. CASE Program!Ends
  BY <1>2 DEF Program!Ends, TextInv
<1>3. CASE Program!ExecutesOwnText
  <2>1. /\ ~Dead /\ CpuSeen.rip \in Addr /\ TextSeen' = TextSeen
        /\ Program!Executes(TextSeen[CpuSeen.rip], CpuSeen, CpuSeen')
    BY <1>3 DEF Program!ExecutesOwnText
  <2>2. TextSeen = Text
    BY <2>1 DEF TextInv
  <2> QED BY <2>1, <2>2, ExecutesProgram, CpuSeenType DEF TextInv
<1> QED BY <1>1, <1>2, <1>3 DEF Program!Next

LEMMA StaysInLayer ==
  ASSUME NEW D, Layered(D), Patches = {}, JumpTo = {},
         IInv, TextInv, DepthInv(D), [Program!Next]_(Program!vars)
  PROVE  DepthInv(D)'
<1>1. CASE \/ Dead'
           \/ CpuSeen' = CpuSeen /\ (Dead => Dead')
  BY <1>1 DEF DepthInv, InLayer
<1>2. CASE /\ ~Dead /\ CpuSeen \in Cpu /\ CpuSeen.rip \in Addr
           /\ Executes(Text[CpuSeen.rip], CpuSeen, CpuSeen')
  <2>1. InLayer(D, CpuSeen')
    BY <1>2, ExecutesInLayer DEF DepthInv
  <2> QED BY <2>1 DEF DepthInv, InLayer
<1> QED BY <1>1, <1>2, ProgramSteps

LEMMA StaysInBody ==
  ASSUME NEW B, Bodies(B), Patches = {}, JumpTo = {},
         IInv, TextInv, BodyInv(B), [Program!Next]_(Program!vars)
  PROVE  BodyInv(B)'
<1>1. CASE \/ Dead'
           \/ CpuSeen' = CpuSeen /\ (Dead => Dead')
  BY <1>1 DEF BodyInv, InBody
<1>2. CASE /\ ~Dead /\ CpuSeen \in Cpu /\ CpuSeen.rip \in Addr
           /\ Executes(Text[CpuSeen.rip], CpuSeen, CpuSeen')
  <2>1. InBody(B, CpuSeen')
    BY <1>2, ExecutesInBody DEF BodyInv
  <2> QED BY <2>1 DEF BodyInv, InBody
<1> QED BY <1>1, <1>2, ProgramSteps

\* The breakpoints finish and next have added are where they are to stop.
InOuterFrame(D) == \A k \in temp \cap Addr : D[k] = depth - 1
InBothFrames(D) == \A k \in temp \cap Addr : D[k] \in {depth - 1, depth}

TempInv(D) ==
  ~Dead /\ Resuming => /\ cmd = "finish" => InOuterFrame(D)
                       /\ cmd = "next"   => InBothFrames(D)

\* In a body the return addresses found through rbp are those on the stack, ...
LEMMA ChainInBody ==
  ASSUME NEW B, BodyInv(B), at = "prompt", ~Dead, cpu.rip \in B
  PROVE  Chain = cpu.ret
BY DEF BodyInv, InBody, CpuSeen, Blocked, Chain, Chained

\* ... the first of which is the caller's.
LEMMA CallersDepth ==
  ASSUME NEW D, DepthInv(D), NEW B, BodyInv(B), TypeOK, at = "prompt", ~Dead,
         cpu.rip \in B, SavedReturn \in Addr
  PROVE  D[SavedReturn] = Len(cpu.ret) - 1
<1>1. InLayer(D, cpu)
  BY DEF DepthInv, CpuSeen, Blocked
<1>2. cpu.ret # <<>> /\ SavedReturn = Head(cpu.ret)
  BY ChainInBody, KeyAssumption DEF SavedReturn
<1>3. cpu.ret \in Seq(Key)
  BY DEF TypeOK, Cpu
<1>4. 1 \in 1 .. Len(cpu.ret) /\ Head(cpu.ret) = cpu.ret[1]
  BY <1>2, <1>3, EmptySeq, LenProperties, HeadTailProperties
<1> QED BY <1>1, <1>2, <1>4 DEF InLayer

\* The rows of the function the process is in have the depth it is at.
LEMMA RowsDepth ==
  ASSUME NEW D, Layered(D), IInv, at = "prompt", ~Dead, DepthInv(D),
         HasFunction(Offset(cpu.rip)), NEW r \in RowsOf(FunctionAt(Offset(cpu.rip)))
  PROVE  D[Loaded(r)] = Len(cpu.ret)
<1>1. cpu.rip \in Key /\ m_load_address \in Loads
  BY DEF IInv, TypeOK, ControlInv, Cpu
<1> DEFINE f == FunctionAt(Offset(cpu.rip))
<1>2. f \in Functions /\ Contains(f, cpu.rip - m_load_address)
  BY DEF HasFunction, FunctionAt, Offset
<1> HIDE DEF f
<1>3. r \in Rows /\ Row(f.low) <= r /\ r < f.high
  BY DEF RowsOf, f
<1>4. Row(f.low) = f.low
  <2>1. f.low \in Rows /\ f.low \in Int /\ \A s \in Rows : s \in Int
    BY <1>2, DebugInfoAssumption
  <2>2. IsRowOf(f.low, f.low)
    BY <2>1 DEF IsRowOf
  <2>3. \A s \in Rows : IsRowOf(s, f.low) => s = f.low
    BY <2>1 DEF IsRowOf
  <2> QED BY <2>1, <2>2, <2>3 DEF Row
<1>5. D[r + m_load_address] = D[cpu.rip]
  BY <1>1, <1>2, <1>3, <1>4 DEF Layered, Contains
<1>6. InLayer(D, cpu)
  BY DEF DepthInv, CpuSeen, Blocked
<1> QED BY <1>5, <1>6 DEF Loaded, InLayer

LEMMA FinishTemp ==
  ASSUME NEW D, DepthInv(D), NEW B, BodyInv(B), IInv, Finish, cpu.rip \in B
  PROVE  TempInv(D)'
<1>1. /\ at = "prompt" /\ cmd' = "finish" /\ depth' = Len(cpu.ret)
      /\ temp' \subseteq {SavedReturn} /\ (Dead => Dead')
  <2>1. PICK pc : /\ temp' = Missing({SavedReturn})
                  /\ ContinueFrom(Enabled(mem, temp'), addr_to_bp \cup temp',
                                  m_enabled \cup temp', pc)
    BY DEF Finish
  <2>2. at = "prompt" /\ addr_to_bp = m_enabled
    BY DEF Finish, Prompt, IInv, TableInv
  <2>3. Dead => Dead'
    BY <2>1, <2>2, ResumedDead
  <2> QED BY <2>1, <2>2, <2>3 DEF Finish, Issue, Missing
<1>2. ASSUME ~Dead', NEW k \in temp' \cap Addr
      PROVE  D[k] = depth' - 1
  BY <1>1, <1>2, CallersDepth DEF IInv
<1> QED BY <1>1, <1>2 DEF TempInv, InOuterFrame

LEMMA StepOverTemp ==
  ASSUME NEW D, Layered(D), DepthInv(D), NEW B, BodyInv(B), IInv, StepOver,
         cpu.rip \in B
  PROVE  TempInv(D)'
<1>1. PICK pc \in ProgramCounter(cpu) :
         /\ HasFunction(Offset(pc))
         /\ temp' = Missing({Loaded(r) : r \in RowsOf(FunctionAt(Offset(pc))) \ {Row(Offset(pc))}}
                              \cup {SavedReturn})
         /\ ContinueFrom(Enabled(mem, temp'), addr_to_bp \cup temp', m_enabled \cup temp', pc)
  BY DEF StepOver
<1>2. at = "prompt" /\ addr_to_bp = m_enabled /\ cmd' = "next" /\ depth' = Len(cpu.ret)
  BY DEF StepOver, Prompt, Issue, IInv, TableInv
<1>3. Dead => Dead'
  BY <1>1, <1>2, ResumedDead
<1>4. ASSUME ~Dead', NEW k \in temp' \cap Addr
      PROVE  D[k] \in {depth' - 1, depth'}
  <2>1. ~Dead /\ pc = cpu.rip
    BY <1>1, <1>3, <1>4 DEF ProgramCounter
  <2>2. CASE k = SavedReturn
    BY <1>2, <2>1, <2>2, <1>4, CallersDepth DEF IInv
  <2>3. CASE \E r \in RowsOf(FunctionAt(Offset(pc))) : k = Loaded(r)
    BY <1>1, <1>2, <2>1, <2>3, RowsDepth
  <2> QED BY <1>1, <1>4, <2>2, <2>3 DEF Missing
<1> QED BY <1>2, <1>4 DEF TempInv, InBothFrames

\* The rest of a command leaves them where they are, or removes them.
LEMMA ReturnsTemp ==
  ASSUME NEW D, TempInv(D), IInv, DebuggerReturns
  PROVE  TempInv(D)'
<1>1. CASE at' \in {"prompt", "gone"}
  BY <1>1 DEF TempInv, Resuming
<1>2. CASE UNCHANGED <<cmd, temp, depth>> /\ Resuming /\ (Dead => Dead')
  BY <1>2 DEF TempInv, InOuterFrame, InBothFrames
<1>3. ASSUME NEW m, NEW E, NEW pc, StepReturns(m, E, pc)
      PROVE  \/ at' \in {"prompt", "gone"}
             \/ UNCHANGED <<cmd, temp>> /\ (Dead => Dead')
  BY <1>3 DEF StepReturns, Halt, Idle, Dies, StepFrom, StepOff, Resume, Resumed, Dead
<1>4. CASE Launch \/ HandlerThrows \/ ContinueReturns
  BY <1>1, <1>4 DEF Launch, HandlerThrows, ContinueReturns, Idle, Dies
<1>5. CASE SingleStepReturns
  <2>1. at = "single" /\ depth' = depth /\ \E pc : StepReturns(mem, m_enabled, pc)
    BY <1>5 DEF SingleStepReturns, history
  <2> QED BY <1>1, <1>2, <1>3, <2>1 DEF Resuming
<1>6. CASE StepOffReturns
  <2> DEFINE m == Enabled(mem, {over})
             E == m_enabled \cup {over}
  <2>1. /\ at = "over" /\ depth' = depth
        /\ \/ Resume(m, addr_to_bp, E, "cont", "running") /\ UNCHANGED <<cmd, temp>>
           \/ \E pc : StepReturns(m, E, pc)
    BY <1>6 DEF StepOffReturns, history
  <2> HIDE DEF m, E
  <2>2. CASE Resume(m, addr_to_bp, E, "cont", "running") /\ UNCHANGED <<cmd, temp>>
    BY <1>2, <2>1, <2>2 DEF Resume, Resumed, Dead, Resuming
  <2> QED BY <1>1, <1>2, <1>3, <2>1, <2>2 DEF Resuming
<1> QED BY <1>4, <1>5, <1>6 DEF DebuggerReturns

LEMMA NextTemp ==
  ASSUME NEW D, Layered(D), DepthInv(D), NEW B, BodyInv(B), IInv, TempInv(D),
         [Next]_vars, [Finish \/ StepOver => cpu.rip \in B]_vars
  PROVE  TempInv(D)'
<1>1. CASE UNCHANGED vars
  BY <1>1 DEF vars, traceeVars, ctlVars, history, TempInv, InOuterFrame, InBothFrames,
              Resuming, Dead
<1>2. CASE vars' # vars
  <2>1. Finish \/ StepOver => cpu.rip \in B
    BY <1>2
  <2>2. CASE (TraceeStep \/ SignalArrives) /\ ProcessStep
    <3>1. ~Dead /\ UNCHANGED <<at, cmd, temp, depth>>
      BY <2>2, TraceeTextSteps DEF ProcessStep, ctlVars, history
    <3> QED BY <3>1 DEF TempInv, InOuterFrame, InBothFrames, Resuming
  <2>3. CASE Continue \/ Stepinst \/ StepIn
    BY <2>3 DEF Continue, Stepinst, StepIn, Issue, TempInv
  <2>4. CASE Finish
    BY <2>1, <2>4, FinishTemp
  <2>5. CASE StepOver
    BY <2>1, <2>5, StepOverTemp
  <2>6. CASE DebuggerReturns
    BY <2>6, ReturnsTemp
  <2>7. CASE at' \in {"prompt", "gone"}
    BY <2>7 DEF TempInv, Resuming
  <2>8. CASE \/ \E a \in BreakAt : BreakAddress(a)
             \/ \E f \in Functions : BreakFunction(f.name)
             \/ \E n \in SourceLines : BreakLine(n)
    <3>1. at = "prompt" /\ at' = at
      BY <2>8, UserBreaks DEF UserAdds, AtOnce, ctlVars
    <3> QED BY <2>7, <3>1
  <2>9. CASE \/ \E t \in JumpTo  : RegisterWrite(t)
             \/ \E w \in Patches : MemoryWrite(w)
    <3>1. at = "prompt" /\ at' = at
      BY <2>9 DEF RegisterWrite, MemoryWrite, Prompt, AtOnce, ctlVars
    <3> QED BY <2>7, <3>1
  <2>10. CASE BreakData \/ LookupThrows \/ Quit
    BY <2>7, <2>10 DEF BreakData, LookupThrows, Quit, Dies
  <2> QED BY <1>2, <2>2, <2>3, <2>4, <2>5, <2>6, <2>8, <2>9, <2>10 DEF Next, UserStep
<1> QED BY <1>1, <1>2

\* The command is stopped by its own breakpoint in the frame of the address.
LEMMA OwnStopDepth ==
  ASSUME NEW D, IInv, DepthInv(D), ContinueReturns, status = "brkpt", cpu'.rip \in temp
  PROVE  /\ ~Dead /\ Resuming
         /\ cpu'.rip \in temp \cap Addr /\ Len(cpu.ret) = D[cpu'.rip]
<1>1. at = "cont" /\ cpu' = Rewound
  BY DEF ContinueReturns, WaitReturns
<1>2. cpu' = At(cpu, cpu.rip - 1) /\ cpu \in Cpu /\ cpu.rip - 1 \in Addr
  BY <1>1 DEF Rewound, IInv, TypeOK, ControlInv, Blocked
<1>3. cpu'.rip = cpu.rip - 1 /\ cpu'.ret = cpu.ret
  BY <1>2 DEF At, Cpu
<1>4. CpuSeen = cpu' /\ ~Dead
  BY <1>1 DEF CpuSeen, Blocked, Dead
<1> QED BY <1>1, <1>2, <1>3, <1>4 DEF DepthInv, InLayer, Resuming

LEMMA TextInvariance ==
  ASSUME Patches = {}, JumpTo = {}, Overwrites = FALSE, Rebreaks = FALSE
  PROVE  Spec => [](IInv /\ TrapsPlanted /\ TextInv)
<1>1. Init => TextInv
  BY Starts
<1>2. IInv /\ TrapsPlanted /\ TextInv /\ [Next]_vars => TextInv'
  BY NextRefines, ProgramSteps
<1> QED BY <1>1, <1>2, Invariance, TrapsCorrect, PTL DEF Spec

LEMMA BodyInvariance ==
  ASSUME NEW B, Bodies(B), Patches = {}, JumpTo = {},
         Overwrites = FALSE, Rebreaks = FALSE
  PROVE  Spec => []BodyInv(B)
<1>1. Init => BodyInv(B)
  BY Starts DEF BodyInv, InBody
<1>2. IInv /\ TrapsPlanted /\ TextInv /\ BodyInv(B) /\ [Next]_vars => BodyInv(B)'
  BY NextRefines, StaysInBody
<1> QED BY <1>1, <1>2, TextInvariance, PTL DEF Spec

LEMMA DepthInvariance ==
  ASSUME NEW D, Layered(D), Patches = {}, JumpTo = {},
         Overwrites = FALSE, Rebreaks = FALSE
  PROVE  Spec => []DepthInv(D)
<1>1. Init => DepthInv(D)
  BY StartsInLayer
<1>2. IInv /\ TrapsPlanted /\ TextInv /\ DepthInv(D) /\ [Next]_vars => DepthInv(D)'
  BY NextRefines, StaysInLayer
<1> QED BY <1>1, <1>2, TextInvariance, PTL DEF Spec

LEMMA TempInvariance ==
  ASSUME NEW D, Layered(D), NEW B, Bodies(B), Patches = {}, JumpTo = {},
         Overwrites = FALSE, Rebreaks = FALSE
  PROVE  Spec /\ GivenIn(B) => [](IInv /\ DepthInv(D) /\ TempInv(D))
<1>1. Init => TempInv(D)
  BY DEF Init, TempInv, Resuming
<1>2. /\ IInv /\ DepthInv(D) /\ BodyInv(B) /\ TempInv(D) /\ [Next]_vars
      /\ [Finish \/ StepOver => cpu.rip \in B]_vars
      => TempInv(D)'
  BY NextTemp
<1> QED BY <1>1, <1>2, Invariance, BodyInvariance, DepthInvariance, PTL DEF Spec, GivenIn

(***************************************************************************)
(* finish that is stopped by its own breakpoint has left exactly the frame *)
(* it was given in: in every program whose calls are layered, of a user    *)
(* who writes neither memory nor rip, sets no breakpoint twice, and gives  *)
(* finish and next in bodies of functions.                                 *)
(***************************************************************************)
THEOREM FinishLeaves ==
  ASSUME NEW D, Layered(D), NEW B, Bodies(B), Patches = {}, JumpTo = {},
         Overwrites = FALSE, Rebreaks = FALSE
  PROVE  Spec /\ GivenIn(B) => FinishLeavesTheFrame
<1>1. IInv /\ DepthInv(D) /\ TempInv(D) /\ OwnStop("finish") => Len(cpu.ret) = depth - 1
  BY OwnStopDepth DEF OwnStop, TempInv, InOuterFrame
<1>2. IInv /\ DepthInv(D) /\ TempInv(D) /\ [Next]_vars
        => [OwnStop("finish") => Len(cpu.ret) = depth - 1]_vars
  BY <1>1
<1> QED BY <1>2, TempInvariance, PTL DEF Spec, FinishLeavesTheFrame

(***************************************************************************)
(* Under the same conditions next that is stopped by one of its own        *)
(* breakpoints is in the frame it was given in, or in the caller's.        *)
(***************************************************************************)
THEOREM NextStaysInFrame ==
  ASSUME NEW D, Layered(D), NEW B, Bodies(B), Patches = {}, JumpTo = {},
         Overwrites = FALSE, Rebreaks = FALSE
  PROVE  Spec /\ GivenIn(B) => NextStepsOverCalls
<1>1. IInv /\ DepthInv(D) /\ TempInv(D) /\ OwnStop("next") => Len(cpu.ret) \in {depth - 1, depth}
  BY OwnStopDepth DEF OwnStop, TempInv, InBothFrames
<1>2. IInv /\ DepthInv(D) /\ TempInv(D) /\ [Next]_vars
        => [OwnStop("next") => Len(cpu.ret) \in {depth - 1, depth}]_vars
  BY <1>1
<1> QED BY <1>2, TempInvariance, PTL DEF Spec, NextStepsOverCalls

(***************************************************************************)
(* backtrace prints every frame up to main, in recursive programs too, of  *)
(* a user who writes neither memory nor rip, sets no breakpoint twice, and *)
(* only looks at the frames in bodies of functions.                        *)
(***************************************************************************)
THEOREM BacktraceIsComplete ==
  ASSUME NEW B, Bodies(B), Patches = {}, JumpTo = {},
         Overwrites = FALSE, Rebreaks = FALSE
  PROVE  Spec /\ LooksOnlyIn(B) => []BacktraceComplete
<1>1. ASSUME BodyInv(B), at = "prompt" => cpu.rip \in B
      PROVE  BacktraceComplete
  <2>1. SUFFICES ASSUME at = "prompt", Stopped
                 PROVE  Backtrace(cpu.rip) = Printed(<<cpu.rip>> \o cpu.ret)
    BY DEF BacktraceComplete
  <2>2. ~Dead
    BY <2>1 DEF Stopped, StopCause, Dead
  <2>3. Chain = cpu.ret
    BY <1>1, <2>1, <2>2, ChainInBody
  <2> QED BY <2>3 DEF Backtrace
<1> QED BY <1>1, BodyInvariance, PTL DEF LooksOnlyIn
=============================================================================
