------------------------------ MODULE Debugger ------------------------------
(***************************************************************************)
(* class debugger of launch_exec.cpp with class breakpoint of              *)
(* include/breakpoint.h: the table of software breakpoints and the         *)
(* commands that run, step and patch the debugged process.                 *)
(*                                                                         *)
(* A command runs to its next waitpid in one step: nothing else changes    *)
(* the stopped process meanwhile.  While the debugger blocks in waitpid    *)
(* the process runs.  The variable at says which waitpid that is, cmd      *)
(* whose frame is on the debugger's stack.                                 *)
(***************************************************************************)
EXTENDS Tracee, DebugInfo

CONSTANTS
  Commands,      \* the commands the user gives
  BreakAt,       \* addresses given to "break 0x..."
  SourceLines,   \* lines given to "break file:line"
  Patches,       \* words given to "memory write": functions from the
                 \* addresses of the word to opcodes
  JumpTo,        \* addresses given to "register write rip"
  Rebreaks,      \* may the user set a breakpoint where one is set already?
  Overwrites,    \* may the user write memory where a breakpoint is set?
  Dyn,           \* is the program position-independent (ET_DYN)?
  Base,          \* run-time minus link-time addresses
  LoadGarbage    \* what m_load_address may hold before it is assigned

\* What m_load_address may hold at the prompt: run assigns it for ET_DYN only.
Loads == IF Dyn THEN {Base} ELSE LoadGarbage

ASSUME DebuggerAssumption ==
  /\ BreakAt \subseteq Key
  /\ JumpTo \subseteq Key
  /\ Base \in Int /\ LoadGarbage \subseteq Int
  /\ {Rebreaks, Overwrites, Dyn} \subseteq BOOLEAN
  /\ \A w \in Patches : DOMAIN w \subseteq Addr /\ \A a \in DOMAIN w : w[a] \in Byte
  /\ \A r \in Rows \cup {CuHigh}, l \in Loads : r + l \in Key

VARIABLES
  addr_to_bp,      \* keys of the table of breakpoints
  m_enabled,       \* those of them that are enabled
  m_data,          \* m_data[k]: byte saved by the breakpoint at k
  m_load_address,
  at,              \* where the debugger is: "launch", "prompt", "gone", or
                   \* the waitpid it blocks in: "over", "single", "cont"
  cmd,             \* command being executed
  over,            \* the breakpoint step_over_breakpoint refers to
  temp,            \* the breakpoints the command is to remove at its end
  line,            \* local variable of step_in
  asked,           \* history: breakpoints the user has asked for
  depth            \* history: frames on the stack when cmd was given

bpVars  == <<addr_to_bp, m_enabled, m_data>>
ctlVars == <<at, cmd, over, temp, line>>
history == <<asked, depth>>
vars    == <<traceeVars, bpVars, m_load_address, ctlVars, history>>

Blocked == at \in {"launch", "over", "single", "cont"}
NoData  == [k \in Key |-> BadByte]

Init ==
  /\ TraceeInit
  /\ addr_to_bp = {} /\ m_enabled = {} /\ m_data = NoData
  /\ m_load_address \in LoadGarbage
  /\ at = "launch" /\ cmd = "none"
  /\ over = NoAddr /\ temp = {} /\ line = 0
  /\ asked = {} /\ depth = 0

-----------------------------------------------------------------------------
(* Breakpoints: memory m and saved bytes d after enabling or disabling the *)
(* breakpoints at K.                                                       *)

\* (Mutants.  enable that loses its poke, disable that loses its poke, enable
\* that does not save the byte.)
EnabledNot(m, K)     == m
DisabledNot(m, d, K) == m
SavedNot(m, d, K)    == d

Enabled(m, K)     == Poke(m, [a \in Addr |-> INT3], K)
Saved(m, d, K)    == [k \in Key |-> IF k \in K THEN Peek(m, k) ELSE d[k]]
Disabled(m, d, K) == Poke(m, d, K)
Erased(d, K)      == [k \in Key |-> IF k \in K THEN BadByte ELSE d[k]]

\* A fresh breakpoint is enabled at each address of K and takes the place of
\* the one the table held there.
AddBreakpoints(K) ==
  /\ mem'        = Enabled(mem, K)
  /\ m_data'     = Saved(mem, m_data, K)
  /\ addr_to_bp' = addr_to_bp \cup K
  /\ m_enabled'  = m_enabled \cup K

-----------------------------------------------------------------------------
(* The registers, as read: of a process that is gone PTRACE_GETREGS reads  *)
(* nothing, so any address may come out of the uninitialized structure; a  *)
(* PTRACE_PEEKDATA yields -1.                                              *)

ProgramCounter(c) == IF Dead THEN Key ELSE {c.rip}

\* (Mutants.  The unwinding is a frame ahead; the word behind the right one.)
ChainAhead == IF Dead \/ Len(Chained(cpu)) < 2 THEN <<>> ELSE Tail(Chained(cpu))
SavedReturnAhead ==
  IF Dead \/ Len(Chained(cpu)) < 2 THEN NoAddr ELSE Chained(cpu)[2]

Chain             == IF Dead THEN <<>> ELSE Chained(cpu)
SavedReturn       == IF Chain = <<>> THEN NoAddr ELSE Head(Chain)
Offset(pc)        == pc - m_load_address   \* get_offset_load_address

\* (Mutant.  The load address is subtracted where it is to be added.)
LoadedBack(r)     == r - m_load_address
Loaded(r)         == r + m_load_address    \* get_offset_dwarf_address

-----------------------------------------------------------------------------
(* wait_for_signal and handle_bptrap.  An int3 puts rip back on the trap   *)
(* and looks up its line, which throws where there is none.  Of a process  *)
(* that is gone the siginfo_t is uninitialized: it may say anything.       *)

\* (Mutants.  A wait that does not report an exit; rip is left behind the trap.)
ReportedStop == Blocked /\ Stopped
RewoundNot   == cpu

Reported == Blocked /\ (Stopped \/ Dead)
Rewound  == IF status = "brkpt" THEN At(cpu, cpu.rip - 1) ELSE cpu
Throws   == status = "brkpt" /\ ~HasLine(Offset(Rewound.rip))

WaitReturns == Reported /\ ~Throws /\ cpu' = Rewound
WaitThrows  == Reported /\ (Throws \/ Dead) /\ cpu' = Rewound

\* Nothing catches the exceptions: one ends the debugger in mid-command.
Dies == at' = "gone" /\ cmd' = "none"

HandlerThrows ==
  /\ at # "launch"
  /\ WaitThrows
  /\ Dies
  /\ UNCHANGED <<mem, status, bpVars, m_load_address, over, temp, line, history>>

\* run: the first stop, then initialize_load_address, whose stol throws on
\* the empty map of a process that is gone.
Launch ==
  /\ at = "launch"
  /\ WaitReturns \/ WaitThrows
  /\ \/ /\ Stopped \/ ~Dyn
        /\ at' = "prompt"
        /\ m_load_address' = IF Dyn THEN Base ELSE m_load_address
     \/ /\ Dead
        /\ at' = "gone"
        /\ UNCHANGED m_load_address
  /\ UNCHANGED <<mem, status, bpVars, cmd, over, temp, line, history>>

-----------------------------------------------------------------------------
(* Resuming the process, from memory m and breakpoints B of which E are    *)
(* enabled, with the program counter read as pc.                           *)

\* (Mutant.  disable that does not reset m_enabled.)
StepOffFlagged(m, B, E, pc) ==
  /\ mem' = Disabled(m, m_data', {pc})
  /\ addr_to_bp' = B /\ m_enabled' = E
  /\ at' = "over" /\ over' = pc
  /\ status' = Resumed("stepping")

\* The first half of step_over_breakpoint: disable, PTRACE_SINGLESTEP.  (It reads
\* the program counter twice, here once: without a process the two reads may differ.)
StepOff(m, B, E, pc) ==
  /\ mem' = Disabled(m, m_data', {pc})
  /\ addr_to_bp' = B
  /\ m_enabled' = E \ {pc}
  /\ at' = "over" /\ over' = pc
  /\ status' = Resumed("stepping")

Resume(m, B, E, where, how) ==
  /\ mem' = m /\ addr_to_bp' = B /\ m_enabled' = E
  /\ at' = where /\ over' = NoAddr
  /\ status' = Resumed(how)

\* continue_execution
ContinueFrom(m, B, E, pc) ==
  IF pc \in B \cap E THEN StepOff(m, B, E, pc)
                     ELSE Resume(m, B, E, "cont", "running")

\* single_step_instruction_with_bp_check
StepFrom(m, B, E, pc) ==
  IF pc \in B THEN pc \in E /\ StepOff(m, B, E, pc)
              ELSE Resume(m, B, E, "single", "stepping")

-----------------------------------------------------------------------------
(* Commands.                                                               *)

Prompt(c) == at = "prompt" /\ c \in Commands
Issue(c)  == cmd' = c /\ depth' = Len(cpu.ret)

\* A command that changes nothing but the process and the table.
AtOnce == UNCHANGED <<status, m_load_address, ctlVars, depth>>

Continue ==
  /\ Prompt("continue")
  /\ Issue("continue")
  /\ m_data' = m_data
  /\ \E pc \in ProgramCounter(cpu) : ContinueFrom(mem, addr_to_bp, m_enabled, pc)
  /\ UNCHANGED <<cpu, m_load_address, temp, line, asked>>

UserAdds(K) ==
  /\ Rebreaks \/ K \cap addr_to_bp = {}
  /\ AddBreakpoints(K)
  /\ asked' = asked \cup K
  /\ UNCHANGED cpu
  /\ AtOnce

BreakAddress(a) == Prompt("break") /\ UserAdds({a})

\* set_bp_at_func
BreakFunction(name) ==
  /\ Prompt("break")
  /\ UserAdds({Loaded(r) : r \in BodyRows(name)})

\* ... which throws at an entry of that name without a DW_AT_low_pc.  (Names are
\* unique, see DebugInfo: no function of that name came before the entry.)
BreakData ==
  /\ Prompt("break")
  /\ DataNames # {}
  /\ Dies
  /\ UNCHANGED <<traceeVars, bpVars, m_load_address, over, temp, line, history>>

BreakLine(n) == Prompt("break") /\ UserAdds({Loaded(r) : r \in RowsForLine(n)})

\* register write rip; the request fails on a process that is gone.
RegisterWrite(t) ==
  /\ Prompt("register write")
  /\ cpu' = IF Dead THEN cpu ELSE At(cpu, t)
  /\ UNCHANGED <<mem, bpVars, asked>>
  /\ AtOnce

\* write_memory
MemoryWrite(w) ==
  /\ Prompt("memory write")
  /\ Overwrites \/ DOMAIN w \cap addr_to_bp = {}
  /\ mem' = Poke(mem, w, DOMAIN w)
  /\ UNCHANGED <<cpu, bpVars, asked>>
  /\ AtOnce

Stepinst ==
  /\ Prompt("stepinst")
  /\ Issue("stepinst")
  /\ m_data' = m_data
  /\ \E pc \in ProgramCounter(cpu) : StepFrom(mem, addr_to_bp, m_enabled, pc)
  /\ UNCHANGED <<cpu, m_load_address, temp, line, asked>>

\* Of the addresses K, those that no breakpoint is set at already.  (Mutant:
\* the check is missing.)
MissingAll(K) == K
Missing(K)    == K \ addr_to_bp

\* step_out: a temporary breakpoint at the return address.
Finish ==
  /\ Prompt("finish")
  /\ Issue("finish")
  /\ \E pc \in ProgramCounter(cpu) :
       /\ temp' = Missing({SavedReturn})
       /\ m_data' = Saved(mem, m_data, temp')
       /\ ContinueFrom(Enabled(mem, temp'), addr_to_bp \cup temp',
                       m_enabled \cup temp', pc)
  /\ UNCHANGED <<cpu, m_load_address, line, asked>>

\* step_over: temporary breakpoints at every row of the function but the
\* current one, and at the return address.
StepOver ==
  /\ Prompt("next")
  /\ Issue("next")
  /\ \E pc \in ProgramCounter(cpu) :
       /\ HasFunction(Offset(pc)) /\ HasLine(Offset(pc))
       /\ LET rows == RowsOf(FunctionAt(Offset(pc))) \ {Row(Offset(pc))}
          IN  temp' = Missing({Loaded(r) : r \in rows} \cup {SavedReturn})
       /\ m_data' = Saved(mem, m_data, temp')
       /\ ContinueFrom(Enabled(mem, temp'), addr_to_bp \cup temp',
                       m_enabled \cup temp', pc)
  /\ UNCHANGED <<cpu, m_load_address, line, asked>>

\* step_in: single steps until the line changes.
StepIn ==
  /\ Prompt("step")
  /\ Issue("step")
  /\ m_data' = m_data
  /\ \E pc \in ProgramCounter(cpu) :
       /\ HasLine(Offset(pc))
       /\ line' = LineAt(Offset(pc))
       /\ StepFrom(mem, addr_to_bp, m_enabled, pc)
  /\ UNCHANGED <<cpu, m_load_address, temp, asked>>

\* The functions backtrace prints, innermost first, given the addresses its
\* frames are at: up to the first one in main.  It throws before that if an
\* address is in no function.
FrameName(pc) ==
  IF HasFunction(Offset(pc)) THEN FunctionAt(Offset(pc)).name ELSE "none"
Printed(pcs) ==
  LET last == {i \in DOMAIN pcs : FrameName(pcs[i]) \in {"main", "none"}}
  IN  IF last = {} THEN pcs
      ELSE SubSeq(pcs, 1, CHOOSE i \in last : \A j \in last : i <= j)
Backtrace(pc) == Printed(<<pc>> \o Chain)
ThrowsUnwinding(pc) ==
  LET pcs == Backtrace(pc) IN FrameName(pcs[Len(pcs)]) # "main"

\* The lookups of next, step and backtrace throw where the program counter, or
\* a return address, is in no function or on no line; those of variables may
\* always throw, since the evaluation of a location does too.
Lookup(c, pc) ==
  CASE c = "next"      -> HasFunction(Offset(pc)) /\ HasLine(Offset(pc))
    [] c = "step"      -> HasLine(Offset(pc))
    [] c = "variables" -> FALSE
    [] c = "backtrace" -> ~ThrowsUnwinding(pc)

LookupThrows ==
  /\ \E c \in {"next", "step", "variables", "backtrace"}, pc \in ProgramCounter(cpu) :
       Prompt(c) /\ ~Lookup(c, pc)
  /\ Dies
  /\ UNCHANGED <<traceeVars, bpVars, m_load_address, over, temp, line, history>>

\* run returns and with it main: the end of the debugger.
Quit ==
  /\ Prompt("quit")
  /\ Dies
  /\ UNCHANGED <<traceeVars, bpVars, m_load_address, over, temp, line, history>>

-----------------------------------------------------------------------------
(* The rest of a command, from the return of the waitpid it blocked in.    *)

Idle == at' = "prompt" /\ cmd' = "none" /\ over' = NoAddr /\ temp' = {} /\ line' = 0

\* (Mutant.  enable that does not set m_enabled.)
HaltDisabled(m, E, how) ==
  /\ mem' = m
  /\ UNCHANGED <<addr_to_bp, m_enabled, status>>
  /\ how

Halt(m, E, how) ==
  /\ mem' = m /\ m_enabled' = E
  /\ UNCHANGED <<addr_to_bp, status>>
  /\ how

\* After a single step, with the process at pc.
StepReturns(m, E, pc) ==
  \/ /\ cmd = "stepinst"        \* looks up the line of the absolute address
     /\ Halt(m, E, IF HasLine(pc) THEN Idle ELSE Dies /\ UNCHANGED <<over, temp, line>>)
  \/ /\ cmd = "step" /\ ~HasLine(Offset(pc))
     /\ Halt(m, E, Dies /\ UNCHANGED <<over, temp, line>>)
  \/ /\ cmd = "step" /\ HasLine(Offset(pc)) /\ LineAt(Offset(pc)) # line
     /\ Halt(m, E, Idle)
  \/ /\ cmd = "step" /\ HasLine(Offset(pc)) /\ LineAt(Offset(pc)) = line
     /\ StepFrom(m, addr_to_bp, E, pc)
     /\ UNCHANGED <<cmd, temp, line>>

\* The second half of step_over_breakpoint: enable, then on with the command.
StepOffReturns ==
  /\ at = "over"
  /\ WaitReturns
  /\ m_data' = Saved(mem, m_data, {over})
  /\ LET m == Enabled(mem, {over})
         E == m_enabled \cup {over}
     IN  \/ /\ cmd \in {"continue", "finish", "next"}
            /\ Resume(m, addr_to_bp, E, "cont", "running")
            /\ UNCHANGED <<cmd, temp, line>>
         \/ \E pc \in ProgramCounter(cpu') : StepReturns(m, E, pc)
  /\ UNCHANGED <<m_load_address, history>>

SingleStepReturns ==
  /\ at = "single"
  /\ WaitReturns
  /\ m_data' = m_data
  /\ \E pc \in ProgramCounter(cpu') : StepReturns(mem, m_enabled, pc)
  /\ UNCHANGED <<m_load_address, history>>

\* The end of continue_execution: finish and next remove what they added.
ContinueReturns ==
  /\ at = "cont"
  /\ WaitReturns
  /\ mem' = Disabled(mem, m_data, temp \cap m_enabled)
  /\ addr_to_bp' = addr_to_bp \ temp
  /\ m_enabled' = m_enabled \ temp
  /\ m_data' = Erased(m_data, temp)
  /\ Idle
  /\ UNCHANGED <<status, m_load_address, history>>

-----------------------------------------------------------------------------
UserStep ==
  \/ Continue \/ Stepinst \/ Finish \/ StepOver \/ StepIn
  \/ \E a \in BreakAt : BreakAddress(a)
  \/ \E f \in Functions : BreakFunction(f.name)
  \/ \E n \in SourceLines : BreakLine(n)
  \/ BreakData
  \/ \E t \in JumpTo : RegisterWrite(t)
  \/ \E w \in Patches : MemoryWrite(w)
  \/ LookupThrows
  \/ Quit

DebuggerReturns ==
  Launch \/ HandlerThrows \/ StepOffReturns \/ SingleStepReturns \/ ContinueReturns

ProcessStep == UNCHANGED <<bpVars, m_load_address, ctlVars, history>>

Next ==
  \/ TraceeStep /\ ProcessStep
  \/ SignalArrives /\ ProcessStep
  \/ UserStep
  \/ DebuggerReturns

Spec == Init /\ [][Next]_vars

(***************************************************************************)
(* The kernel schedules a process that is not stopped, and waitpid returns *)
(* once there is something to report.  Nothing makes the user type, and    *)
(* nothing makes a signal arrive.                                          *)
(***************************************************************************)
FairSpec ==
  /\ Spec
  /\ WF_vars(TraceeStep /\ ProcessStep)
  /\ WF_vars(DebuggerReturns)
=============================================================================
