------------------------- MODULE DebuggerProperties -------------------------
(***************************************************************************)
(* What class debugger owes its user and the debugged process.             *)
(***************************************************************************)
EXTENDS Debugger

(***************************************************************************)
(* Types of all variables.                                                 *)
(***************************************************************************)
TypeOK ==
  /\ mem \in [Addr -> Byte]
  /\ cpu \in Cpu
  /\ status \in Status
  /\ addr_to_bp \in SUBSET Key
  /\ m_enabled \in SUBSET Key
  /\ m_data \in [Key -> Byte]
  /\ m_load_address \in Loads \cup LoadGarbage
  /\ at \in {"launch", "prompt", "gone", "over", "single", "cont"}
  /\ cmd \in {"none", "continue", "stepinst", "finish", "next", "step"}
  /\ over \in Key
  /\ temp \in SUBSET Key
  /\ line \in Nat
  /\ asked \in SUBSET Key
  /\ depth \in Nat

(***************************************************************************)
(* An enabled breakpoint is a trap in memory: the flag breakpoint::enable  *)
(* sets never outlives the 0xcc it wrote, through stepping off, temporary  *)
(* breakpoints and their removal.                                          *)
(***************************************************************************)
TrapsPlanted == ~Dead => \A k \in m_enabled \cap Addr : mem[k] = INT3

(***************************************************************************)
(* When a command is done the table holds what the user asked for, no more *)
(* (finish and next remove every breakpoint they added), no less (and none *)
(* of the user's), and all of it is enabled again.                         *)
(***************************************************************************)
TableAsAsked == at = "prompt" => addr_to_bp = asked /\ m_enabled = asked

(***************************************************************************)
(* The process as it would be without a debugger: the saved byte in place  *)
(* of each trap, and rip on the trap that has been hit but not handled.    *)
(***************************************************************************)
SeenIn(m, E, d) == [a \in Addr |-> IF a \in E THEN d[a] ELSE m[a]]

TextSeen == IF Dead THEN [a \in Addr |-> BadByte] ELSE SeenIn(mem, m_enabled, m_data)
CpuSeen  == IF Blocked THEN Rewound ELSE cpu

Program == INSTANCE Undebugged WITH text <- TextSeen, cpu <- CpuSeen, alive <- ~Dead

(***************************************************************************)
(* Breakpoints are transparent: whatever the debugger does, the process    *)
(* executes the instructions of its own text in its own order, and only    *)
(* the user's memory and register writes change that text and that order.  *)
(***************************************************************************)
Transparent == Program!Spec

(***************************************************************************)
(* Getting off a breakpoint (step_over_breakpoint) executes the original   *)
(* instruction: the single step never runs into a trap again.              *)
(***************************************************************************)
StepsOffTheTrap == at = "over" => status # "brkpt"

(***************************************************************************)
(* No breakpoint is missed: an instruction the user has a breakpoint on is *)
(* executed only by the command given after the process stopped there,     *)
(* when step_over_breakpoint steps off it.                                 *)
(***************************************************************************)
NoBreakpointMissed ==
  [][Instruction /\ cpu.rip \in asked => at = "over" /\ over = cpu.rip]_vars

(***************************************************************************)
(* "finish" that is stopped by its own breakpoint at the return address    *)
(* has left exactly the frame it was given in.                             *)
(***************************************************************************)
OwnStop(c) == cmd = c /\ ContinueReturns /\ status = "brkpt" /\ cpu'.rip \in temp

FinishLeavesTheFrame ==
  [][OwnStop("finish") => Len(cpu.ret) = depth - 1]_vars

(***************************************************************************)
(* "next" that is stopped by one of its own breakpoints is in the frame it *)
(* was given in, or in the caller's: it has stepped over the calls.        *)
(***************************************************************************)
NextStepsOverCalls ==
  [][OwnStop("next") => Len(cpu.ret) \in {depth - 1, depth}]_vars

(***************************************************************************)
(* "backtrace" prints the function of every frame from the current one to  *)
(* main, in order.                                                         *)
(***************************************************************************)
BacktraceComplete ==
  at = "prompt" /\ Stopped /\ ~ThrowsUnwinding(cpu.rip)
    => Backtrace(cpu.rip) = Printed(<<cpu.rip>> \o cpu.ret)

(***************************************************************************)
(* When these three are owed (DebuggerProofs).  The program is Layered if  *)
(* each address has a depth of calls it runs at, which is to say that no   *)
(* function calls itself through others, and all rows of a function have   *)
(* the depth of the function.  B are addresses in bodies of functions if   *)
(* the process only gets there through the end of a prologue: rbp is the   *)
(* frame of the function.  The user gives finish and next, or looks at the *)
(* frames, at such addresses.                                              *)
(***************************************************************************)
Layered(D) ==
  /\ D \in [Key -> Nat] /\ D[Entry] = 0
  /\ \A a \in Addr :
       /\ Text[a] \in {"nop", "enter", "leave", "call"} => D[a + 1] = D[a]
       /\ Text[a] = "jump" => \A t \in Target[a] : D[t] = D[a]
       /\ Text[a] = "call" => \A t \in Target[a] : D[t] = D[a] + 1
  /\ \A f \in Functions, r \in Rows, pc \in Key, l \in Loads :
       Contains(f, r) /\ Contains(f, pc - l) => D[r + l] = D[pc]

Bodies(B) == \A a \in Addr :
  /\ Text[a] = "leave" => a + 1 \notin B
  /\ Text[a] = "nop"   => (a + 1 \in B => a \in B)
  /\ Text[a] = "jump"  => (a \in B \/ Target[a] \cap B = {})
  /\ Text[a] = "call"  => Target[a] \cap B = {}

GivenIn(B)  == [][Finish \/ StepOver => cpu.rip \in B]_vars
LooksOnlyIn(B) == [](at = "prompt" => cpu.rip \in B)

(***************************************************************************)
(* Every command comes back to the prompt (or ends the debugger): no       *)
(* waitpid blocks for ever on a process that has a stop or an exit ahead.  *)
(***************************************************************************)
CommandReturns == Blocked ~> ~Blocked

-----------------------------------------------------------------------------
(* The inductive invariant behind TrapsPlanted, TableAsAsked and           *)
(* Transparent (DebuggerProofs).                                           *)

Resuming == at \in {"over", "single", "cont"}

\* Which waitpid can be pending in which state of the process, and what a
\* trap not handled yet looks like.
ControlInv ==
  /\ Running => Resuming
  /\ status = "starting" => at = "launch" /\ cpu = Start
  /\ at \notin {"launch", "gone"} => m_load_address \in Loads
  /\ Blocked /\ status = "brkpt" => cpu.rip - 1 \in Addr

\* The table during each waitpid: the user's breakpoints and the temporary
\* ones, all enabled but for the one being stepped off.
TableInv ==
  /\ at \in {"launch", "prompt"} => temp = {}
  /\ Resuming /\ cmd \in {"stepinst", "step"} => temp = {}
  /\ at # "gone" => addr_to_bp = asked \cup temp /\ asked \cap temp = {}
  /\ at \in {"launch", "prompt", "single", "cont"} => m_enabled = addr_to_bp
  /\ at = "over" => over \in addr_to_bp /\ m_enabled = addr_to_bp \ {over}

IInv == TypeOK /\ ControlInv /\ TableInv

-----------------------------------------------------------------------------
(* What the repository says of its commands and the code does not do.      *)

(***************************************************************************)
(* breakpoint::disable restores the data by attaching the removed byte:    *)
(* the instruction stepped off is the one of the program file (the user    *)
(* writes no memory in the run that checks this).                          *)
(***************************************************************************)
OwnByteRestored == at = "over" /\ over \in Mapped => mem[over] = Text[over]
=============================================================================
