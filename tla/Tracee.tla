------------------------------ MODULE Tracee ------------------------------
(***************************************************************************)
(* The debugged process as ptrace(2) and waitpid(2) show it: its code, its *)
(* registers, and whether it runs or has stopped.  Forked by main() and    *)
(* executed by execute_debugee(); everything after that is the kernel's    *)
(* and the processor's doing, modelled from how launch_exec.cpp uses it.   *)
(***************************************************************************)
EXTENDS Cpu

CONSTANTS
  Text,      \* Text[a]: opcode the program file has at a
  Entry,     \* address of the first instruction after exec
  Signals    \* whether other processes or timers send it signals

ASSUME TextAssumption ==
  /\ Text \in [Addr -> Byte]
  /\ Entry \in Addr
  /\ Signals \in BOOLEAN

VARIABLES
  mem,       \* mem[a]: opcode now in memory at a
  cpu,       \* registers and return addresses
  status     \* what the process is doing, or why it last stopped

traceeVars == <<mem, cpu, status>>

\* Causes of a stop, as the siginfo_t tells them apart: SIGTRAP after exec
\* (SI_USER), SIGTRAP of an int3 (SI_KERNEL), SIGTRAP of a single step
\* (TRAP_TRACE), SIGSEGV, and any other signal.
StopCause == {"exec", "brkpt", "trace", "segv", "other"}
Status    == {"starting", "running", "stepping", "exited"} \cup StopCause

Running == status \in {"running", "stepping"}
Stopped == status \in StopCause
Dead    == status = "exited"
Fetched == IF cpu.rip \in Addr THEN mem[cpu.rip] ELSE BadByte

Start == [rip |-> Entry, ret |-> <<>>, linked |-> FALSE]

TraceeInit == mem = Text /\ cpu = Start /\ status = "starting"

(***************************************************************************)
(* execute_debugee: the exec of a traced process stops it with a SIGTRAP;  *)
(* when PTRACE_TRACEME or execl fails, the child returns from main.        *)
(***************************************************************************)
ExecStop == status = "starting" /\ status' = "exec"   /\ UNCHANGED <<mem, cpu>>
ExecFail == status = "starting" /\ status' = "exited" /\ UNCHANGED <<mem, cpu>>

Instruction ==
  /\ Running
  /\ Executes(Fetched, cpu, cpu')
  /\ status' = IF status = "stepping" THEN "trace" ELSE status
  /\ UNCHANGED mem

\* int3 leaves rip behind the trap, whoever put the trap there.
Trap ==
  /\ Running
  /\ Fetched = INT3
  /\ cpu' = At(cpu, cpu.rip + 1)
  /\ status' = "brkpt"
  /\ UNCHANGED mem

Fault ==
  /\ Running
  /\ Faults(Fetched, cpu)
  /\ status' = "segv"
  /\ UNCHANGED <<mem, cpu>>

Exit ==
  /\ Running
  /\ Fetched = "exit"
  /\ status' = "exited"
  /\ UNCHANGED <<mem, cpu>>

\* A signal stops a traced process before its next instruction.
SignalArrives ==
  /\ Signals
  /\ Running
  /\ status' = "other"
  /\ UNCHANGED <<mem, cpu>>

TraceeStep == ExecStop \/ ExecFail \/ Instruction \/ Trap \/ Fault \/ Exit

(***************************************************************************)
(* The memory requests.  Both fail on an unmapped address, and on every    *)
(* address once the process is gone.                                       *)
(***************************************************************************)
Mapped     == IF Dead THEN {} ELSE Addr
Peek(m, k) == IF k \in Mapped THEN m[k] ELSE BadByte
Poke(m, d, K) == [a \in Addr |-> IF a \in K \cap Mapped THEN d[a] ELSE m[a]]

\* PTRACE_CONT and PTRACE_SINGLESTEP, which also fail on a process that is gone.
Resumed(how) == IF Dead THEN "exited" ELSE how
=============================================================================
