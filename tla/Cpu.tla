-------------------------------- MODULE Cpu --------------------------------
(***************************************************************************)
(* What an instruction of the debugged program does to the registers the   *)
(* debugger looks at.  Nothing of this is the debugger's own code: it is   *)
(* the processor, modelled from how launch_exec.cpp uses it (a software    *)
(* breakpoint is the one-byte instruction 0xcc, the program counter is     *)
(* rip, a frame is found through rbp).                                     *)
(*                                                                         *)
(* One address stands for one instruction.  A byte is the low byte of the  *)
(* instruction at an address, that is its opcode: the only byte of it that *)
(* a breakpoint replaces.  Operands (the targets of a jump or a call) are  *)
(* not replaced, so they stay attached to the address.                     *)
(***************************************************************************)
EXTENDS Integers, Sequences

CONSTANTS
  Addr,        \* run-time addresses of the mapped instructions
  Key,         \* every address that may be named, mapped or not
  Target,      \* Target[a]: where the jump or call at a may go
  StackLimit   \* frames the stack has room for; a call beyond it faults

NoAddr == -1   \* what reading an unmapped word of the stack yields

ASSUME KeyAssumption ==
  /\ Addr \subseteq Key
  /\ Key \subseteq Int
  /\ NoAddr \in Key \ Addr
  /\ \A a \in Addr : a + 1 \in Key
ASSUME TargetAssumption == Target \in [Addr -> SUBSET Addr]
ASSUME StackAssumption  == StackLimit \in Nat

INT3    == "int3"   \* 0xcc
BadByte == "ff"     \* low byte of the -1 a failed PTRACE_PEEKDATA returns

Byte == {"nop", "jump", "call", "enter", "leave", "ret", "fault", "exit",
         INT3, BadByte}

(***************************************************************************)
(* rip, the return addresses on the stack (innermost first), and whether   *)
(* rbp designates the frame of the innermost one.  It does so from the end *)
(* of a function's prologue ("enter": push rbp; mov rbp,rsp) to its        *)
(* epilogue ("leave"); outside of that rbp is still the caller's.          *)
(***************************************************************************)
Cpu == [rip : Key, ret : Seq(Key), linked : BOOLEAN]

At(c, a) == [c EXCEPT !.rip = a]

(***************************************************************************)
(* Executing opcode b in state c retires an instruction and leaves d.      *)
(***************************************************************************)
Executes(b, c, d) ==
  /\ c.rip \in Addr
  /\ \/ b = "nop"   /\ d = At(c, c.rip + 1)
     \/ b = "jump"  /\ \E t \in Target[c.rip] : d = At(c, t)
     \/ b = "enter" /\ d = [At(c, c.rip + 1) EXCEPT !.linked = TRUE]
     \/ b = "leave" /\ d = [At(c, c.rip + 1) EXCEPT !.linked = FALSE]
     \/ b = "call"  /\ Len(c.ret) < StackLimit
                    /\ \E t \in Target[c.rip] :
                         d = [rip |-> t, ret |-> <<c.rip + 1>> \o c.ret,
                              linked |-> FALSE]
     \/ b = "ret"   /\ c.ret # <<>>
                    /\ d = [rip |-> Head(c.ret), ret |-> Tail(c.ret),
                            linked |-> TRUE]

(***************************************************************************)
(* The opcode cannot be executed there: a bad access, a fetch from an      *)
(* unmapped address, or a stack that is used up.                           *)
(***************************************************************************)
Faults(b, c) ==
  \/ c.rip \notin Addr
  \/ b \in {"fault", BadByte}
  \/ b = "call" /\ Len(c.ret) >= StackLimit
  \/ b = "ret"  /\ c.ret = <<>>

(***************************************************************************)
(* The return addresses found along the chain of saved frame pointers that *)
(* starts at rbp: read_memory(rbp + 8) is the first.  As long as rbp is    *)
(* the caller's, the innermost frame is not in the chain.                  *)
(***************************************************************************)
Chained(c) == IF c.linked \/ c.ret = <<>> THEN c.ret ELSE Tail(c.ret)
=============================================================================
