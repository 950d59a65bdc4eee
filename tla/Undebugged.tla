----------------------------- MODULE Undebugged -----------------------------
(***************************************************************************)
(* The abstract specification of what a debugger owes the debugged         *)
(* process: the process executes the instructions of its own text, in its  *)
(* own order, as if no breakpoint had ever been written into it.  The user *)
(* may change the text (memory write) and move rip (register write) and    *)
(* nothing else ever does.  A stop is a stuttering step here.              *)
(***************************************************************************)
EXTENDS Cpu

CONSTANTS Text, Entry,
          Patches,   \* words the user writes into the text
          JumpTo     \* addresses the user moves rip to

VARIABLES text, cpu, alive

vars == <<text, cpu, alive>>

Unmapped == [a \in Addr |-> BadByte]

Init ==
  /\ text  = Text
  /\ cpu   = [rip |-> Entry, ret |-> <<>>, linked |-> FALSE]
  /\ alive = TRUE

ExecutesOwnText ==
  /\ alive
  /\ cpu.rip \in Addr
  /\ Executes(text[cpu.rip], cpu, cpu')
  /\ UNCHANGED <<text, alive>>

\* The program exits, or could not be executed in the first place.
Ends ==
  /\ alive
  /\ \/ cpu.rip \in Addr /\ text[cpu.rip] = "exit"
     \/ cpu = [rip |-> Entry, ret |-> <<>>, linked |-> FALSE]
  /\ alive' = FALSE
  /\ text'  = Unmapped
  /\ UNCHANGED cpu

UserPatches(w) ==
  /\ alive
  /\ text' = [a \in Addr |-> IF a \in DOMAIN w THEN w[a] ELSE text[a]]
  /\ UNCHANGED <<cpu, alive>>

UserMoves(t) ==
  /\ alive
  /\ cpu' = At(cpu, t)
  /\ UNCHANGED <<text, alive>>

Next ==
  \/ ExecutesOwnText
  \/ Ends
  \/ \E w \in Patches : UserPatches(w)
  \/ \E t \in JumpTo  : UserMoves(t)

Spec == Init /\ [][Next]_vars
=============================================================================
