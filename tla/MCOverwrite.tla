---------------------------- MODULE MCOverwrite ----------------------------
(***************************************************************************)
(* The program of MCDebugger and its user, with a history of what the      *)
(* program file and the user have put into memory: Debugger's steps, and   *)
(* beside each of them what it means for that history.                     *)
(***************************************************************************)
EXTENDS MCDebugger

VARIABLE meant   \* meant[a]: the opcode the file or the user last put at a

Remembers(w) == meant' = [a \in Addr |-> IF a \in DOMAIN w THEN w[a] ELSE meant[a]]

MeantInit == Init /\ meant = Text
MeantNext ==
  \/ \E w \in Patches : MemoryWrite(w) /\ Remembers(w)
  \/ Next /\ UNCHANGED meant /\ ~\E w \in Patches : MemoryWrite(w)
MeantSpec == MeantInit /\ [][MeantNext]_<<vars, meant>>

(***************************************************************************)
(* "memory write" writes the specified value at the address: what the      *)
(* process executes is what the user has last written there, or else what  *)
(* the program file has.  (Stepping off a breakpoint puts back the byte    *)
(* from before the write.)                                                 *)
(***************************************************************************)
ExecutesWhatWasWritten ==
  [][Instruction => Fetched = meant[cpu.rip]]_<<vars, meant>>
=============================================================================
