------------------------------ MODULE MCFrames ------------------------------
(***************************************************************************)
(* A program with three frames and a loop, for the commands that look at   *)
(* frames:  main() { g(); ..; }   g() { do f(); while (..); ..; }          *)
(*          f() { ..; }           Nothing in it is recursive.              *)
(* Link-time addresses 10..24, loaded 30 higher; the start-up code at 60.  *)
(***************************************************************************)
EXTENDS DebuggerProperties

MCAddr == (40 .. 54) \cup {60, 61}
MCKey  == MCAddr \cup {55, 62, NoAddr}
MCText == [a \in MCAddr |->
  CASE a \in {40, 45, 51}     -> "enter"  [] a \in {43, 49, 53} -> "leave"
    [] a \in {44, 50, 54}     -> "ret"    [] a \in {41, 46, 60} -> "call"
    [] a \in {42, 48, 52}     -> "nop"    [] a = 47             -> "jump"
    [] a = 61                 -> "exit"]
MCTarget == [a \in MCAddr |->
  CASE a = 41 -> {45} [] a = 46 -> {51} [] a = 47 -> {46, 48} [] a = 60 -> {40}
    [] OTHER  -> {}]

MCRows   == {10, 11, 12, 13, 15, 16, 18, 19, 21, 22, 23}
MCLineNo == [r \in MCRows |->
  CASE r = 10 -> 10 [] r = 11 -> 11 [] r = 12 -> 12 [] r = 13 -> 13
    [] r = 15 -> 5  [] r = 16 -> 6  [] r = 18 -> 7  [] r = 19 -> 8
    [] r = 21 -> 1  [] r = 22 -> 2  [] r = 23 -> 3]
MCFunctions == {[name |-> "main", low |-> 10, high |-> 15],
                [name |-> "g",    low |-> 15, high |-> 21],
                [name |-> "f",    low |-> 21, high |-> 25]}
NoPatches == {}

\* The depth of main, of g and of f; the start-up code calls main.  Behind the
\* prologue of a function, and up to its epilogue, rbp is its frame.
MCDepth == [k \in MCKey |->
  CASE k \in 40 .. 44 -> 1 [] k \in 45 .. 50 -> 2 [] k \in 51 .. 54 -> 3 [] OTHER -> 0]
MCBodies == (41 .. 43) \cup (46 .. 49) \cup (52 .. 53) \cup (60 .. 61)

ASSUME FramesAssumption == Layered(MCDepth) /\ Bodies(MCBodies)
=============================================================================
