----------------------------- MODULE MCDebugger -----------------------------
(***************************************************************************)
(* A small program for TLC, laid out as gcc -g lays out                    *)
(*    void f() { if (..) X; }    int main() { f(); ..; }                   *)
(* at link-time addresses 10..19, loaded Base higher, and called from      *)
(* start-up code without debug information at 60.  X is the opcode of the  *)
(* conditional statement: a call of f itself, an int3, a bad access...     *)
(***************************************************************************)
EXTENDS DebuggerProperties

CONSTANT X

ASSUME XAssumption == X \in Byte

MCLink(a) == a - Base
MCAddr    == {r + Base : r \in 10 .. 19} \cup {60, 61}
MCKey     == MCAddr \cup {a + 1 : a \in MCAddr} \cup {NoAddr}
             \cup {r + l : r \in 10 .. 20, l \in Loads}

MCText == [a \in MCAddr |->
  CASE MCLink(a) \in {10, 15} -> "enter"  [] MCLink(a) = 11       -> "call"
    [] MCLink(a) = 12         -> "nop"    [] MCLink(a) \in {13, 18} -> "leave"
    [] MCLink(a) \in {14, 19} -> "ret"    [] MCLink(a) = 16       -> "jump"
    [] MCLink(a) = 17         -> X
    [] a = 60 -> "call"                   [] a = 61 -> "exit"]
MCTarget == [a \in MCAddr |->
  CASE MCLink(a) \in {11, 17} -> {Base + 15}
    [] MCLink(a) = 16         -> {Base + 17, Base + 18}
    [] a = 60                 -> {Base + 10}
    [] OTHER                  -> {}]

MCRows   == {10, 11, 12, 13, 15, 16, 17, 18}
MCLineNo == [r \in MCRows |->
  CASE r = 10 -> 6 [] r = 11 -> 7 [] r = 12 -> 8 [] r = 13 -> 9
    [] r = 15 -> 1 [] r = 16 -> 2 [] r = 17 -> 3 [] r = 18 -> 4]
MCFunctions == {[name |-> "main", low |-> 10, high |-> 15],
                [name |-> "f",    low |-> 15, high |-> 20]}

\* Words the user writes: over the statement in main, and over that in f.
NoPatches == {}
MCPatches == {[a \in {Base + 12} |-> "leave"], [a \in {Base + 17, Base + 18} |-> "nop"]}
=============================================================================
