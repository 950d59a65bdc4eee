CONSTANTS
  Addr <- MCAddr
  Key <- MCKey
  Target <- MCTarget
  Text <- MCText
  Rows <- MCRows
  LineNo <- MCLineNo
  Functions <- MCFunctions
  CuLow = 10
  CuHigh = 20
  DataNames = {"g"}
  Entry = 60
  StackLimit = 3
  X = "int3"
  Signals = TRUE
  Commands = {"continue", "break", "next", "stepinst", "step", "memory write", "register write"}
  BreakAt = {12}
  SourceLines = {}
  Patches <- MCPatches
  JumpTo = {15}
  Rebreaks = FALSE
  Overwrites = FALSE
  Dyn = FALSE
  Base = 0
  LoadGarbage = {0, 3}
SPECIFICATION Spec
INVARIANTS TypeOK TrapsPlanted TableAsAsked StepsOffTheTrap
PROPERTIES Transparent
CHECK_DEADLOCK FALSE
