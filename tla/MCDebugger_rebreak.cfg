CONSTANTS
  Addr <- MCAddr
  Key <- MCKey
  Target <- MCTarget
  Text <- MCText
  Rows <- MCRows
  LineNo <- MCLineNo
  Functions <- MCFunctions
  CuLow = 10
  CuHigh = 20
  DataNames = {"g"}
  Entry = 60
  StackLimit = 3
  X = "nop"
  Signals = FALSE
  Commands = {"continue", "break"}
  BreakAt = {41}
  SourceLines = {}
  Patches <- NoPatches
  JumpTo = {}
  Rebreaks = TRUE
  Overwrites = FALSE
  Dyn = TRUE
  Base = 30
  LoadGarbage = {0}
SPECIFICATION Spec
INVARIANT OwnByteRestored
CHECK_DEADLOCK FALSE
