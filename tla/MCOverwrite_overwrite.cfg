CONSTANTS
  Addr <- MCAddr
  Key <- MCKey
  Target <- MCTarget
  Text <- MCText
  Rows <- MCRows
  LineNo <- MCLineNo
  Functions <- MCFunctions
  CuLow = 10
  CuHigh = 20
  DataNames = {"g"}
  Entry = 60
  StackLimit = 3
  X = "nop"
  Signals = FALSE
  Commands = {"continue", "break", "memory write"}
  BreakAt = {42}
  SourceLines = {}
  Patches <- MCPatches
  JumpTo = {}
  Rebreaks = FALSE
  Overwrites = TRUE
  Dyn = TRUE
  Base = 30
  LoadGarbage = {0}
SPECIFICATION MeantSpec
PROPERTY ExecutesWhatWasWritten
CHECK_DEADLOCK FALSE
