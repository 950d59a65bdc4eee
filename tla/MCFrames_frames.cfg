CONSTANTS
  Addr <- MCAddr
  Key <- MCKey
  Target <- MCTarget
  Text <- MCText
  Rows <- MCRows
  LineNo <- MCLineNo
  Functions <- MCFunctions
  CuLow = 10
  CuHigh = 25
  DataNames = {}
  Entry = 60
  StackLimit = 3
  Signals = FALSE
  Commands = {"continue", "break", "finish", "next", "backtrace", "quit"}
  BreakAt = {52, 46, 48}
  SourceLines = {}
  Patches <- NoPatches
  JumpTo = {}
  Rebreaks = FALSE
  Overwrites = FALSE
  Dyn = TRUE
  Base = 30
  LoadGarbage = {0}
SPECIFICATION Spec
PROPERTIES FinishLeavesTheFrame NextStepsOverCalls
INVARIANT BacktraceComplete
CHECK_DEADLOCK FALSE
