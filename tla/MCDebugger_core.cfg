CONSTANTS
  Addr <- MCAddr
  Key <- MCKey
  Target <- MCTarget
  Text <- MCText
  Rows <- MCRows
  LineNo <- MCLineNo
  Functions <- MCFunctions
  CuLow = 10
  CuHigh = 20
  DataNames = {"g"}
  Entry = 60
  StackLimit = 3
  X = "call"
  Signals = TRUE
  Commands = {"continue", "break", "finish", "next", "backtrace", "variables", "quit"}
  BreakAt = {41, 47, 50}
  SourceLines = {2, 16}
  Patches <- NoPatches
  JumpTo = {}
  Rebreaks = FALSE
  Overwrites = FALSE
  Dyn = TRUE
  Base = 30
  LoadGarbage = {0}
SPECIFICATION FairSpec
INVARIANTS IInv TrapsPlanted TableAsAsked StepsOffTheTrap
PROPERTIES Transparent NoBreakpointMissed CommandReturns
CHECK_DEADLOCK FALSE
