CONSTANTS
  Lines <- MCLines
  SourceLength = 6
  Tables <- MCTables
  Functions <- MCFunctions
SPECIFICATION Spec
INVARIANTS SplitRejoins AbbreviationsRun TerminalReturned RawRemembered SourceShown VariablesShown
PROPERTIES RegisterWrites
CHECK_DEADLOCK FALSE
