CONSTANTS
  Columns = 3
  Rows = 7
  Prompt = 1
  Texts <- MCTexts
  MaxTop = 2
SPECIFICATION Spec
INVARIANTS LineShown CursorShown
CHECK_DEADLOCK FALSE
