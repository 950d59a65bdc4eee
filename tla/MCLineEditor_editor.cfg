CONSTANTS
  Typed <- EveryKind
  MaxLine = 4
  MaxHistory = 3
  MaxGiven = 4
  MaxKept = 1
  Offers <- SomeOffers
  Prompt = 2
  Columns = 5
SPECIFICATION Spec
INVARIANTS CursorBetweenCharacters CursorOnScreen RecallFits EditorInv HistoryLatest
PROPERTIES EditsText
CHECK_DEADLOCK FALSE
