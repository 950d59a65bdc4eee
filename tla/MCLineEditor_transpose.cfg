CONSTANTS
  Typed <- TwoKinds
  MaxLine = 4
  MaxHistory = 2
  MaxGiven = 1
  MaxKept = 1
  Offers = {}
  Prompt = 2
  Columns = 8
SPECIFICATION Spec
INVARIANT KeysAnswered
CHECK_DEADLOCK FALSE
