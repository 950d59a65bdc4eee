CONSTANTS
  Typed = {"letter", "enter", "accent", "emoji", "left", "home", "delete", "R"}
  MaxKeys = 3
  AnswerRoom = 8
SPECIFICATION Spec
INVARIANTS KeysDecoded WaitsForItsBytes WidthAsked
CHECK_DEADLOCK FALSE
