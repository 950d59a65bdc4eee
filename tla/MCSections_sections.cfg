CONSTANTS
  Radix = 4
  ByteBits = 2
  WordBytes = 2
  Sizes = {1, 2}
  AddrSizes = {1, 2, 3}
  Files <- MCFiles
  MaxStep = 2
SPECIFICATION Spec
INVARIANTS HeaderDecoded ReadsInside ReadsNearSection Decodes
CHECK_DEADLOCK FALSE
