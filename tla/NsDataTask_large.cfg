SPECIFICATION Spec
CONSTANTS
  Modes = {"async"}
  BodyLen = 3
  Limit = 2
  MaxBuf = 1
  MaxMoves = 0
  MayFail = FALSE
INVARIANTS FullBytes
CHECK_DEADLOCK FALSE
