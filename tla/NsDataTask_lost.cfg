SPECIFICATION FairSpec
CONSTANTS
  Modes = {"async"}
  BodyLen = 2
  Limit = 2
  MaxBuf = 1
  MaxMoves = 0
  MayFail = FALSE
PROPERTIES RequestResolves
CHECK_DEADLOCK FALSE
