SPECIFICATION FairSpec
CONSTANTS
  NChunks = 1
  ChunkSize = 1
  BodyLen = 1
  MayFail = TRUE
  MayRefuse = FALSE
  MayCancel = FALSE
PROPERTIES RequestResolves
CHECK_DEADLOCK FALSE
