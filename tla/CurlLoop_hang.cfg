SPECIFICATION FairSpec
CONSTANTS
  r1 = r1
  r2 = r2
  Req = {r1}
  Loops = {1, 2}
  Ids = {i1, i2}
  MaxChunks = 1
  NoReq = NoReq
  NoLoop = NoLoop
  NoId = NoId
  LoopMayFail = TRUE
  InfoMayFail = FALSE
  LateUnpauseFails = FALSE
  WakeupMayFail = FALSE
  RefusalMayFail = FALSE
  MayCancel = FALSE
  MayRereadEnd = FALSE
PROPERTIES RequestResolves
CHECK_DEADLOCK FALSE
