SPECIFICATION PatientSpec
CONSTANTS
  r1 = r1
  r2 = r2
  Req = {r1}
  Loops = {1, 2}
  Ids = {i1}
  MaxChunks = 2
  NoReq = NoReq
  NoLoop = NoLoop
  NoId = NoId
  LoopMayFail = FALSE
  InfoMayFail = FALSE
  LateUnpauseFails = TRUE
  WakeupMayFail = TRUE
  RefusalMayFail = TRUE
  MayCancel = TRUE
  MayRereadEnd = FALSE
PROPERTIES RequestResolves ReadResolves ReleasedIsFreed LoopsEnd
CHECK_DEADLOCK FALSE
