SPECIFICATION Spec
CONSTANTS
  r1 = r1
  r2 = r2
  Req = {r1, r2}
  Loops = {1, 2}
  Ids = {i1, i2}
  MaxChunks = 0
  NoReq = NoReq
  NoLoop = NoLoop
  NoId = NoId
  LoopMayFail = TRUE
  InfoMayFail = TRUE
  LateUnpauseFails = TRUE
  WakeupMayFail = FALSE
  RefusalMayFail = TRUE
  MayCancel = TRUE
  MayRereadEnd = FALSE
INVARIANTS InProgressOnCurrentLoop HandlesAreCurrent EasyInOnePlace
PROPERTIES NoLiveTransferLost SuccessIsKept
SYMMETRY Symmetry
CHECK_DEADLOCK FALSE
