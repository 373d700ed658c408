SPECIFICATION ReqwestSpec
CONSTANTS
  NStreams = 1
  Size = 1
  Sized = {1}
  MaxRead = 2
  MaxRewinds = 0
  RewindAnywhere = FALSE
  EarlyResponse = FALSE
  ReqwestBodies <- MCReqwestBodies
  NsBodies <- MCNsBodies
  Capacity = 2
  WinrtStreams = {1}
  WinrtSized = {1}
  SyncSized = TRUE
  SyncHandlers = TRUE
  WinrtBytes = 3
INVARIANTS EndIsWhole
CHECK_DEADLOCK FALSE
