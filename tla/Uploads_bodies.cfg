SPECIFICATION MCSpec
CONSTANTS
  NStreams = 3
  Size = 3
  Sized = {1, 3}
  MaxRead = 2
  MaxRewinds = 2
  RewindAnywhere = FALSE
  EarlyResponse = TRUE
  ReqwestBodies <- MCReqwestBodies
  NsBodies <- MCNsBodies
  Capacity = 2
  WinrtStreams = {1}
  WinrtSized = {1}
  SyncSized = TRUE
  SyncHandlers = TRUE
  WinrtBytes = 3
INVARIANTS FailEndsTheFuture InvokedOnce
PROPERTIES BodyIsUploaded ReqwestBodyIsSent NsBodyIsUploaded WinrtBodiesAreUploaded UploadsEnd ReadCompletes
CHECK_DEADLOCK FALSE
