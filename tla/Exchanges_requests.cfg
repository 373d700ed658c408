SPECIFICATION MCSpec
CONSTANTS
  NChunks = 3
  ChunkSize = 3
  BodyLen = 4
  MayFail = TRUE
  MayRefuse = TRUE
  MayCancel = TRUE
  SyncBodies <- MCSyncBodies
  SyncClients <- MCSyncClients
  Uris <- MCUris
  U32Max = 8
  ChunkBufferSize = 5
  SyncLimits <- MCSyncLimits
  ResponseLen = 3
  HeaderValues <- MCHeaderValues
  Timeouts <- MCTimeouts
  NoTimeout = NoTimeout
  WinrtLimits <- MCWinrtLimits
  NoLimit = NoLimit
  WinrtLen = 3
  TextLens = {2, 4}
  BufMax = 2
  MaxTime = 5
  Modes = {"async", "blocking"}
  NsLen = 3
  NsLimit = 2
  MaxBuf = 2
  MaxMoves = 2
  Threads = {1, 2}
  Sides <- MCSides
  ReqwestBodies <- MCReqwestBodies
  BufLen = 1
  ReqwestLimit = 2
  MaxCalls = 2
  Backends <- MCBackends
  Methods <- MCMethods
  Defaults <- MCDefaults
  Headers <- MCHeaders
  MessageBodies <- MCMessageBodies
  ContentNames <- MCContentNames
INVARIANTS CallbackHasContext BodiesAreWhole ServerReadsTheBody ResponseIsExact ResponseIsHonest TimeoutIsTheBudget SuspendedOnce BodyIsRead HeadersAreSent
PROPERTIES BufferIsStable ReadResolves ContextIsFreed BytesAreHonest CallsReturn
CHECK_DEADLOCK FALSE
