SPECIFICATION FairSpec
CONSTANTS
  NStreams = 1
  Size = 2
  Sized = {1}
  MaxRead = 2
  MaxRewinds = 1
  RewindAnywhere = TRUE
  EarlyResponse = FALSE
INVARIANTS SentIsTheStream
CHECK_DEADLOCK FALSE
