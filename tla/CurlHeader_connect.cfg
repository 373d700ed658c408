SPECIFICATION ConnectSpec
CONSTANTS
  t1 = t1
  t2 = t2
  Threads = {t1, t2}
  MaxRequests = 3
  BodyLen = 2
  Limit = 1
  MayFail = TRUE
  MayRefuse = TRUE
  EasyClients <- MCClients
  EasyRequests <- MCRequests
  MaxUses = 2
  Drivers = {"a", "b"}
  Sections <- MCSections
  MaxRounds = 2
  Responses <- MCResponses
INVARIANTS HeaderIsFinal
CHECK_DEADLOCK FALSE
