SPECIFICATION Spec
CONSTANTS
  t1 = t1
  t2 = t2
  connSet = connSet
  Threads <- BothThreads
  ConnSetObj = connSet
  Objects <- AllObjects
  Processes <- SomeProcesses
  Requests <- ThreeRequests
  NoRequest = 0
  MaxSockets = 3
  MaxFaults = 1
  SessionLengths <- SomeSessions
  PayloadLengths <- SomePayloads
INVARIANTS
  TypeOK
  SentOnce
  OwnReply
  LostByReconnecting
PROPERTIES
  HopelessForEver
  RefusedIsRetried
CHECK_DEADLOCK FALSE
