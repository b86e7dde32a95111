SPECIFICATION Spec
CONSTANTS
  Objects <- TwoThreads
  Requests <- TheRequests
  NoRequest <- NoPair
  MaxSockets = 2
  MaxFaults = 2
  Files <- SomeFiles
  FirstID <- Counter
  DigitBase = 2
  SegmentSize = 2
  HeaderLength = 1
  LengthRange = 7
  MaxMessages = 4
INVARIANTS
  TypeOK
  FirstSegmentIsOwn
  InsidePool
  SessionsDiffer
PROPERTY GetsThrough
CHECK_DEADLOCK FALSE
