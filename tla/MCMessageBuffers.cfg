CONSTANTS
  SegmentCount = 3
  TypeEnd = 1
  SessionEnd = 2
  PayloadEnd = 3
  MaxReads = 4
SPECIFICATION Spec
INVARIANTS
  TypeOK
  
  DispatchedAsRead
