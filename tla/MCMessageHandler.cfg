CONSTANTS
  s1 = s1
  s2 = s2
  s3 = s3
  Requests <- AllKinds
  CLIENTS_MAX = 2
  PER_LOOP = 3
  PACKET_MAX = 2
  MaxReads = 5
SPECIFICATION Spec
INVARIANTS
  TypeOK
  StoredOrDelivered
  StoredInArrivalOrder
  SessionsBounded
PROPERTIES
  FullForEver
  TooLargeForEver
  ImplementsStore
  SetLeavesWindow
CHECK_DEADLOCK FALSE
