CONSTANTS
  s1 = s1
  s2 = s2
  s3 = s3
  Requests <- OneSession
  CLIENTS_MAX = 2
  PER_LOOP = 2
  PACKET_MAX = 2
  MaxReads = 3
SPECIFICATION Spec
PROPERTY ProcessedOnce
CHECK_DEADLOCK FALSE
