CONSTANTS
  s1 = s1
  s2 = s2
  s3 = s3
  Requests <- OneSession
  CLIENTS_MAX = 2
  PER_LOOP = 1
  PACKET_MAX = 2
  MaxReads = 2
SPECIFICATION Spec
PROPERTY GetMeetsSet
CHECK_DEADLOCK FALSE
