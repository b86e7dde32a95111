CONSTANTS
  c1 = c1
  c2 = c2
  c3 = c3
  s1 = s1
  Conns = {c1, c2, c3}
  FDs = {5, 6}
  NoConn = NoConn
  Packets <- ClientPackets
  MaxSends <- OneEach
  Patient = {c1, c2, c3}
  BatchMax = 2
  Phantom <- NoRequest
  Requests <- ServerRequests
  CLIENTS_MAX = 2
  PER_LOOP = 2
  PACKET_MAX = 2
  MaxReads = 8
SPECIFICATION ServerSpec
PROPERTIES
  CutForReason
CHECK_DEADLOCK FALSE
