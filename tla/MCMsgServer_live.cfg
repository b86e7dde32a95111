CONSTANTS
  c1 = c1
  c2 = c2
  c3 = c3
  s1 = s1
  Conns = {c1, c2}
  FDs = {5, 6}
  NoConn = NoConn
  Packets <- ClientPackets
  MaxSends <- TwoAndOne
  Patient = {c1}
  BatchMax = 2
  Phantom <- NoRequest
  Requests <- ServerRequests
  CLIENTS_MAX = 1
  PER_LOOP = 2
  PACKET_MAX = 1
  MaxReads = 8
SPECIFICATION ServerSpec
INVARIANTS
  ServerTypeOK
  AstrayOnlyAfterCut
  NothingOverlooked
PROPERTIES
  ServerStops
  DescriptorComesBack
CHECK_DEADLOCK FALSE
