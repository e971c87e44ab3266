SPECIFICATION ExtFairSpec
CONSTANTS
  Clients = {k1, k2, k3}
  NoClient = NoClient
  Requests = {q1, q2}
  Rooms = {r1, r2}
CHECK_DEADLOCK FALSE
INVARIANTS
  NothingWaitsOnClosed
  OneVoice
  QuiescedIsMute
PROPERTIES
  ActivityIsReported
  QuiescedLeaves
  ConnectEndsOnceDialed
