SPECIFICATION MCFairSpec
CONSTANTS
  Rooms = {r1}
  MaxId = 4
  Ids <- MCIds
  Names = {planner, critic}
  Topics = {}
  NoTopic = NoTopic
  SeqArgs <- MCSeqArgs
  Capacity = 2
  Conns = {c1, c2, c3}
  NoId = NoId
  Grace = 1
  MaxSeq = 3
CHECK_DEADLOCK FALSE
INVARIANTS
  SessionsMatchSockets
  MembersHaveSockets
  RetainsNewest
  CursorWithinLog
PROPERTIES
  ImplementsRoomLog
  IdleExit
