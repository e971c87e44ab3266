SPECIFICATION InboundSpec
CONSTANTS
  Messages <- MCMessages
  Notices <- MCNotices
  From <- MCFrom
  Time <- MCTime
  Asks = {}
  MaxTurns = 2
  MaxFails = 1
  MaxGens = 2
INVARIANTS NothingLost SurfacedOnceUnlessRevived QueueInOrder ClaimIsExclusive
PROPERTY QueuedSurfaces
CHECK_DEADLOCK FALSE
