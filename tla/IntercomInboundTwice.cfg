SPECIFICATION InboundSpec
CONSTANTS
  Messages <- MCMessages
  Notices <- MCNotices
  From <- MCFrom
  Time <- MCTime
  Asks = {"b1"}
  MaxTurns = 1
  MaxFails = 1
  MaxGens = 1
INVARIANT SurfacedOnce
CHECK_DEADLOCK FALSE
