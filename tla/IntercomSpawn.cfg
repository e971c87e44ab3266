SPECIFICATION SpawnSpec
CONSTANTS
  Procs = {p1, p2}
  Brokers = {b1, b2}
  MaxStarts = 3
  MaxTries = 2
  None = None
INVARIANTS LockHasOwner OneOwnerUnlessRobbed
PROPERTY LoneSessionGetsLock
CHECK_DEADLOCK FALSE
