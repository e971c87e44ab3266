SPECIFICATION LifeFairSpec
CONSTANTS
  Procs = {p1, p2, p3}
  NoProc = NoProc
  ChmodMayFail = TRUE
  CrashPoints <- KilledAnywhere
CHECK_DEADLOCK FALSE
INVARIANTS
  StartupExclusive
  ListenFindsPathFree
PROPERTIES
  StartupNeverSteals
  SpawnEndsWithBroker
