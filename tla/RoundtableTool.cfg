SPECIFICATION MCSpec
CONSTANTS
  s1 = s1
  s2 = s2
  planner = planner
  critic = critic
  Rooms = {r1}
  Ids = {s1, s2}
  Names = {planner, critic}
  SeqArgs = {}
  Topics = {}
  NoTopic = NoTopic
  Capacity = 3
  Calls = {k1, k2}
  RoleOf <- MCRoleOf
  PageLimit = 2
  MaxSeq = 4
SYMMETRY MCSymmetry
CHECK_DEADLOCK FALSE
INVARIANTS
  ReadMeansFetched
  ExportAccountsForAll
