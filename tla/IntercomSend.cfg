SPECIFICATION SendFairSpec
CONSTANTS
  p = p
  k = k
  l = l
  slot = slot
  m1 = m1
  m2 = m2
  b1 = b1
  Sessions = {p, k, l}
  NoSession = NoSession
  Caps = {slot}
  NoCap = NoCap
  CapsOf <- MCCapsOf
  OwnerOf <- MCOwnerOf
  SlotOf <- MCSlotOf
  AnyName = "*"
  NoName = NoName
  NoReply = NoReply
  MaxEntries = 1
  Names = {"parent", "child", "other"}
  NameAtStart <- MCNameAtStart
  NewNamesOf <- MCNewNamesOf
  GroupOf <- MCGroupOf
  TokenOf <- MCTokenOf
  Sends <- MCSends
  SendsOf <- MCSendsOf
  MaxAttempts = 2
INVARIANTS
  AnswersAreOwn
  AckMeansForwarded
  DeliveredOnce
  GroupsCrossedVertically
  OneChildPerSlot
PROPERTY
  SendsSettle
CHECK_DEADLOCK FALSE
