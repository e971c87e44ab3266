SPECIFICATION FramingSpec
CONSTANTS
  N = 4
  Start <- MCStart
CHECK_DEADLOCK FALSE
INVARIANTS
  NothingStuck
PROPERTIES
  ImplementsDelivery
