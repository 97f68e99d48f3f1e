SPECIFICATION FairSpec
CONSTANTS
  N = 4
  W = 4
  M = 3
  MaxRxmit = 2
  MaxDrops = 3
  MaxResent = 1
  MaxEarly = 1
INVARIANTS TypeOK CacheOrder
PROPERTIES SuppressSafe Recovers
CHECK_DEADLOCK FALSE
