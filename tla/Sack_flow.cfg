SPECIFICATION MCSpec
CONSTANTS
  N = 11
  W = 7
  Thresh = 2
  NBlocks = 2
  MaxDrops = 4
  MaxEarly = 1
INVARIANTS TypeOK ScoreTruth
PROPERTIES SackKeeps OnlyLost AllAcked
CHECK_DEADLOCK FALSE
