SPECIFICATION FairSpec
CONSTANTS
  N = 6
  W = 4
  IW = 10
  MaxDupSyn = 3
  Thresh = 3
  LoseUpdate = FALSE
  MaxDrops = 2
  MaxEarly = 1
INVARIANTS TypeOK AckOrder WindowRespected NoSpuriousRetransmit
PROPERTY AllAcked
CHECK_DEADLOCK FALSE
