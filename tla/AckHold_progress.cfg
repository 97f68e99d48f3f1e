SPECIFICATION FairSpec
CONSTANTS
  MSS = 4
  AH = 2
  SRU = 12
  WND = 2
  SPA = 1
  Thresh = 3
  RecovBurst = 2
  IsHA = TRUE
  IsRtxReq = FALSE
  NoDelay = FALSE
  DelAck = FALSE
  MaxDrops = 0
PROPERTY AllAcked
CHECK_DEADLOCK FALSE
