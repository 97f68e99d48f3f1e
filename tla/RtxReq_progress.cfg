SPECIFICATION FairSpec
CONSTANTS
  MSS = 2
  AH = 1
  SRU = 5
  WND = 2
  SPA = 1
  Thresh = 2
  RecovBurst = 2
  IsHA = FALSE
  IsRtxReq = TRUE
  NoDelay = FALSE
  DelAck = TRUE
  MaxDrops = 1
PROPERTY AllAcked
CHECK_DEADLOCK FALSE
