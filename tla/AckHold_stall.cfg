SPECIFICATION Spec
CONSTANTS
  MSS = 3
  AH = 2
  SRU = 9
  WND = 2
  SPA = 1
  Thresh = 2
  RecovBurst = 2
  IsHA = TRUE
  IsRtxReq = FALSE
  NoDelay = FALSE
  DelAck = FALSE
  MaxDrops = 1
PROPERTY TimeoutRetransmits
CHECK_DEADLOCK FALSE
