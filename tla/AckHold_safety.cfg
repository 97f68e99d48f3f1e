SPECIFICATION Spec
CONSTANTS
  MSS = 3
  AH = 2
  SRU = 8
  WND = 3
  SPA = 1
  Thresh = 3
  RecovBurst = 2
  IsHA = TRUE
  IsRtxReq = FALSE
  NoDelay = FALSE
  DelAck = TRUE
  MaxDrops = 1
INVARIANTS TypeOK AckOrder ResumeSafe
PROPERTIES AsksAgain AcksNeverRetreat ImplementsBlockTransfer
CHECK_DEADLOCK FALSE
