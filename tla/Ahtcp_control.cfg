SPECIFICATION FairSpec
CONSTANTS
  S = 3
  PAY = 4
  HDR = 1
  SRU = 11
  Para = 1
  KX = 2
  P = 2
INVARIANTS TypeOK FinMeansAll Paced LooksInTime
PROPERTY AppFinishes
CHECK_DEADLOCK FALSE
