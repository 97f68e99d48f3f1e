SPECIFICATION FairControlSpec
CONSTANTS
  S = 4
  PAY = 4
  HDR = 1
  SRU = 11
  SSP = 8
  Para = 1
  KX = 2
INVARIANTS ControlTypeOK FinMeansAll Paced
PROPERTY AppFinishes
CHECK_DEADLOCK FALSE
