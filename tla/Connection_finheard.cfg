SPECIFICATION Spec
CONSTANTS
  MSS = 3
  Data <- TwoSegments
  Calls <- OneCall
  SPA = 1
  Thresh = 3
  MaxDrops = 1
  MaxEarly = 1
  CloseIn = {"ESTABLISHED"}
INVARIANT FinHeard
CHECK_DEADLOCK FALSE
