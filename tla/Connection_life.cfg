SPECIFICATION FairSpec
CONSTANTS
  MSS = 3
  Data <- OneSegment
  Calls <- OneCall
  SPA = 1
  Thresh = 3
  MaxDrops = 1
  MaxEarly = 1
  CloseIn = {"ESTABLISHED"}
INVARIANTS TypeOK AckOrder
PROPERTIES Opens Finishes
CHECK_DEADLOCK FALSE
