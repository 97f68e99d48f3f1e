SPECIFICATION Spec
CONSTANTS
  N = 7
  MaxBlocks = 3
  HalfClose = FALSE
INVARIANTS TypeOK NextIsFirstMissing QueueExact SackTruthful FinCounted
