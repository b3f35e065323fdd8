SPECIFICATION Spec
CONSTANTS
  JointCount = 1
  Capacity = 1
  RxDepth = 2
  Stale = 1
  MaxTime = 3
  MaxGates = 3
  MaxTx = 1
INVARIANTS DatedSafely OpensAfterwards OffIsOff
