CONSTANTS
  JointCount = 2
  Capacity = 3
  FifoDepth = 2
  SeqModulus = 16
  Builds <- AllBuilds
  MaxFrames = 4
SPECIFICATION Spec
INVARIANTS InOrder NoControlAfterDisable
PROPERTIES DisableDelivered
