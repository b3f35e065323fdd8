CONSTANTS
  Capacity <- Slots
  MaxFrames = 4
  MaxPreemptions = 2
  MaxResets = 1
SPECIFICATION Spec
INVARIANTS RingsKeep 
PROPERTIES BufferHeld AllSent
CHECK_DEADLOCK FALSE
