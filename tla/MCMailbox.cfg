CONSTANTS
  m1 = m1
  m2 = m2
  Motors <- TwoMotors
  Profiles <- Bench
  CommandCapacity = 2
  ResultCapacity = 1
  DeferredCapacity = 2
  Slots = 2
  MaxUi = 2
  MaxUsb = 1
SPECIFICATION Spec
INVARIANTS HeldOnce StopKept OneOwner
PROPERTIES StopsAndAnswers
CHECK_DEADLOCK FALSE
