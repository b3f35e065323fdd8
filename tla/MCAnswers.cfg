CONSTANTS
  m1 = m1
  m2 = m2
  Profiles <- BothProfiles
  Motors <- OneMotor
  CommandCapacity = 2
  ResultCapacity = 1
  DeferredCapacity = 1
  MaxAge = 1
  MaxRequests = 3
  MaxStops = 1
  MaxSessions = 2
  MaxFaults = 0
SPECIFICATION Spec
INVARIANTS NoTerminalLost MotionGateBacked
PROPERTIES ContractSpec AllAnswered
