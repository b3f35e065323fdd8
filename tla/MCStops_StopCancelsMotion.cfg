CONSTANTS
  m1 = m1
  m2 = m2
  Profiles <- BenchOnly
  Motors <- OneMotor
  CommandCapacity = 2
  ResultCapacity = 2
  DeferredCapacity = 2
  MaxAge = 1
  MaxRequests = 4
  MaxStops = 1
  MaxSessions = 1
  MaxFaults = 0
SPECIFICATION Spec
PROPERTIES StopCancelsMotion
