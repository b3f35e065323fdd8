CONSTANTS
  m1 = m1
  m2 = m2
  Profiles <- BenchOnly
  Motors <- TwoMotors
  CommandCapacity = 2
  ResultCapacity = 1
  DeferredCapacity = 1
  MaxAge = 1
  MaxRequests = 3
  MaxStops = 2
  MaxSessions = 1
  MaxFaults = 1
SPECIFICATION Spec
INVARIANTS FinishedIsDead StopGateBacked TerminalOrder
PROPERTIES OnlyFaultsDrop StopHoldsOthersBack StopCoversCancelled StopsAnswered
