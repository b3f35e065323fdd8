CONSTANTS
  N = 2
  Registers <- Read
  Timeout = 3
  Attempts = 2
  Capacity = 4
  DiscoveryTicks = 30
  ActionTicks = 10
  Delay = 2
SPECIFICATION Spec
INVARIANTS AnswerExpected
