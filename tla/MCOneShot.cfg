CONSTANTS
  JointCount = 2
  Kinds = {"move", "hold"}
  Builds <- AllBuilds
  Found = {"on"}
  MaxBus = 2
  MaxEvents = 2
SPECIFICATION Spec
INVARIANTS VerifiedModeIsTrue EnablesFindTheirMode QuietIsOff
PROPERTIES CompletedIsOff ActionEnds
CHECK_DEADLOCK FALSE
