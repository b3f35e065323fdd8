CONSTANTS
  RxCapacity = 5
  LineCapacity = 4
  Packets <- SomePackets
  MaxPackets = 4
SPECIFICATION RxSpec
INVARIANTS UnreadIsStored LinesAreParsed
CHECK_DEADLOCK FALSE
