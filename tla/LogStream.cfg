SPECIFICATION FairSpec
CONSTANTS
  MaxEntries = 5
  MaxLen = 3
  HistoryCount = 2
  Buffer = 1
  MaxFails = 2
  Faults <- MCFaults
CHECK_DEADLOCK FALSE
INVARIANTS
  TypeOK
  HeardIsDelivered
PROPERTIES
  InOrder
  StreamEnds
  NothingLeaks
