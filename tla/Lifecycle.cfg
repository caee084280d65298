SPECIFICATION FairSpec
CONSTANTS
  MaxSignals = 2
  MaxPushes = 2
  MaxRequesters = 2
INVARIANTS
  TypeOK
  FreedAfterThreads
  StaleOnlyWhenTold
PROPERTIES
  Ends
CHECK_DEADLOCK FALSE
