SPECIFICATION LiveSpec
CONSTANTS
  Kinds       <- ServerAndPuller
  MaxRequests = 4
  PoolSize    = 1
  MaxRuns     = 2
  Hasty       <- ServerOnly
INVARIANTS TypeOK RequestsAccounted LoopIsStoppable
PROPERTIES StopEndsRun EventsExecuted
CHECK_DEADLOCK FALSE
