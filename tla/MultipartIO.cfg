SPECIFICATION LiveSpec
CONSTANTS
  Messages = 3
  Parts = 3
  Interruptions = 2
INVARIANTS TypeOK WholeOrNothing ReceivedAsSent
PROPERTIES ReturnedIsDelivered
CHECK_DEADLOCK FALSE
