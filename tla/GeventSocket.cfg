SPECIFICATION LiveSpec
CONSTANTS
  Room = 2
  MaxIn = 3
  MaxOut = 4
INVARIANTS TypeOK NoMissedEvent
PROPERTIES EveryMessageReceived EverySendReturns
CHECK_DEADLOCK FALSE
