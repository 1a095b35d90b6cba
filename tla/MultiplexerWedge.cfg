SPECIFICATION LiveSpec
CONSTANTS
  c1 = c1
  c2 = c2
  c3 = c3
  c4 = c4
  Chan <- Four
  Roles = {"client"}
  PoolSize = 1
  MaxSent <- Sent
  Needed <- Reads
  Closers <- OnlyFirst
PROPERTIES EventsDelivered
CHECK_DEADLOCK FALSE
