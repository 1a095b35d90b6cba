SPECIFICATION LiveSpec
CONSTANTS
  c1 = c1
  c2 = c2
  c3 = c3
  c4 = c4
  Chan <- Four
  Roles = {"client", "server"}
  PoolSize = 1
  MaxSent <- Sent
  Needed <- Reads
  Closers = {}
INVARIANTS TypeOK NothingLost
PROPERTIES EventsDelivered RequestsServed
CHECK_DEADLOCK FALSE
