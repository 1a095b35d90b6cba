SPECIFICATION EventsSpec
CONSTANTS
  b1 = b1
  b2 = b2
  b3 = b3
  g1 = g1
  g2 = g2
  g3 = g3
  Puller = puller
  Nothing = nothing
  Base <- Bases
  Limit = 2
  MaxNet = 2
  Greenlet <- Greenlets
  Client <- Clients
  Route <- Routes
SYMMETRY Symmetric
INVARIANTS EventsTypeOK Unique RepliesReachTheirCall TraceFollows
CHECK_DEADLOCK FALSE
