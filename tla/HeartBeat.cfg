SPECIFICATION Spec
CONSTANTS
  Freq = 3
  Delay = 1
  Slack = 1
  Passive <- End
  Mortals <- End
  Stallers <- End
  Closers <- End
INVARIANTS TypeOK NoFalseAlarm LossDetected ClosedStopsBeating
CHECK_DEADLOCK FALSE
