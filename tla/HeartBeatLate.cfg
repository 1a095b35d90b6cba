SPECIFICATION Spec
CONSTANTS
  Freq = 2
  Delay = 1
  Slack = 1
  Passive = {}
  Mortals <- ServerOnly
  Stallers = {}
  Closers = {}
INVARIANT LostAfterTwoIntervals
CHECK_DEADLOCK FALSE
