SPECIFICATION LiveSpec
CONSTANTS
  MaxItems = 2
  Window = 2
  Losers <- End
INVARIANTS AfterHookOfStream
CHECK_DEADLOCK FALSE
