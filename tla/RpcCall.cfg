SPECIFICATION LiveSpec
CONSTANTS
  MaxItems = 5
  Window = 4
  Losers <- End
INVARIANTS TypeOK AnswersInOrder ExhaustedIsComplete  DoneReleases HooksNest
PROPERTIES CallReturns 
CHECK_DEADLOCK FALSE
