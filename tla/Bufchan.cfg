SPECIFICATION LiveSpec
CONSTANTS
  Emitter = {g1}
  InqueueSize <- Queues4x2
  MaxEmits <- Emits0x5
  TimedEmit = FALSE
  Closers <- ServerOnly
  Losers <- ServerOnly
  Watchers <- ClientOnly
INVARIANTS TypeOK SingleMoreInFlight CreditConserved NoOverflow
PROPERTIES WaitingEmitterResumes DoneIsRead WindowSpec
