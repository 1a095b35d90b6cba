SPECIFICATION Spec
CONSTANTS
  Emitter = {g1}
  InqueueSize <- Queues2x3
  MaxEmits <- Emits2x2
  TimedEmit = TRUE
  Closers = {}
  Losers = {}
  Watchers = {}
PROPERTIES ExpiredEmitFails
