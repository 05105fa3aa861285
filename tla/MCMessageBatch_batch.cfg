SPECIFICATION FairSpec
CONSTANTS
  writer1 = writer1
  writer2 = writer2
  flusher = flusher
  Threads <- MCThreads
  Calls <- MCCalls
  Messages = {m1, m2}
  NoMessage = NoMessage
  MaxMessageCount = 1
  CountRange = 8
  MaxTickets = 3
  MaxPanics = 1
  FlushTimeout = 0
INVARIANTS
  OneFlushAtATime
  NoWriterInAssembledBuffer
  NeverLostNorDoubled
  CloseFlushesAll
PROPERTIES
  ImplementsBatch
CHECK_DEADLOCK FALSE
