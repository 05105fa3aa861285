SPECIFICATION FairSpec
CONSTANTS
  t1 = t1
  t2 = t2
  Threads = {t1, t2}
  CallSets <- MCCallSets
  Messages = {m1, m2, m3, m4}
  NoMessage = NoMessage
  Filtered = {m4}
  Routed = {m3}
  Capacity = 1
  MaxPauses = 2
INVARIANTS
  StreamInvariant
PROPERTIES
  ProcessedIsSent
CHECK_DEADLOCK FALSE
