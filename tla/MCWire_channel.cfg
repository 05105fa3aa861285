SPECIFICATION Spec
CONSTANTS
  m1 = m1
  m2 = m2
  m3 = m3
  m4 = m4
  Modes <- MCModes
  GrowSize = 3
  Messages = {m1, m2, m3, m4}
  Payload <- MCPayload
  Batches <- MCBatches
  Settings <- MCSettings
  MaxSetWriter = 1
  LongestWrite = 15
INVARIANTS
  ThereIsRoom
  WindowIsStream
  Accounted
  ReaderKeepsItsBounds
PROPERTIES
  ImplementsChannel
CHECK_DEADLOCK FALSE
