SPECIFICATION FairSpec
CONSTANTS
  s1 = s1
  s2 = s2
  p1 = p1
  p2 = p2
  m1 = m1
  m2 = m2
  m3 = m3
  Producers = {p1, p2}
  Sources = {s1, s2}
  Counted = {s1, p1, p2}
  Closing = {p1, p2}
  Messages = {m1, m2, m3}
  NoMessage = NoMessage
  Reads <- MessagesOf
  Listeners <- First
  DropListeners <- DropChain
  DependsOn <- OrderedStop
  Accepts <- FilterOne
  Capacity <- Rooms
  Timeout <- EveryTimeout
  ShutdownTimeout <- BothGiveUp
  CountRange = 1
INVARIANTS
  NoSendOnClosedChannel
  EveryCallEndsOnce
  StoppingIsOrdered
PROPERTIES
  NeverRevived
  ShutdownCompletes
CHECK_DEADLOCK FALSE
