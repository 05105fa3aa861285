SPECIFICATION WaitSpec
CONSTANTS
  Consumers = {c1}
  FuseProducers = {p1}
  HasCheck = {p1}
  Nobody = Nobody
  MaxCommands = 1
PROPERTIES
  WaitEnds
CHECK_DEADLOCK FALSE
