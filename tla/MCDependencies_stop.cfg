SPECIFICATION FairSpec
CONSTANTS
  Producers = {p1, p2, p3}
  NoProducer = NoProducer
  ShutdownTimeoutMs = 0
  MaxInFlight = 1
INVARIANTS
  Acyclic
  NoCircularWait
  StopsAfterDependencies
  SearchFindsDependencies
PROPERTIES
  AllStop
CHECK_DEADLOCK FALSE
