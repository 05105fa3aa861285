SPECIFICATION FuseFairSpec
CONSTANTS
  Consumers = {c1}
  FuseProducers = {p1, p2}
  HasCheck = {p1, p2}
  Nobody = Nobody
  MaxCommands = 2
INVARIANTS
  FuseInvariant
PROPERTIES
  FuseRecovers
CHECK_DEADLOCK FALSE
