SPECIFICATION Spec
CONSTANTS
  a = a
  b = b
  Producers = {p1, p2, p3}
  UserStreams = {a, b}
  Wildcard = Wildcard
  Dropped = Dropped
  LogInternal = LogInternal
  ListenChoices <- SomeListens
  DropChoices <- SomeDrops
  WriteChoices <- SomeWrites
  PluginStreams = {a, Dropped}
SYMMETRY Symmetry
INVARIANTS
  RegistryInvariant
PROPERTIES
  LateStreamsAreComplete
CHECK_DEADLOCK FALSE
