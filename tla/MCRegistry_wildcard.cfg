SPECIFICATION Spec
CONSTANTS
  a = a
  b = b
  Producers = {p1, p2}
  UserStreams = {a, b}
  Wildcard = Wildcard
  Dropped = Dropped
  LogInternal = LogInternal
  ListenChoices <- SomeListens
  DropChoices <- SomeDrops
  WriteChoices <- SomeWrites
  PluginStreams = {a}
SYMMETRY Symmetry
INVARIANTS
  WildcardGetsAllStreams
CHECK_DEADLOCK FALSE
