SPECIFICATION Spec
CONSTANTS
  Names <- MCNames
  SystemMetrics = 1
  MaxDumps = 1
  Entries <- MCEntries
  AcceptFiles = {"log"}
  ExceptPaths = {"/old"}
  Matches <- MCMatches
  Concurrencies = {0, 1}
  SliceSize = 5000
  NumTags = 4
  Consumers <- MCConsumers
  FilesConsumer = "files"
  Producers <- MCProducers
  MaxNew = 1
  MaxLateNew = 1
  MaxSignals = 1
INVARIANTS ReportIsComplete WithinConcurrency ConsumersFirst
PROPERTIES ExitEndsProcess
CHECK_DEADLOCK FALSE
