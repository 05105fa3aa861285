SPECIFICATION Spec
CONSTANTS
  Confs <- MCConfs
  Inputs <- MCInputs
  Settings <- MCSettings
  StreamType <- MCStreamType
  ProducerType <- MCProducerType
  ReceiverType <- MCReceiverType
  Directives <- MCDirectives
  Documents <- MCDocuments
  Truncated <- MCTruncated
  Tokens <- MCTokens
  MaxMessages = 2
  MaxTokens = 4
INVARIANTS
  FormattersFit
  FieldsStayApart
  OnlyNamedFieldsChange
  DocumentsSurvive
  DistinctTokensAreFound
CHECK_DEADLOCK FALSE
