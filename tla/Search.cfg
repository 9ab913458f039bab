SPECIFICATION Spec
CONSTANTS
  N = 2
  MaxEvents = 2
  EntryCap = 1
  MaxResults = 2
  Limit = 2
  Window = 0
  Tokens = TRUE
  Groups <- ByRequest
  Loopback = {"127.0.0.1", "0.0.0.0"}
  Content <- Logs
  Searches <- SampleSearches
INVARIANT
  PrintsTheAnswer
PROPERTY
  ImplementsPipeline
