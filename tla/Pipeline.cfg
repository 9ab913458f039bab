SPECIFICATION FairSpec
CONSTANTS
  N = 2
  MaxEvents = 2
  EntryCap = 1
  MaxResults = 2
  Stamp <- MixedStamps
  Options <- SafetyOptions
INVARIANTS
  SuccessIsComplete
  ReportNeverBlocks
  NoSendAfterClose
  NoGoroutineLeft
  SourceFailureReported
PROPERTY
  KeepsContract
