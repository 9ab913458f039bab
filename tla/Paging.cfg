SPECIFICATION FairSpec
CONSTANTS
  Env = {"SET"}
  Tokens = {"t1", "t2"}
  Pages <- SamplePages
  Configs <- SampleConfigs
INVARIANTS
  SuccessIsAllPages
  NoPageTwice
  FailsForACause
PROPERTY
  SourceEnds
