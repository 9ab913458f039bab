SPECIFICATION FairSpec
CONSTANTS
  N = 2
  MaxEvents = 1
  EntryCap = 1
  MaxResults = 2
  Stamp <- MixedStamps
  Options <- LiveOptions
PROPERTIES
  FiniteSearchReturns
  CancelReturns
  FollowStartsAll
