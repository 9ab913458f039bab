SPECIFICATION FairSpec
CONSTANTS
  Length <- Pairs
  BufCap = 3
  MaxLine = 2
  Inodes = 3
  Truncates = 0
  HandOver = FALSE
INVARIANT
  SurvivesRotation
