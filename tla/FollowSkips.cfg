SPECIFICATION FairSpec
CONSTANTS
  Length <- Pairs
  BufCap = 3
  MaxLine = 2
  Inodes = 2
  Truncates = 0
  HandOver = TRUE
PROPERTY
  NoSilentSkip
