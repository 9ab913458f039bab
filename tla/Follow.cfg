SPECIFICATION FairSpec
CONSTANTS
  Length <- UpToLong
  BufCap = 1
  MaxLine = 2
  Inodes = 3
  Truncates = 1
  HandOver = FALSE
INVARIANTS
  TypeOK
  UnfinishedLineKept
  LinesNotTorn
  LinesInOrder
PROPERTIES
  CatchesUp
  CancelEnds
