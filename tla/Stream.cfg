SPECIFICATION FairSpec
CONSTANTS
  Kinds = {"command", "ssh"}
  MaxLines = 3
  PipeCap = 2
INVARIANTS
  SuccessIsWhole
  KillTearsNothing
  FailsForACause
  NothingLeft
PROPERTIES
  Ends
  HandshakeEnds
