SPECIFICATION FairSpec
CONSTANTS
  Modules = {"main", "m1", "m2", "m3"}
  Entry = "main"
  Outside = "outside"
  Endless = "endless"
  Limit = 3
  Imports <- ShortImports
INVARIANTS
  LoadedIsSound
  RefusedForACause
  CachedIsComplete
PROPERTY
  LoadEnds
