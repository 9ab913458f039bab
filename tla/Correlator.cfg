SPECIFICATION Spec
CONSTANTS
  Limit = 2
  Window = 1
  Tokens = TRUE
  Groups <- Aliases
  Entries <- Sample
  Loopback = {"127.0.0.1", "0.0.0.0"}
  MaxArrivals = 4
INVARIANTS
  IndexExact
  SelectedExactly
PROPERTY
  KeepsPromise
CHECK_DEADLOCK FALSE
