CONSTANTS
  Daemons = {d1, d2, d3}
  Clients = {c1, c2}
  Nothing = Nothing
  File = File
SPECIFICATION FairSpec
INVARIANTS ServedAtThePath
PROPERTIES StaleNeverBlocks QueuedAreHeard PromiseKept
CHECK_DEADLOCK FALSE
