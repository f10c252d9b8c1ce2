SPECIFICATION LiveSpec
CONSTANTS
  e1 = e1
  e2 = e2
  p1 = p1
  p2 = p2
  Exact <- MCTwoExact
  Pattern <- MCTwoPatterns
  Malformed <- MCMalformed
  Stalled <- MCStalled
  MaxSubscriptions = 2
INVARIANTS
  TypeOK
  SlotAccounting
  NoOrphanConnection
  ShutdownClosesAll
PROPERTIES
  PoolSpec
  HeardAbortReleases
  DropReleases
  IncompatibleReleases
  DrainCompletes
\* Every behaviour ends with the process.
CHECK_DEADLOCK FALSE
