SPECIFICATION LiveSpec
CONSTANTS
  N = 6
  MaxOutstanding = 3
INVARIANTS
  TypeOK
  NothingWithheld
  BoundedBacklog
PROPERTIES
  Ordered
  GapEnds
\* A subscription ends, and with it every behaviour.
CHECK_DEADLOCK FALSE
