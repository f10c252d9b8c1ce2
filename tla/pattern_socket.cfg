SPECIFICATION LiveSpec
CONSTANTS
  HasPassword = TRUE
  HasDb = TRUE
  N = 6
INVARIANTS
  TypeOK
  RepliesMatched
  NoLeakedSocket
  OpenMeansUp
PROPERTIES
  SetupSettles
\* A closed connection stays closed.
CHECK_DEADLOCK FALSE
