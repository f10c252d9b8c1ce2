SPECIFICATION LiveSpec
CONSTANTS
  e1 = e1
  e2 = e2
  p1 = p1
  p2 = p2
  Exact <- MCOneExact
  Pattern <- MCNone
  Malformed <- MCNone
  Stalled <- MCNone
  MaxSubscriptions = 1
PROPERTIES
  EveryDisconnectReleases
CHECK_DEADLOCK FALSE
