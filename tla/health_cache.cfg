SPECIFICATION Spec
CONSTANTS
  c1 = c1
  c2 = c2
  c3 = c3
  Callers <- MCThree
  PingCache = 1
  PingTimeout = 5
INVARIANTS
  TypeOK
  HealthyMeansConnected
  NoStampede
  WedgeDetected
PROPERTIES
  OkOnlyWhileServing
