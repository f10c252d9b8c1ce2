SPECIFICATION Spec
CONSTANTS
  c1 = c1
  c2 = c2
  c3 = c3
  Callers <- MCTwo
  PingCache = 1
  PingTimeout = 5
PROPERTIES
  CachedWithinWindow
