SPECIFICATION Spec
CONSTANTS
  s1 = s1
  s2 = s2
  s3 = s3
  Server = {s1, s2, s3}
  None = None
  Configurations <- MCStale
  MaxInFlight = 3
INVARIANT NeverShutdown
CHECK_DEADLOCK FALSE
