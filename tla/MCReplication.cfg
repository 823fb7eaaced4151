SPECIFICATION Spec
CONSTANTS
  s1 = s1
  s2 = s2
  s3 = s3
  Server = {s1, s2, s3}
  None = None
  Configurations <- MCConfigurations
  MaxInFlight = 2
INVARIANT TypeOK
INVARIANT LastStoredSound
INVARIANT LogMatching
INVARIANT MatchIndexSound
INVARIANT NeverShutdown
INVARIANT DiskCatchesUp
INVARIANT FollowerWritesAreFollowers
PROPERTY AppliesReplicatedLog
CHECK_DEADLOCK FALSE
