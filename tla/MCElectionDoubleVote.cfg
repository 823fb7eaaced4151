SPECIFICATION Spec
CONSTANTS
  s1 = s1
  s2 = s2
  s3 = s3
  Server = {s1, s2, s3}
  Voter = {s1, s2, s3}
  None = None
  PreVote = TRUE
  Transferrer = {s1}
  Crasher = {}
  Elector = {s1}
  InitTerm <- MCFreshTerm
  InitVote <- MCFreshVote
  Lossy = TRUE
  InitLog <- MCFreshLog
  MaxTerm = 3
  MaxInFlight = 3
INVARIANT ElectionSafety
CHECK_DEADLOCK FALSE
