SPECIFICATION FairSpec
CONSTANTS
  s1 = s1
  s2 = s2
  s3 = s3
  Server = {s1, s2, s3}
  Voter = {s1, s2, s3}
  None = None
  PreVote = TRUE
  Transferrer = {}
  Crasher = {s3}
  Elector = {s1, s2, s3}
  InitTerm <- MCStaleTerm
  InitVote <- MCStaleVote
  Lossy = FALSE
  InitLog <- MCStaleLog
  MaxTerm = 5
  MaxInFlight = 6
PROPERTY EventuallyLeader
CHECK_DEADLOCK FALSE
