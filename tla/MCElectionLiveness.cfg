SPECIFICATION FairSpec
CONSTANTS
  s1 = s1
  s2 = s2
  s3 = s3
  Server = {s1, s2}
  Voter = {s1, s2}
  None = None
  PreVote = TRUE
  Transferrer = {s1}
  Crasher = {}
  Elector = {s1, s2}
  InitTerm <- MCLaggingTerm
  InitVote <- MCLaggingVote
  Lossy = FALSE
  InitLog <- MCLaggingLog
  MaxTerm = 6
  MaxInFlight = 3
PROPERTY EventuallyLeader
PROPERTY VoteStability
CHECK_DEADLOCK FALSE
