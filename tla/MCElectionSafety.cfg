SPECIFICATION Spec
CONSTANTS
  s1 = s1
  s2 = s2
  s3 = s3
  Server = {s1, s2, s3}
  Voter = {s1, s2, s3}
  None = None
  PreVote = TRUE
  Transferrer = {}
  Crasher = {s1, s3}
  Elector = {s1, s2}
  InitTerm <- MCRestartTerm
  InitVote <- MCRestartVote
  Lossy = TRUE
  InitLog <- MCRestartLog
  MaxTerm = 3
  MaxInFlight = 3
INVARIANT TypeOK
INVARIANT ElectionSafety
INVARIANT LeaderWasElected
INVARIANT CandidateCoversVoters
PROPERTY VoteStability
CHECK_DEADLOCK FALSE
