SPECIFICATION Spec
CONSTANTS
  Voters = {1, 2}
  MaxTerm = 3
  MaxVersion = 4
  Scenarios <- Covered
  SegmentSize = 2
  Trailing = 1
  MaxBatch = 1
INVARIANT TypeOK
INVARIANT NeverAborts
INVARIANT NextIndexTracksLog
INVARIANT RestartRecovers
INVARIANT IdleMeansStored
INVARIANT MetadataDurable
PROPERTY AlwaysSettles
CHECK_DEADLOCK FALSE
