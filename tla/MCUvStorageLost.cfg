SPECIFICATION Spec
CONSTANTS
  Voters = {1, 2}
  MaxTerm = 3
  MaxVersion = 4
  Scenarios <- Overlapping
  SegmentSize = 2
  Trailing = 1
  MaxBatch = 1
INVARIANT NoLostBarrier
CHECK_DEADLOCK FALSE
