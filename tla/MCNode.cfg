SPECIFICATION Spec
CONSTANTS
    Conn = {c1, c2}
    Db = {d1}
    NoConn = NoConn
    NoDb = NoDb
    Scenarios <- MCScenarios
INVARIANT NodeTypeOK
INVARIANT NeverAborts
INVARIANT VisibleIsApplied
INVARIANT AckedIsApplied
INVARIANT LocksAccounted
INVARIANT NoForeignFrames
INVARIANT ReadersKeepSnapshot
INVARIANT SnapshotIntact
INVARIANT NoDanglingCallback
PROPERTY EveryRequestAnswered
