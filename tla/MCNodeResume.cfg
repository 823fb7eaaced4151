SPECIFICATION Spec
CONSTANTS
    Conn = {c1, c2}
    Db = {d1}
    NoConn = NoConn
    NoDb = NoDb
    Scenarios <- MCResume
INVARIANT ClosedMeansNoQuery
