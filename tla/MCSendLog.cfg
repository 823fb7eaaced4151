SPECIFICATION Spec
CONSTANTS
    RefsInitialSize = 2
    Conn = {k1}
    MaxPending = 1
    Addresses = 2
    Listeners = 1
    Peer = {p1}
    Scenarios <- MCScenarios
    Trailing = 1
    MaxTerm = 3
    MaxSends = 3
INVARIANT SendLogTypeOK
INVARIANT SendLogNeverAborts
INVARIANT RefsMatchHolders
INVARIANT PayloadsAlive
INVARIANT RingHoldsLog
INVARIANT SendsAccounted
INVARIANT ClosedIsQuiet
PROPERTY CloseCompletes
