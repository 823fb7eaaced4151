SPECIFICATION Spec
CONSTANTS
    RefsInitialSize = 2
    Conn = {k1}
    MaxPending = 1
    Addresses = 2
    Listeners = 1
    Peer = {p1}
    Scenarios <- MCReinstate
    Trailing = 1
    MaxTerm = 3
    MaxSends = 3
INVARIANT RingHoldsLog
