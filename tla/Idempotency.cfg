CONSTANTS
    Keys = {k1, k2, k3}
    Callers = {c1, c2}
    Requests <- MCTwoTools
    None = None
    TTL = 1
    InFlightTTL = 0
    MaxEntries = 2
    CallLimit = 2
SPECIFICATION Spec
INVARIANTS
    OneCallPerKey
    OpenCallHoldsKey
    NoBlindRetry
    ReplayIsItsOwn
    BlockedForCause
PROPERTIES
    RecordsAreKept
    ImplementsAtMostOnce
SYMMETRY MCSymmetry
