CONSTANTS
    Entries = {e1}
    NoEntry = NoEntry
    Rejected = Rejected
    MaxWrites = 2
    Workers = {w1, w2}
    NoClient = NoClient
    MaxClients = 3
SPECIFICATION FairSpec
INVARIANTS
    NoStray
PROPERTIES
    FileApplied
    RequestsEnd
CHECK_DEADLOCK FALSE
