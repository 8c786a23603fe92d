CONSTANTS
    t1 = t1
    t2 = t2
    t3 = t3
    Keys = {k1, k2}
    Requests <- MCRequests
    None = None
    TTL = 1
    InFlightTTL = 1
    MaxEntries = 1
    Asks <- MCRequests
    Signers = {a1, x1}
    Approvers = {a1}
    Nobody = Nobody
    ApprovalTTL = 1
    MaxPending = 2
    MaxFailures = 2
    MaxIssued = 2
    Tokens = {t1, t2, t3}
    ClearanceTTL = 1
    Attempts = {p1, p2}
    Keyed <- MCKeyed
    Cleared <- MCRequests
    Witnessed <- MCRequests
    MintedFor <- MCMintedFor
SPECIFICATION FairSpec
INVARIANTS
    CallsBacked
PROPERTIES
    ReplayNeedsNoCredential
    EverythingSettles
    ImplementsOneShot
