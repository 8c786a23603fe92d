CONSTANTS
    Audiences = {mail, files}
    NobodyHome = NobodyHome
    NonceTTL = 1
    CleanupInterval = 2
    MaxNonces = 2
    Tokens = {t1}
    ClearanceTTL = 2
    Waiters = {w1, w2}
    WaitLimit = 2
    Asks <- MCAsks
    Signers = {a1, x1}
    Approvers = {a1}
    Nobody = Nobody
    ApprovalTTL = 1
    MaxPending = 1
    MaxFailures = 2
    MaxIssued = 2
    Verifiers = {v1, v2}
    VerifyLimit = 2
    MaxEntries = 4
    MaxFiles = 3
    NoFile = NoFile
SPECIFICATION LevelsSpec
INVARIANTS
    NonceUsedOnce
    SpentOnce
    Witnessed
    MarkedWhileVerified
    ChainHolds
PROPERTIES
    UnusedNonceKept
    NoncesForgotten
    PaysAgainOnlyLate
    LiveChallengesKept
    RotationTakes
SYMMETRY MCSymmetry
