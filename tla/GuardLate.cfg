CONSTANTS
    Audiences = {mail, files}
    NobodyHome = NobodyHome
    NonceTTL = 1
    CleanupInterval = 2
    MaxNonces = 2
    Tokens = {t1}
    ClearanceTTL = 2
    Waiters = {w1, w2}
    WaitLimit = 2
SPECIFICATION GuardSpec
INVARIANT
    ClearanceSpentOnce
