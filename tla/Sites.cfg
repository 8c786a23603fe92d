CONSTANTS
    Procs = {p1, p2}
    Names = {a, b}
    Nobody = Nobody
    Entries = {"open", "guarded"}
    NoEntry = NoEntry
    Domains = {none, example}
    NoDomain = none
    Caddyfile = Caddyfile
    Partial = Partial
    NoFile = NoFile
    NoBlock = NoBlock
    MaxRuns = 2
SPECIFICATION MCSpec
SYMMETRY Symmetry
INVARIANTS
    RunningIsDisk
    EntryHasBlock
    OneDomain
    WholeConfigAlone
