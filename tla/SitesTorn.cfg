CONSTANTS
    Procs = {p1, p2}
    Names = {a}
    Nobody = Nobody
    Entries = {"open", "guarded"}
    NoEntry = NoEntry
    Domains = {none, example}
    NoDomain = none
    Caddyfile = Caddyfile
    Partial = Partial
    NoFile = NoFile
    NoBlock = NoBlock
    MaxRuns = 2
SPECIFICATION MCSpec

INVARIANT
    WholeConfig
