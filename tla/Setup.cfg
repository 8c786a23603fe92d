CONSTANTS
    Names <- MCNames
    Domains <- MCDomains
    Machines <- MCMachines
    Configurations <- MCConfigurations
    NoDomain = NoDomain
    Gifts = {"unset", NoDomain, "d2.org"}
    MaxRuns = 2
    MaxOthers = 1
SPECIFICATION Spec
INVARIANTS
    HostsKept
    DomainKept
    EndsWell
    MisfitTold
    TunnelSafe
CHECK_DEADLOCK FALSE
