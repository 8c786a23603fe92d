CONSTANTS
    Addresses = {"127.0.0.1", "::1", "0.0.0.0", "::", "10.0.0.5", "fd00::5"}
    Loopback = {"127.0.0.1", "::1"}
    NoAddress = NoAddress
    Resolved = "10.0.0.5"
    Conns = {c1, c2}
    Strays = {s1}
    Transit = 1
    Grace = 2
    CallLimit = 2
    StopLimit = 3
    EndLimit = 1
    MaxSignals = 2
    Deployments <- MCDeployments
SPECIFICATION Spec
INVARIANTS
    PortHeld
    NoLostCall
    StartsAsDeployed
PROPERTIES
    ContainerEnds
CHECK_DEADLOCK FALSE
