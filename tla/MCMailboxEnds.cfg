SPECIFICATION FairSpec
CONSTANTS
    Conns <- MCLocalConns
    Servers <- MCLocalServers
    ServerOf <- MCLocalServerOf
    StopOrder <- MCLocalOrder
    local = local
    remote = remote
    l1 = l1
    l2 = l2
    r1 = r1
    None = None
    Pending = 1
    Kinds <- MCLocalKinds
    MaxQueued = 1
    AcceptErrors = TRUE
INVARIANTS
    NobodyIsTurnedAway
PROPERTIES
    EveryRequestIsAnswered
    ShutdownEnds
CHECK_DEADLOCK FALSE
