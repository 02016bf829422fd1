SPECIFICATION Spec
CONSTANTS
    Conns <- MCConns
    Servers <- MCServers
    ServerOf <- MCServerOf
    StopOrder <- MCStopOrder
    local = local
    remote = remote
    l1 = l1
    l2 = l2
    r1 = r1
    None = None
    Pending = 2
    Kinds <- MCKinds
    MaxQueued = 0
    AcceptErrors = FALSE
INVARIANTS
    WaiterIsThere
    DeliveryIsExclusive
    ClosedIsQuiet
    ContextsAreFreed
    DescriptorIsLive
PROPERTIES
    KeepsPromise
CHECK_DEADLOCK FALSE
