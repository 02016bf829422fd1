SPECIFICATION Spec
CONSTANTS
    Docs <- MCDocs
    Values <- MCValues
    Want <- MCWant
    Reconciles <- MCReconciles
    ConfirmDefault <- MCConfirmDefault
    Empty = Empty
    None = None
    Broken = Broken
    Unset = Unset
    A = A
    B = B
    off = off
    x = x
    y = y
    N = 2
    Irreversible = {}
    Optional = {}
    Backends = {}
    Stopped = off
    Seconds = {0, 1}
    MaxSeconds = 2
    MaxReqs = 1
    MaxEdits = 2
    MaxDrift = 0
    MaxCrash = 1
    MaxStep = 0
    Faults = {}
INVARIANTS
    WindowKeepsItsTarget
    ExpiryIsScheduled
    LastGoodWasInEffect
PROPERTIES
    RevertRestores
    UnlessConfirmed
