SPECIFICATION Spec
CONSTANTS
    Links <- MCLinks
    Unmarkable <- MCUnmarkable
    Clients <- MCClients
    Unanswerable <- MCUnanswerable
    Daemon = "netcfgd"
    Clis <- MCClis
    Trees <- MCTrees
    First <- MCFirst
    None = None
    RestartLimit = 2
    MaxApplies = 0
    MaxEdits = 0
    MaxOutside = 2
    MaxFaults = 0
INVARIANTS
    GivenUpAfterLimit
