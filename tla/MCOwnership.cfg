SPECIFICATION FairSpec
CONSTANTS
    Links <- MCLinks
    Unmarkable <- MCUnmarkable
    Clients <- MCClients
    Unanswerable <- MCUnanswerable
    Daemon = "netcfgd"
    Clis <- MCClis
    Trees <- MCTrees
    First <- MCFirst
    None = None
    RestartLimit = 1
    MaxApplies = 1
    MaxEdits = 1
    MaxOutside = 2
    MaxFaults = 1
INVARIANTS
    NoUpdateIsLost
    RecordMatchesMachine
    AppliesAreFresh
    StartsAreLimited
PROPERTIES
    StrangersAreSpared
    Settles
