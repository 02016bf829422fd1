SPECIFICATION FairSpec
CONSTANTS
    Interfaces <- MCInterfaces
    Order <- MCOrder
    Documents <- MCDocuments
    Probe <- MCProbe
    Modem <- MCModem
    Managed <- MCManaged
    Reconciled <- MCReconciled
    Sources <- MCSources
    None = None
    StartFailures = 2
    CountMax = 2
    Answers <- MCAnswers
    First = {"A"}
    MaxTime = 1
    MaxEdits = 1
    Flapping = {"lte"}
    MaxFaults = 2
INVARIANTS
    SwitchIsRemembered
PROPERTIES
    VerdictFollowsRuns
    NoteIsKeptUntilSwitched
    NeverGoesBack
    NotesAreCycled
