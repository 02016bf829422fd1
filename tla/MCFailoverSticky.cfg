SPECIFICATION Spec
CONSTANTS
    Interfaces <- MCInterfaces
    Order <- MCOrder
    Documents <- MCDocuments
    Probe <- BothProbe
    Modem <- MCModem
    Managed <- MCManaged
    Reconciled <- MCReconciled
    Sources <- MCSources
    None = None
    StartFailures = 2
    CountMax = 2
    Answers <- MCAnswers
    First = {"A"}
    MaxTime = 1
    MaxEdits = 1
    Flapping = {"lte"}
    MaxFaults = 0
PROPERTIES
    SelectedUntilItsProbeFails
