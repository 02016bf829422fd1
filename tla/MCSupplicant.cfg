SPECIFICATION FairSpec
CONSTANTS
    Networks <- MCNetworks
    Ssid <- MCSsid
    Documents <- MCDocuments
    First <- MCFirst
    Blank = Blank
    NoRecord = NoRecord
    Torn = Torn
    MaxEdits = 1
    MaxConnects = 1
    MaxTroubles = 1
    MaxFaults = 1
INVARIANTS
    PopulatedIsHeld
    EarlierCommandsAreDone
    EnabledIsWhole
PROPERTIES
    HeldIsLeftAlone
    DifferenceIsHandedOver
    PinsEnd
