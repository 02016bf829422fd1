SPECIFICATION Spec
CONSTANTS
    Networks <- MCNetworks
    Ssid <- MCSsid
    Documents <- MCDocuments
    First <- MCFirst
    Blank = Blank
    NoRecord = NoRecord
    Torn = Torn
    MaxEdits = 1
    MaxConnects = 1
    MaxTroubles = 0
    MaxFaults = 0
PROPERTIES
    NetworksStayConfigured
