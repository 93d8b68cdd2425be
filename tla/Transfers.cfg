SPECIFICATION TransfersSpec
CONSTANTS
    MaxSeq = 3
    MaxSatellite = 0
    MaxKills = 1
    MaxPrefs = 0
    MaxErrors = 0
    MaxRefusals = 1
    MaxOutages = 1
    HasNetwork = TRUE
    Peers = {"p1", "p2"}
    Bad = {"p2"}
    Files = {"chat", "location"}
    MaxLen = 2
    Chunk = 1
    MaxRequest = 1
    WireCap = 1
    MaxLosses = 1
    MaxDeaths = 1
INVARIANTS
    ReceivedKept ShownRight TransfersSound CommittedWhole
PROPERTIES
    AllArrives
CHECK_DEADLOCK FALSE
