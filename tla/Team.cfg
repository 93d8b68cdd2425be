SPECIFICATION TeamSpec
CONSTANTS
    Count = 3
    HasSms = FALSE
    HasRock = TRUE
    Parts = 2
    OnUiThread = TRUE
    TeamCloses = TRUE
    MaxDrops = 3
    MaxErrors = 0
    MaxFails = 0
    MaxFlights = 0
    People = {p1, p2}
    EOC = EOC
    MaxPosition = 2
    MaxRecords = 1
    MaxChat = 1
    MaxMembers = 4
    MaxKills = 2
INVARIANTS
    ModemHeld OneInAir PositionsRight
PROPERTIES
    HandedOver SentAlone
CHECK_DEADLOCK FALSE
