SPECIFICATION ThreadsSpec
CONSTANTS
    Size <- Sizes
    Junk = Junk
    Cap = 2
    MaxChat = 1
    MaxPersons = 2
    MaxCrashes = 0
    MaxErrors = 0
    CanLeave = FALSE
    MaxAsks = 0
INVARIANTS
    NumbersRight
PROPERTIES
    DeliveredAlone
