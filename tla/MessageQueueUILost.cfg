SPECIFICATION AskingSpec
CONSTANTS
    Size <- Sizes
    Junk = Junk
    Cap = 2
    MaxChat = 1
    MaxPersons = 1
    MaxCrashes = 0
    MaxErrors = 0
    CanLeave = TRUE
    MaxAsks = 1
INVARIANT NoMessageLost
