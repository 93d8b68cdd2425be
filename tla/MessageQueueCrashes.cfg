SPECIFICATION KillsSpec
CONSTANTS
    Size <- Sizes
    Junk = Junk
    Cap = 2
    MaxChat = 1
    MaxPersons = 2
    MaxCrashes = 0
    MaxErrors = 1
    CanLeave = FALSE
    MaxAsks = 0
INVARIANTS
    NoMessageLost AcksRight AttemptedOrAcked SeqsContiguous
