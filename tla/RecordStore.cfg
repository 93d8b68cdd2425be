SPECIFICATION Spec
SYMMETRY MCSymmetry
CONSTANTS
    f1 = f1
    f2 = f2
    sent = sent
    NoTransfer = NoTransfer
    Files <- MCFiles
    Byte <- MCByte
    Records <- MCRecords
    Versions <- MCVersions
    MarkNames <- MCMarkNames
    MaxLen = 2
INVARIANTS
    CommittedOnDisk AppendCoherent RootIsXor Findable MarksInRange
PROPERTIES
    AppendOnly TransferVerified
