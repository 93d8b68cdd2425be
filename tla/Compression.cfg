SPECIFICATION CompressionSpec
CONSTANTS
    Width = 10
    Sig = 6
    SplitBits = 3
    Models <- TwoModels
    Alphabets = {0, 1, 3, 15, 21}
    Capacity = 14
    MaxSymbols = 3
INVARIANTS
    CodedBack
CHECK_DEADLOCK FALSE
