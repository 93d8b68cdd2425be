SPECIFICATION SyncSpec
CONSTANT
    MaxSeq = 6
INVARIANTS
    SyncSound DifferenceFound Canonical
PROPERTIES
    EventuallyEqual TracksSet
CHECK_DEADLOCK FALSE
