SPECIFICATION LmdbSpec
INVARIANTS
    TreeSound StoreSound
PROPERTIES
    AtomicCommit
CHECK_DEADLOCK FALSE
