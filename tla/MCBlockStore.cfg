CONSTANTS
    Hashes = {h1}
    Inners = {i1, i2}
    NoHash = NoHash
    NoInner = NoInner
    MaxBlocks = 2
    InitialBlocks = 1
    DefaultReset = FALSE
    MaxGeneration = 2
    MaxEpoch = 2
    MaxRefs = 1
SPECIFICATION FairStoreSpec
INVARIANTS
    PresenceExact
    StoreInv
PROPERTIES
    UnreferencedLeavesActive
