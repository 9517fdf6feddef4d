CONSTANTS
    root = root
    leaf = leaf
    Hashes = {root, leaf}
    Parent <- ChainParent
    Inners = {i1, i2}
    NoHash = NoHash
    NoInner = NoInner
    MaxBlocks = 2
    InitialBlocks = 2
    DefaultReset = FALSE
    MaxGeneration = 2
    MaxEpoch = 2
    MaxRefs = 1
    MaxHolds = 1
    MaxPreflights = 1
    MaxPlans = 1
    MaxNames = 1
    MaxFresh = 1
    MaxAtWork = 1
SPECIFICATION MCSpec
SYMMETRY ArcSymmetry
VIEW PressureView
\* The bounds on tenures stop the model where the store would go on.
CHECK_DEADLOCK FALSE
INVARIANTS
    PressureInv
PROPERTIES
    HeldOnlyReleasedByHold
    HitRevokesPreflight
    HolderKeepsHash
    HitRevokesPlan
    NoOrphanAfterReclaim
