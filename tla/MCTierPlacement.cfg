\* Loss, overtaking, repeated pushes and divergence in one registration; replacement,
\* rollback and removal of a registration.
CONSTANTS
    k1 = k1
    k2 = k2
    Keys = {k1, k2}
    MaxRetained = 1
    BufferLimit = 1
    MaxChanges = 3
    MaxGeneration = 2
    MaxSeq = 3
    MaxEpoch = 2
    MaxRepush = 1
    MaxWork = 9
SYMMETRY KeySymmetry
SPECIFICATION MCSpec
INVARIANTS
    TierInv
    ReplayReachesResidency
    BurnIsNoticed
    NoDeltaOutrunsSnapshot
PROPERTIES
    ValidNeverRewinds
CHECK_DEADLOCK FALSE
