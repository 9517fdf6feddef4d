\* A snapshot authorized before a registration commits and installed after it.
CONSTANTS
    k1 = k1
    k2 = k2
    Keys = {k1}
    MaxRetained = 1
    BufferLimit = 1
    MaxChanges = 1
    MaxGeneration = 1
    MaxSeq = 1
    MaxEpoch = 2
    MaxRepush = 0
    MaxWork = 9
SPECIFICATION MCSpec
INVARIANTS
    ValidIsOfRegistration
CHECK_DEADLOCK FALSE
