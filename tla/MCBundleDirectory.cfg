\* Three keys of one owner, more than its capacities admit, over two registrations: retirement, expiry,
\* rollback.
CONSTANTS
    k1 = k1
    k2 = k2
    k3 = k3
    o1 = o1
    Keys = {k1, k2, k3}
    Owners = {o1}
    AdsPerOwner = 1
    AdsGlobal = 1
    AbsentPerOwner = 1
    AbsentGlobal = 1
    LeaseTtl = 1
    AdTtl = 2
    HistoryCapacity = 1
    MaxTime = 2
    MaxGeneration = 2
    MaxEpoch = 2
SPECIFICATION MCSpec
SYMMETRY KeySymmetry
INVARIANTS
    HitsAreCurrent
    DirectoryInv
    FreshOwnerUnfenced
PROPERTIES
    NoAdvertisementLost
CHECK_DEADLOCK FALSE
