\* Two requests of the instance, one after the other or at once (a client retry),
\* removals at any moment, and a registry backend that may fail to unregister.
CONSTANTS
    c1 = c1
    c2 = c2
    Calls = {c1, c2}
    Features = {"indexer", "p2p"}
    BackendFails = TRUE
    MaxEpoch = 2
    MaxIncarnation = 3
SPECIFICATION FairRegistrationSpec
INVARIANTS
    RegistrationInv
    CredentialMatchesRegistry
    NoTraceAfterDeparture
    ActiveIsWhole
PROPERTIES
    BusyEnds
CHECK_DEADLOCK FALSE
