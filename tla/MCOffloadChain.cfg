\* One transfer that chains to a local pipeline and the remote route.
CONSTANTS
    t1 = t1
    t2 = t2
    h1 = h1
    h2 = h2
    Transfers <- OneTransfer
    Hashes = {h1}
    Input <- Single
    Root = "G1G2"
    LocalRoutes <- OneRoute
    Remote = "remote"
    RemoteEnabled = TRUE
    MaxAwaits = 1
    ExecutorCapacity = 1
    MaxTransfers = 1
SPECIFICATION FairOffloadSpec
INVARIANTS
    CancelledNeverCommits
    UnprovenStaysOpen
PROPERTIES
    ImplementsOutcome
    EveryTransferSettles
CHECK_DEADLOCK FALSE
