\* Two transfers with a common hash in one pipeline.
CONSTANTS
    t1 = t1
    t2 = t2
    h1 = h1
    h2 = h2
    Transfers <- TwoTransfers
    Hashes = {h1, h2}
    Input <- Overlapping
    Root = "G1G2"
    LocalRoutes <- NoRoutes
    Remote = "remote"
    RemoteEnabled = FALSE
    MaxAwaits = 1
    ExecutorCapacity = 1
    MaxTransfers = 1
SPECIFICATION FairOffloadSpec
INVARIANTS
    OffloadInv
PROPERTIES
    CancelConfirms
CHECK_DEADLOCK FALSE
