CONSTANTS
    h1 = h1
    h2 = h2
    Hashes = {h1, h2}
    Closers <- TransferClosers
    MaxClosers = 2
    Transfers <- SomeTransfers
SPECIFICATION TransferSpec
INVARIANTS
    TransferInv
    PullIsCompleteUnlessBroken
PROPERTIES
    PullReturns
    QuarantineEnds
CHECK_DEADLOCK FALSE
