CONSTANTS
    Requests = {1}
    Resources = {1, 2}
    MaxActions = 2
    MaxEvictions = 1
    MaxIterations = 3
    MaxAhead = 2
    MaxFaults = 1
SPECIFICATION Spec
INVARIANTS
    ConnectorInv
    NoPassOverTransferUnlessOverrun
    SendingIsAwaitedUnlessCut
PROPERTIES
    EveryDrainEnds
CHECK_DEADLOCK FALSE
