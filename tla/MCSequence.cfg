CONSTANTS
    r1 = r1
    r2 = r2
    Requests = {r1, r2}
    Scheduled = {r1}
    s1 = s1
    s2 = s2
    s3 = s3
    Slots = {s1, s2, s3}
    BlockSize = 2
    NumInput <- Inputs
    MaxOutput <- Outputs
    BlockHashes <- SameHashes
    MaxDraft = 2
    MaxPosition = 4
SYMMETRY SlotSymmetry
VIEW SequenceView
SPECIFICATION SequenceSpec
INVARIANTS
    SequenceInv
    PagesSound
PROPERTIES
    RevertRestores
CHECK_DEADLOCK FALSE
