SPECIFICATION Spec
CONSTANTS
    h1 = h1
    h2 = h2
    Holder = {h1, h2}
    Frame = {1, 2}
    Addr = {1, 2}
    None = None
    MaxBuffers = 2
    MaxMappings = 2
    MaxLoans = 1
    MaxMappingPages = 3
    MaxPages = 2
    MaxTotalPages = 2
    MaxBufferIds = 2
    MaxLoanIds = 1
    MaxFaults = 1
    Quota <- LenderQuota
INVARIANT ChargesExact
INVARIANT LoansAnchored
INVARIANT FramesExclusive
INVARIANT TrackedPagesNamed
CHECK_DEADLOCK FALSE
