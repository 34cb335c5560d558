SPECIFICATION FairSpec
CONSTANTS
    NumBatches = 2
    Workers = {r1, r2}
    Real = {r1, r2}
    Configured = {r1, r2}
    MaxAttempts = 2
    LeaseTime = 1
    Extension = 1
    MaxCrashes = 1
    None = None
INVARIANTS HeldByOne NewestAccepted Counted
PROPERTIES InProgressEnds OwnershipSpec
CHECK_DEADLOCK FALSE
