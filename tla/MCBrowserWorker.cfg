SPECIFICATION FairSpec
CONSTANTS
    NumTasks = 2
    TrainingTasks = {2}
    Hashed = {1}
    SimWorkers = {w1}
    Corrupt = {w1}
    Custom = {}
    Loops = {b1}
    LeaseTime = 0
    MaxCrashes = 1
    None = None
INVARIANTS HeldByHousekeeper CheckedOutput
PROPERTIES TableObeyed AssignedEnds OwnershipSpec
CHECK_DEADLOCK FALSE
