SPECIFICATION FairSpec
CONSTANTS
    NumTasks = 1
    TrainingTasks = {}
    Hashed = {1}
    SimWorkers = {}
    Corrupt = {}
    Custom = {}
    Loops = {b1, b2}
    LeaseTime = 0
    MaxCrashes = 1
    None = None
INVARIANTS HeldByHousekeeper CheckedOutput
PROPERTIES TableObeyed AssignedEnds
CHECK_DEADLOCK FALSE
