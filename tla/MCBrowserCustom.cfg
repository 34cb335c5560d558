SPECIFICATION Spec
CONSTANTS
    NumTasks = 1
    TrainingTasks = {}
    Hashed = {1}
    SimWorkers = {w1}
    Corrupt = {}
    Custom = {w1}
    Loops = {}
    LeaseTime = 0
    MaxCrashes = 0
    None = None
INVARIANTS CheckedOutput AllOutputsChecked
CHECK_DEADLOCK FALSE
