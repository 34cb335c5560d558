SPECIFICATION FairSpec
CONSTANTS
    Services = {api, cli}
    Slots = {s1}
    Runners = {r1, r2}
    Rounds = 2
    Contributions = 1
    MaxBoots = 2
    MaxRequests = 2
    None = None
INVARIANTS CompletedIsDone OneLateCall OneTrainer
PROPERTIES RunnerEnds NoEternalRunning
CHECK_DEADLOCK FALSE
