SPECIFICATION Spec
CONSTANTS
    Services = {api, cli}
    Slots = {s1}
    Runners = {r1, r2}
    Rounds = 2
    Contributions = 1
    MaxBoots = 3
    MaxRequests = 3
    None = None
SYMMETRY Symmetry
INVARIANTS TypeOK CompletedIsDone OneLateCall OneTrainer
CHECK_DEADLOCK FALSE
