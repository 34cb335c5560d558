SPECIFICATION Spec
CONSTANTS
    Services = {api, cli}
    Slots = {s1}
    Runners = {r1}
    Rounds = 1
    Contributions = 1
    MaxBoots = 2
    MaxRequests = 3
    None = None
PROPERTY CancelIsTold
CHECK_DEADLOCK FALSE
