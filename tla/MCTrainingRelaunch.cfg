SPECIFICATION Spec
CONSTANTS
    Units = {u1}
    LeaseIds = {l1, l2}
    Ttl = 1
    Examples = 2
    MaxTime = 2
    MaxLaunches = 2
    None = None
SYMMETRY Symmetry
INVARIANT RelaunchResumes
CHECK_DEADLOCK FALSE
