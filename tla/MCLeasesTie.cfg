SPECIFICATION Spec
CONSTANTS
    Units = {u1}
    Holders = {h1}
    LeaseIds = {l1, l2, l3}
    TTLs = {1}
    MaxTime = 2
    MaxRevision = 3
    None = None
SYMMETRY Symmetry
INVARIANT ReleasedIsFinal
CHECK_DEADLOCK FALSE
