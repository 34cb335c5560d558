SPECIFICATION Spec
CONSTANTS
    Units = {u1, u2}
    Holders = {h1}
    LeaseIds = {l1, l2, l3}
    TTLs = {1, 2}
    MaxTime = 2
    MaxRevision = 2
    None = None
SYMMETRY Symmetry
INVARIANTS OneLiveLease
PROPERTY EndingIsFinal
CHECK_DEADLOCK FALSE
