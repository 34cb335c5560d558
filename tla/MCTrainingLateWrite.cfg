SPECIFICATION Spec
CONSTANTS
    Units = {u1}
    LeaseIds = {l1, l2}
    Ttl = 1
    Examples = 2
    MaxTime = 2
    MaxLaunches = 2
    None = None
SYMMETRY Symmetry
PROPERTY NoContributionAfterExpired
CHECK_DEADLOCK FALSE
