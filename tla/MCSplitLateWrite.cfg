SPECIFICATION Spec
CONSTANTS
    Micro = {m1, m2}
    Launches = {l1, j1}
    Journaled = {j1}
    MaxCrashes = 0
    None = None
SYMMETRY Symmetry
PROPERTY NoContributionAfterExpired
CHECK_DEADLOCK FALSE
