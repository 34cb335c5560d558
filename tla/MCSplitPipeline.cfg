SPECIFICATION Spec
CONSTANTS
    Micro = {m1, m2}
    Launches = {l1, j1}
    Journaled = {j1}
    MaxCrashes = 2
    None = None
SYMMETRY Symmetry
INVARIANTS OnePerMicroUnit JournalBrackets
PROPERTIES LeaseGates OwnershipSpec
CHECK_DEADLOCK FALSE
