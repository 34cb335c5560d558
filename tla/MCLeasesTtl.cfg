SPECIFICATION TtlSpec
CONSTANTS
    Units = {u1, u2}
    Holders = {h1, h2}
    LeaseIds = {l1, l2, l3, l4}
    TTLs = {1, 2}
    MaxTime = 3
    MaxRevision = 3
    None = None
SYMMETRY Symmetry
INVARIANTS ReleasedIsFinal RevisionOrdersLeases
PROPERTIES TtlHonoured OwnershipSpec
CHECK_DEADLOCK FALSE
