SPECIFICATION Spec
CONSTANTS
    Gated = {g1, g2}
    Plain = {p1, p2}
    None = None
SYMMETRY Symmetry
INVARIANTS TypeOK NoTransactionLeft
CHECK_DEADLOCK FALSE
