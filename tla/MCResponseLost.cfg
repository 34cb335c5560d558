SPECIFICATION Spec
CONSTANTS
    Gated = {g1, g2}
    Plain = {p1, p2}
    None = None
SYMMETRY Symmetry
INVARIANT AnsweredIsStored
CHECK_DEADLOCK FALSE
