SPECIFICATION Spec
CONSTANTS
    Backend = "minicpm5"
    NumExamples = 3
    Roundings <- MCAnyRounding
    Launches = {p1, p2, p3}
    Together = FALSE
    None = None
INVARIANTS TrainsAsUninterrupted
CHECK_DEADLOCK FALSE
