SPECIFICATION Spec
CONSTANTS
    Backend = "qwen3"
    NumExamples = 3
    Roundings <- MCAnyRounding
    Launches = {p1, p2, p3}
    Together = TRUE
    None = None
INVARIANTS OnceInOrder
CHECK_DEADLOCK FALSE
