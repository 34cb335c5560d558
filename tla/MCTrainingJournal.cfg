SPECIFICATION Spec
CONSTANTS
    Backend = "qwen3"
    NumExamples = 3
    Roundings <- MCAnyRounding
    Launches = {p1, p2, p3}
    Together = FALSE
    None = None
INVARIANTS TypeOK OnceInOrder ChainKept SubmitsItsTraining TrainsAsUninterrupted
CHECK_DEADLOCK FALSE
