SPECIFICATION Spec
CONSTANTS
    Backend = "qwen3"
    NumExamples = 3
    Roundings <- MCQwenRounding
    Launches = {p1, p2, p3}
    Together = FALSE
    None = None
INVARIANTS ResumesWhereItDied
CHECK_DEADLOCK FALSE
