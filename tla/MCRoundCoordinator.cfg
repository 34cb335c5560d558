SPECIFICATION Spec
CONSTANTS
    Threads = {t1}
    Rounds = {r1}
    Asgs = {a1, a2}
    Workers = {w1}
    Cids = {c1, c2, c3}
    Models = {m1, m2}
    Adapters = {d1}
    PreHashes = {p1}
    Etts = {0, 1}
    Revisions = {1, 2}
    None = None
SYMMETRY Symmetry
INVARIANTS OneActive ExactQuorum SameBaseline WeightIsWork
PROPERTIES StatusAdvances AverageSpec
CHECK_DEADLOCK FALSE
