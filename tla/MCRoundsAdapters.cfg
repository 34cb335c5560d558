SPECIFICATION Spec
CONSTANTS
    Threads = {t1}
    Rounds = {r1}
    Asgs = {a1}
    Workers = {w1}
    Cids = {c1}
    Models = {m1}
    Adapters = {d1, d2}
    PreHashes = {p1}
    Etts = {0, 1}
    Revisions = {1}
    None = None
SYMMETRY Symmetry
INVARIANT SameAdapter
CHECK_DEADLOCK FALSE
