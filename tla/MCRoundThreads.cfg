SPECIFICATION Spec
CONSTANTS
    Threads = {t1, t2}
    Rounds = {r1}
    Asgs = {a1}
    Workers = {w1}
    Cids = {c1, c2}
    Models = {m1}
    Adapters = {d1}
    PreHashes = {p1}
    Etts = {0, 1}
    Revisions = {1}
    None = None
SYMMETRY Symmetry
INVARIANT OneActive
CHECK_DEADLOCK FALSE
