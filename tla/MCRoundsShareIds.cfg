SPECIFICATION Spec
CONSTANTS
    r1 = r1
    r2 = r2
    a1 = a1
    a2 = a2
    a3 = a3
    Rounds = {r1, r2}
    Workers = {w1, w2}
    Asgs = {a1, a2}
    Home <- MCShared
    Cids = {c1, c2, c3}
    Bases = {b1}
    Seed = Seed
    None = None
SYMMETRY Symmetry
INVARIANTS QuorumAtClose
CHECK_DEADLOCK FALSE
