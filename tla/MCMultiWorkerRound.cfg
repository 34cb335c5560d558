SPECIFICATION Spec
CONSTANTS
    r1 = r1
    r2 = r2
    a1 = a1
    a2 = a2
    a3 = a3
    Rounds = {r1, r2}
    Workers = {w1, w2}
    Asgs = {a1, a2, a3}
    Home <- MCHome
    Cids = {c1, c2, c3}
    Bases = {b1, b2}
    Seed = Seed
    None = None
SYMMETRY Symmetry
INVARIANTS QuorumAtClose LineageKept OneBase
PROPERTY AverageSpec
CHECK_DEADLOCK FALSE
