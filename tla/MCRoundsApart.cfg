SPECIFICATION Spec
CONSTANTS
    Threads = {t1}
    Rounds = {r1, r2}
    Asgs = {a1}
    Workers = {w1}
    Cids = {c1, c2}
    Models = {m1}
    Adapters = {d1}
    PreHashes = {p1}
    Etts = {0, 1}
    Revisions = {1}
    None = None
PROPERTY SupersededByOwnRound
CHECK_DEADLOCK FALSE
