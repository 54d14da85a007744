SPECIFICATION Spec
CONSTANTS
    Clients = {c1, c2}
    Backends = {m, s}
    Master = m
    Socks = {k1, k2, k3}
    DBs = {d1}
    DB0 = d0
    Mixes <- PassMixes
    MaxPrep = 2
    MaxRetry = 1
SYMMETRY Symmetry
CHECK_DEADLOCK FALSE
INVARIANTS Accounted PooledClean TranKept WritesOnMaster StmtAtServer SessionKept
