SPECIFICATION Spec
CONSTANTS
    Clients = {c1, c2}
    Backends = {m, s}
    Master = m
    Socks = {k1, k2, k3}
    DBs = {d1}
    DB0 = d0
    Mixes <- PingMixes
    MaxPrep = 2
    MaxRetry = 1
INVARIANT TranKept
SYMMETRY Symmetry
CHECK_DEADLOCK FALSE
