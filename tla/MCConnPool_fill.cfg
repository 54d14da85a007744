\* The pool without "kill query": exact counting and the connection limit.
SPECIFICATION Spec
CONSTANTS
    Socks = {s1, s2, s3}
    Users = {u1, u2}
    DefaultUser = u1
    BackendType = "RO"
    MinIdle = 1
    Mid = 1
    Max = 3
    PerTime = 1
    ReduceConns = TRUE
    DisableThreads = TRUE
    MaxKills = 0
    MaxTries = 3
    MaxTime = 1
CHECK_DEADLOCK FALSE
SYMMETRY SockSymmetry
CONSTRAINT FewOpening
INVARIANT PoolInv
