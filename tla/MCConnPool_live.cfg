\* Half-open connections: every one the proxy opens for the pool ends.
SPECIFICATION LiveSpec
CONSTANTS
    Socks = {s1, s2, s3}
    Users = {u1}
    DefaultUser = u1
    BackendType = "RO"
    MinIdle = 1
    Mid = 2
    Max = 2
    PerTime = 2
    ReduceConns = FALSE
    DisableThreads = TRUE
    MaxKills = 1
    MaxTries = 3
    MaxTime = 0
CHECK_DEADLOCK FALSE
INVARIANT ConnLimit
 
