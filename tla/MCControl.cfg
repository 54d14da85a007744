SPECIFICATION MCSpec
CONSTANTS
    Groups = {1, 2, 3, 4}
    OPStarts <- MCStarts
    OPSimple = FALSE
    RCMixes <- MCRemotes
    RCRetries = 4
    BKMixes <- MCTopologies
    MAX_GROUP_SLAVES = 2
    SLMixes <- MCLogs
    SLThreads = {1, 2}
    SLWrap = 8
    SLMaxSize = 3
    SLBound = 12
CHECK_DEADLOCK FALSE
INVARIANTS   RemoteInv  LogInOrder OneFlusher
PROPERTIES RCAnswered MonitorRight 
