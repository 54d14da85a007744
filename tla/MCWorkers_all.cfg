SPECIFICATION Spec
CONSTANTS
    N = 2
    MaxPid = 5
    Cons = {1, 2}
    ChanCap = 2
    TryLimit = 2
    Mixes <- MCMixes
CHECK_DEADLOCK FALSE
INVARIANTS MasterInv AnswersOwn
PROPERTIES AllExit 
