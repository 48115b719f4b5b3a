CONSTANTS
    u1 = u1
    t1 = t1
    Uploads <- OneRow
    Targets <- OneTarget
    TargetOf <- ItsTarget
    MaxTries = 2
    MarkCap = 1
    MayDisconnect = TRUE
SPECIFICATION FairSpec
INVARIANTS NoFileIsForgotten PauseIsKept StopLeavesNoRecord OneWriter
PROPERTY EveryCancelSettles
CHECK_DEADLOCK FALSE
