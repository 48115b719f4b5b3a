CONSTANTS
    p1 = p1
    t1 = t1
    t2 = t2
    Pools = {p1}
    Tasks = {t1, t2}
    Relays = {}
    SrcLeg <- MCNoRelays
    DstLeg <- MCNoRelays
    PoolOf <- MCPoolOf
    Size = 2
    Limits = {2}
    CancelledCap = 1
    MayStop = {t1}
    MayClose = {}
    MayRefuse = {p1}
SPECIFICATION FairSpec
INVARIANTS
    OnePlaceOwesTheAnswer
    LoginsWithinSize
    StopIsNeverLost
PROPERTIES
    NoTransferIsStranded
    GrowthIsNotForgotten
CHECK_DEADLOCK FALSE
