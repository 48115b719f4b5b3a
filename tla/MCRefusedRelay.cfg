CONSTANTS
    pa = pa
    pb = pb
    r1 = r1
    r2 = r2
    s1 = s1
    d1 = d1
    s2 = s2
    d2 = d2
    t1 = t1
    Pools = {pa, pb}
    Tasks = {}
    Relays = {r1}
    SrcLeg <- MCSrcLeg
    DstLeg <- MCDstLeg
    PoolOf <- MCPoolOf
    Size = 1
    Limits = {1}
    CancelledCap = 1
    MayStop = {}
    MayClose = {}
    MayRefuse = {pb}
SPECIFICATION EndingSpec
PROPERTIES
    EveryRelayEnds
CHECK_DEADLOCK FALSE
