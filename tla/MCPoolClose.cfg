CONSTANTS
    pa = pa
    pb = pa
    r1 = r1
    r2 = r2
    s1 = s1
    d1 = d1
    s2 = s2
    d2 = d2
    t1 = t1
    Pools = {pa}
    Tasks = {t1}
    Relays = {r1, r2}
    SrcLeg <- MCSrcLeg
    DstLeg <- MCDstLeg
    PoolOf <- MCPoolOf
    Size = 1
    Limits = {0, 1}
    CancelledCap = 1
    MayStop = {}
    MayClose = {pa}
    MayRefuse = {}
SPECIFICATION FairSpec
INVARIANTS
    ClosedHoldsNothing
PROPERTIES
    ClosingEnds
CHECK_DEADLOCK FALSE
