CONSTANTS
    Clients = {c1, c2, c3}
    Setters = {s1, s2}
    Limits <- MCLimits
SPECIFICATION FairSpec
INVARIANTS
    NoLostWakeup
PROPERTIES
    ImplementsSemaphore
