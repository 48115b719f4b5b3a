SPECIFICATION SetAsideSpec
CONSTANTS
    s1 = s1
    s2 = s2
    Stagings <- TwoStagings
    MaxReplacements <- OneAttemptEach
    MaxCrashes = 0
    SizesAnswered = TRUE
INVARIANTS
    CutReplacementIsRemembered
CHECK_DEADLOCK FALSE
