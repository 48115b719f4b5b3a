SPECIFICATION PipelineSpec
CONSTANTS
    Blocks = 3
    Window = 2
    SendsInOrder = FALSE
    MaxPauses = 2
    MaxSourceEdits = 1
INVARIANT EveryBlockInItsPlace
CHECK_DEADLOCK FALSE
