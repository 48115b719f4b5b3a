SPECIFICATION QuitSpec
CONSTANTS
    Closes = 2
    TrayClicks = 0
    WorldSteps = 1
    ModelsInFlight = 1
    Writers = {"tabs"}
INVARIANTS
    SavedBeforeExit
CHECK_DEADLOCK FALSE
