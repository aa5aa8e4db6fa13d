SPECIFICATION Spec
CONSTANTS
    MaxPmus = 3
    MaxChannels = 2
    MaxEdits = 5
    Defaults = 1
    Sizes = {1, 2}
INVARIANTS
    SimInv
    RunSafe
    InputsFollowChannels
    RunningAsConfigured
    WindowsInStep
PROPERTIES
    MapsGrowInFirstFrame
CHECK_DEADLOCK FALSE
