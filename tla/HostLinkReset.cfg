SPECIFICATION Spec
CONSTANTS
    BoardPins = 32
    PinCounts <- MCPinCounts
    Configs <- MCConfigs
    MaxCount = 2
    Samples <- MCSamples
    Habits = {"close_after_error"}
INVARIANT
    ResetExitsModes
