SPECIFICATION Spec
CONSTANTS
    BoardPins = 32
    PinCounts <- MCPinCounts
    Configs <- MCConfigs
    MaxCount = 2
    Samples <- MCSamples
    Habits = {}
INVARIANTS
    TypeOK
    InSync
    DataDelivered
    WriteDelivers
    RaisedOnReject
    ClosedBoardListens
PROPERTY
    CallsReturn
