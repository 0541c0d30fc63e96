SPECIFICATION Spec
CONSTANTS
    MaxDevices = 2
    PinsPerRegister = 4
    Present = {0, 1}
    FirstGap = 2
    Addr <- MCAddr
    Data <- MCData
    Vcc <- MCVcc
    Gnd <- MCGnd
    Control <- MCActiveLow
    ByteBits = 1
    MaxCommands = 2
    Requests <- MCRequests
    PinCounts <- FewPins
    Leftovers <- MCLeftovers
INVARIANTS
    TypeOK
    NoContention
    StrobeAsAsked
    WriteEnableOnlyInStrobe
    SelectedOnlyReady
    IndicatorsFrame
    ReleasedWhenIdle
    NoAccessWhileBusy
PROPERTIES
    ImplementsMemory
    RequestEnds
