SPECIFICATION Spec
CONSTANTS
    MaxDevices = 2
    PinsPerRegister = 4
    Present = {0, 1}
    FirstGap = 2
    Addr <- MCAddr
    Data <- MCData
    Vcc <- MCVcc
    Gnd <- MCGnd
    Control <- MCWeActiveHigh
    ByteBits = 2
    MaxCommands = 2
    Requests <- MCRequests
    PinCounts <- AllPins
    Leftovers <- MCLeftovers
INVARIANT
    ReleasedLinesInactive
