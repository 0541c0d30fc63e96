SPECIFICATION Spec
CONSTANTS
    MaxDevices = 2
    PinsPerRegister = 2
    Present = {0}
    FirstGap = 1
    PinCounts = {3, 9}
INVARIANTS
    LatchesCoherent
PROPERTIES
    PinIsolation
    ImplementsPinBoard
