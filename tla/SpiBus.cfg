SPECIFICATION Spec
CONSTANTS
    MaxDevices = 4
    PinsPerRegister = 1
    Present = {0, 1, 3}
    FirstGap = 2
    PinCounts = {1, 5, 9}
    Errata = {3}
INVARIANTS
    TypeOK
    IdleAllInputs
    ChipsAddressed
    DirectionsCoherent
PROPERTY
    FramesImplementDriver
