SPECIFICATION Spec
CONSTANTS
    BoardPins = 16
    Files <- MCFiles
    MaxObjects = 5
INVARIANTS
    TypeOK
    PinsConverted
    PinsDistinct
    OwnCommands
