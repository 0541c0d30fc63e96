SPECIFICATION Spec
CONSTANTS
    BoardPins = 16
    Files <- MCFlashbin
    MaxObjects = 5
INVARIANT
    CommandsAsAsked
