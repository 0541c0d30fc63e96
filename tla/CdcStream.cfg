SPECIFICATION Spec
CONSTANTS
    Bank = 2
    StreamTimeout = 2
    HostDelay = 1
    Packet = 2
INVARIANTS
    TypeOK
    NoByteLost
    EndpointHeld
PROPERTIES
    ReadsWhatWasSent
    PutsEnd
    AnswersArrive
