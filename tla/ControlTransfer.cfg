SPECIFICATION Spec
CONSTANTS
    Packet = 8
    Lengths = {8, 9, 24, 255}
INVARIANTS
    TypeOK
PROPERTIES
    AnswerComplete
    RefusedOnlyAfterGivenUp
    RequestsEnd
    HandlerReturns
