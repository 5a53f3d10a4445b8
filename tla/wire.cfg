SPECIFICATION Spec
CONSTANTS
    DataLen = 2
    Tries = 3
    MaxCalls = 2
    MaxStray = 1
    MaxLost = 1
    MaxDeaf = 1
INVARIANTS
    AckIsOwn
    AnswerIsOwn
    WriteConfirmed
CHECK_DEADLOCK FALSE
