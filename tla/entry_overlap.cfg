SPECIFICATION Safe
CONSTANTS
    MaxGens = 2
    MaxBacklog = 3
    MaxCalls = 1
    MaxJob = 13
    PollTimeout = 3
    CloseTimeout = 6
    Interval = 6
    RetryWait = 1
INVARIANTS
    OnePortUser
CHECK_DEADLOCK FALSE
