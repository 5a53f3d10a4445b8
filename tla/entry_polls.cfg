SPECIFICATION Safe
CONSTANTS
    MaxGens = 1
    MaxBacklog = 3
    MaxCalls = 1
    MaxJob = 13
    PollTimeout = 3
    CloseTimeout = 6
    Interval = 6
    RetryWait = 1
INVARIANTS
    PollsDoNotPileUp
CHECK_DEADLOCK FALSE
