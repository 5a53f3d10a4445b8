SPECIFICATION Spec
CONSTANTS
    MaxGens = 3
    MaxBacklog = 3
    MaxCalls = 2
    MaxJob = 13
    PollTimeout = 3
    CloseTimeout = 6
    Interval = 6
    RetryWait = 1
INVARIANTS
    
    PortSharedOnlyLate
PROPERTIES
    ClientsAreQueues
    SetupReturns
CHECK_DEADLOCK FALSE
