SPECIFICATION Spec
CONSTANTS
    Calls = {c1, c2}
    Closes = {k1, k2}
    NoJob = NoJob
INVARIANTS
    DrainIsComplete
    ClosedIsQuiescent
    SuspectLinkDropped
    IdlePortReleased
    RefusedUnloadResumes
PROPERTIES
    AcceptedCallsEnd
    WaitersResume
    UnloadReturns
    OwnsDevice
    IsClientQueue
CHECK_DEADLOCK FALSE
