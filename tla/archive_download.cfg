SPECIFICATION Spec
CONSTANTS
    Memories <- MCMemories
    MaxPages = 3
    Times = {1, 2, 3, 4, 5, 6}
    Slots = 2
    Empty = Empty
    Start = 1
    Stop = 4
    IndexSize = 2
    Attempts = 3
INVARIANTS
    OnlyExpectedPage
    WindowComplete
    FinalPageNotAcked
PROPERTIES
    TransfersPages
    DownloadEnds
CHECK_DEADLOCK FALSE
