SPECIFICATION Safe
CONSTANTS
    Entries = {e1, e2}
    Threshold = 3
    MaxStreak = 5
INVARIANTS
    OutageReported
