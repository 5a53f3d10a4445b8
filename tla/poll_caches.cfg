SPECIFICATION Safe
CONSTANTS
    Periods = {p1, p2}
    Collectors = {r1, r2}
    Loop2 = FALSE
    EepromWrites <- MCWrites
    MaxJobs = 3
    Unread = Unread
SYMMETRY Symmetry
INVARIANTS
    PeriodCacheFresh
    RainCacheFresh
PROPERTIES
    PublishedIsCurrent
