SPECIFICATION EntitySpec
CONSTANTS
    Entries = {e1}
    Entry = e1
    Threshold = 3
    MaxStreak = 5
    Loop2 = FALSE
    Missing = Missing
    Computed = Computed
    Answers <- MCAnswers
INVARIANTS
    NoStaleIssue
    OutageReported
    NoFakeReading
    DirectionHeld
    PresentationsAgree
    AlertedOncePerOutage
    IssueHidesReadings
PROPERTIES
    OutageEventuallyReported
