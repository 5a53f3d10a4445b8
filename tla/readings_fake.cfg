SPECIFICATION EntitySafe
CONSTANTS
    Entries = {e1}
    Entry = e1
    Threshold = 3
    MaxStreak = 4
    Loop2 = TRUE
    Missing = Missing
    Computed = Computed
    Answers <- MCAnswers
INVARIANTS
    AllReadingsGenuine
