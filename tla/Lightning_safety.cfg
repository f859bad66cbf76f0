SPECIFICATION FairSpec
INVARIANTS
    StrikeInv
    NeverDeaf
    StrikesStoredOnce
    RecentStrikeShown
PROPERTIES
    InterruptServed
    ImplementsStrikeLog
CONSTANTS
    None = None
    DefaultLimit = 1
    MaxLimit = 2
    Limits <- MCLimits
    Spans <- MCSpans
    MaxEvents = 4
    MaxNow = 3
CHECK_DEADLOCK FALSE
