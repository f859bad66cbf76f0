SPECIFICATION Spec
INVARIANTS
    TypeOK
    LastFetchShown
    FreshUnlessFailing
    SwitchHeals
PROPERTY ImplementsOutlook
CONSTANTS
    openmeteo = openmeteo
    nws = nws
    Sources <- MCSources
    Align <- ShortAlign
    Span <- ShortSpan
    None = None
    Retry = 1
    Interval = 2
    FetchMax = 1
    Week = 4
    MaxNow = 7
    MaxFaults = 2
CHECK_DEADLOCK FALSE
