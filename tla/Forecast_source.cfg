SPECIFICATION Spec
INVARIANT ActiveSourceServed
CONSTANTS
    openmeteo = openmeteo
    nws = nws
    Sources <- MCSources
    Align <- DayAlign
    Span <- DaySpan
    None = None
    Retry = 1
    Interval = 2
    FetchMax = 1
    Week = 8
    MaxNow = 3
    MaxFaults = 1
CHECK_DEADLOCK FALSE
