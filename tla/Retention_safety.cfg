SPECIFICATION Spec
INVARIANTS
    Inv
    HourlyFresh
    DailyFresh
    NoSilentLoss
    RollupHistoryExact
    HourViewsAgree
    DefaultRangeWhole
PROPERTIES
    DailyRowsRecomputed
    CurrentAdvances
    ImplementsArchive
CONSTANTS
    Absent = Absent
    DefaultSpan = 2
    Widths <- MCWidths
    Moments <- MCMoments
    s1 = s1
    s2 = s2
    Stations <- TwoStations
    Hour = 2
    Day = 4
    HourlyWindow = 2
    Retention = 2
    RetentionSlack = 2
    AllRaw = 100
    EventDelays <- LateOrUnset
    MaxGap = 2
    MaxNow = 5
    MaxRows = 2
    MaxFaults = 1
SYMMETRY Symmetry
CHECK_DEADLOCK FALSE
