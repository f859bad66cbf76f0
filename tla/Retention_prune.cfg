SPECIFICATION Spec
PROPERTY PruneOnlyAfterRollup
CONSTANTS
    Absent = Absent
    DefaultSpan = 2
    Widths <- NoWidths
    Moments <- NoMoments
    s1 = s1
    s2 = s2
    Stations <- OneStation
    Hour = 1
    Day = 2
    HourlyWindow = 18
    Retention = 2
    RetentionSlack = 4
    AllRaw = 7300
    EventDelays <- OnTime
    MaxGap = 4
    MaxNow = 6
    MaxRows = 1
    MaxFaults = 2
CHECK_DEADLOCK FALSE
