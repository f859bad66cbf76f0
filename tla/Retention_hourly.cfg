SPECIFICATION Spec
PROPERTY HourlyRollupSafeToRepeat
CONSTANTS
    Absent = Absent
    DefaultSpan = 2
    Widths <- NoWidths
    Moments <- NoMoments
    s1 = s1
    s2 = s2
    Stations <- OneStation
    Hour = 2
    Day = 4
    HourlyWindow = 36
    Retention = 0
    RetentionSlack = 8
    AllRaw = 14600
    EventDelays <- OnTime
    MaxGap = 8
    MaxNow = 40
    MaxRows = 2
    MaxFaults = 0
CHECK_DEADLOCK FALSE
