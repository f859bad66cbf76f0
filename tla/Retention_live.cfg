SPECIFICATION FairSpec
PROPERTY EventuallySummarised
CONSTANTS
    Absent = Absent
    DefaultSpan = 2
    Widths <- NoWidths
    Moments <- NoMoments
    s1 = s1
    s2 = s2
    Stations <- OneStation
    Hour = 2
    Day = 4
    HourlyWindow = 2
    Retention = 2
    RetentionSlack = 2
    AllRaw = 100
    EventDelays <- SomeLate
    MaxGap = 2
    MaxNow = 5
    MaxRows = 2
    MaxFaults = 1
CHECK_DEADLOCK FALSE
