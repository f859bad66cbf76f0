SPECIFICATION FairSpec
CONSTANTS
    NaN = NaN
    Wrap = 17
    SAMPLE_INTERVAL_MS = 2
    PUBLISH_INTERVAL_MS = 6
    PassTimes <- MCPassTimes
    WindSpeeds <- MCWindSpeeds
    MaxTips = 2
INVARIANTS
    TypeOK
    WindowHasSample
    RainCountedOnce
    MeanBelowGust
    DeadlinesInPhase
PROPERTIES
    CatchesUp
    ImplementsLedger
