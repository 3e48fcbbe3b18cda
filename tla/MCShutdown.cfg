SPECIFICATION FairSpec
CONSTANTS
    WatchdogPeriod = 3
    SamplePeriod = 3
    BusPoll = 1
    NucSlice = 1
    NucTime = 2
    Inference = 3
    DetectorPoll = 2
    Seconds = 5
INVARIANT
    ExitBound
PROPERTY
    Exits
