SPECIFICATION Spec
CONSTANTS
    WatchdogPeriod = 10
    SamplePeriod = 10
    BusPoll = 1
    NucSlice = 1
    NucTime = 7
    Inference = 10
    DetectorPoll = 1
    Seconds = 0
INVARIANT
    WithinTwoSeconds
