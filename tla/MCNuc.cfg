SPECIFICATION FairSpec
CONSTANTS
    ShutterTimeout = 3
    AccumulateTimeout = 8
    TableEntries = 3
    MoveTimes <- MCMoveTimes
    AccumulateTimes <- MCAccumulateTimes
    StickyDone = FALSE
    MaxElapsed = 20
INVARIANTS
    SeesAgain
    TableOfThisNuc
    WithinTimeouts
    NoFalseAlarm
PROPERTY
    Returns
