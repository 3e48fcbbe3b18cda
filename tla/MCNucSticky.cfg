SPECIFICATION Spec
CONSTANTS
    ShutterTimeout = 3
    AccumulateTimeout = 8
    TableEntries = 3
    MoveTimes <- MCMoveTimes
    AccumulateTimes <- MCAccumulateTimes
    StickyDone = TRUE
    MaxElapsed = 20
INVARIANT
    TableOfThisNuc
