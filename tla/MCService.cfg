SPECIFICATION SFairSpec
CONSTANTS
    N = 4
    KickModulus = 2
INVARIANTS
    SIInv
    DependencyOrder
    StopsOnlyLive
    NoneLeftUp
    OwnThreadsInLife
    OfflineLast
    NoThreadLeft
PROPERTIES
    WatchdogKicked
    ServiceStops
