SPECIFICATION FairSpec
CONSTANTS
    MaxBuffers = 2
    MaxFrames = 2
    MaxMessages = 3
INVARIANTS
    LossCounted
    Fresh
    NobodyInside
PROPERTIES
    FailureSurfaces
    ShutdownReturns
