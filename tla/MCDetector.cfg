SPECIFICATION FairSpec
CONSTANTS
    f1 = f1
    f2 = f2
    Frames <- MCFrames
    NoFrame = NoFrame
    MaxResults = 2
INVARIANTS
    WholeFrames
    ReportsForward
PROPERTIES
    ImplementsMailbox
    Answered
    Destroyed
    StreamReturns
