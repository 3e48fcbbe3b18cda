SPECIFICATION FairSpec
CONSTANT
    MaxWire = 5
INVARIANTS
    BackedOK
    WarnOnce
PROPERTIES
    GoneIsSeen
    AliveIsSeen
