SPECIFICATION FairSpec
CONSTANTS
    a = a
    b = b
    blank = blank
    Records <- MCRecords
    NoRecord = blank
    Capacity = 2
    Modulus = 4
INVARIANT
    NoSlotRace
PROPERTY
    ImplementsChannel
