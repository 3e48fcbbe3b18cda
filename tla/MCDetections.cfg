SPECIFICATION Spec
CONSTANTS
    Sequences <- MCSequences
    Lengths <- MCLengths
    Counts <- MCCounts
INVARIANT
    ClosedInside
