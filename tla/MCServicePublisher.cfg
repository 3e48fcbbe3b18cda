SPECIFICATION SSpec
CONSTANTS
    N = 4
    KickModulus = 2
INVARIANT
    PublisherInLife
