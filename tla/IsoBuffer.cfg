SPECIFICATION BufferSpec
CONSTANTS
    N = 7
    LongRange = 65536
    Items <- MCItems
    MaxOffers = 5
INVARIANTS BufferTypeOK PackedComesBack
CHECK_DEADLOCK FALSE
