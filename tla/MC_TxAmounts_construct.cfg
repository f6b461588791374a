CONSTANTS
    AmountBits = 3
    OffsetBits = 2
    Amounts <- MCAmounts
    MaxSources = 2
    RingSize = 3

SPECIFICATION Spec

INVARIANT ConstructedIsAccepted

CHECK_DEADLOCK FALSE
