\* One transaction is built or received, then checked: the run ends there.
CONSTANTS
    AmountBits = 3
    OffsetBits = 2
    Amounts <- MCAmounts
    MaxSources = 2
    RingSize = 3

SPECIFICATION Spec

INVARIANT TypeOK
INVARIANT AcceptedBalanced
INVARIANT OverflowCheckExact
INVARIANT RingResolved

CHECK_DEADLOCK FALSE
