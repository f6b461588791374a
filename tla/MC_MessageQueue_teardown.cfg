CONSTANTS
    p1 = p1
    p2 = p2
    Producers <- MCProducers
    MaxPush = 2

SPECIFICATION Spec

INVARIANT NoSpawnAfterDestroy

CHECK_DEADLOCK FALSE
