CONSTANTS
    MaxSignals = 3

SPECIFICATION Spec

INVARIANT ExitCodeFaithful

CHECK_DEADLOCK FALSE
