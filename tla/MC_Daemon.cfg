\* main() ends: the runs stop when the process has exited or was killed.
CONSTANTS
    MaxSignals = 3

SPECIFICATION Spec

INVARIANT TypeOK
INVARIANT DbShutdownBalanced

PROPERTY SignalStopsNode

CHECK_DEADLOCK FALSE
