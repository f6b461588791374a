SPECIFICATION Spec
CONSTANT MaxCalls <- MC_MaxCalls
\* The caller stops after MaxCalls calls; that end is not a deadlock.
CHECK_DEADLOCK FALSE

INVARIANT StatusCodeReported
