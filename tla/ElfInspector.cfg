CONSTANTS
    W = 8
    sgx_entry = sgx_entry
    HEAP_BASE = HEAP_BASE
    Required <- MCRequired
    Sized <- MCSized
    Inputs <- MCInputs

SPECIFICATION Spec

INVARIANT TypeOK
PROPERTY PolicySpec

\* new returns: a finished check has no further step.
CHECK_DEADLOCK FALSE
