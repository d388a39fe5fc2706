CONSTANTS
    PAGE = 8
    MANT = 10
    Bound = 1100

SPECIFICATION Spec

INVARIANT EnclaveSizeLaw

\* enclave_size returns after its one call.
CHECK_DEADLOCK FALSE
