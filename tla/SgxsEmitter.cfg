CONSTANTS
    PAGE = 8
    MANT = 8
    W = 10
    GUARD = 16
    WORD = 2
    HEAP_BASE = HEAP_BASE
    RELA = RELA
    ENCLAVE_SIZE = ENCLAVE_SIZE
    Syms <- MCSyms
    SymOrder <- MCSymOrder
    Inputs <- MCInputs
    Configs <- MCConfigs

SPECIFICATION Spec

INVARIANT TypeOK
INVARIANT EnclaveCoversPages
INVARIANT TcsConsistent
INVARIANT RuntimePagesAccepted
INVARIANT SegmentsWhole

\* write returns: a finished conversion has no further step.
CHECK_DEADLOCK FALSE
