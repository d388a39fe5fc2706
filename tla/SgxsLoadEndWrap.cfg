\* A data segment ending exactly at 2^W, with every configuration.
CONSTANTS
    PAGE = 8
    MANT = 8
    W = 10
    GUARD = 16
    WORD = 2
    HEAP_BASE = HEAP_BASE
    RELA = RELA
    ENCLAVE_SIZE = ENCLAVE_SIZE
    Syms <- MCSyms
    SymOrder <- MCSymOrder
    Inputs <- WrapInputs
    Configs <- MCConfigs

SPECIFICATION Spec

INVARIANT TooBigRefusedBeforeOutput


\* write returns: a finished conversion has no further step.
CHECK_DEADLOCK FALSE
