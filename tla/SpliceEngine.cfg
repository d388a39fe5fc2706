CONSTANTS
    PAGE = 8
    MANT = 10
    WORD = 2
    HEAP_BASE = HEAP_BASE
    RELA = RELA
    ENCLAVE_SIZE = ENCLAVE_SIZE
    Syms <- MCSyms
    SymOrder <- MCSymOrder
    Inputs <- PassInputs

SPECIFICATION Spec

INVARIANT TypeOK
INVARIANT SpliceFidelity
PROPERTY Termination

\* write_elf_segments returns: a finished conversion has no further step.
CHECK_DEADLOCK FALSE
