CONSTANTS
    BUF = 2
    MaxLen = 4
    MaxCap = 5

SPECIFICATION Spec

INVARIANT TypeOK
INVARIANT CopyFaithful
PROPERTY Termination

\* copy returns: a finished copy has no further step.
CHECK_DEADLOCK FALSE
