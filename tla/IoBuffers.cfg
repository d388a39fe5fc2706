\* Sources and messages of up to 3 bytes, buffers of 0..3 bytes (so a
\* read can be shorter, as long as, or longer than what is left), writer
\* capacities 0..3, four calls: enough for a partial write_all followed by
\* further writes, and fill_buf, consume, read and read_exact in any order.
CONSTANTS
    MaxLen = 3
    MaxBuf = 3
    MaxCap = 3
    MaxCalls = 4
    RB = 0

SPECIFICATION Spec

INVARIANT TypeOK
INVARIANT ReaderIntact
INVARIANT WriterIntact


\* The client stops after MaxCalls calls.
CHECK_DEADLOCK FALSE
