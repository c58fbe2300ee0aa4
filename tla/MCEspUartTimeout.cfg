\* A FIFO of two each way, guards of two and three turns.  SCLK 13: baud rate
\* 3 leaves a fraction, 1 has no divider that fits.  128 ms are 256 polls,
\* zero in eight bits.
SPECIFICATION Spec
CONSTANTS
    TxSize = 2
    RxSize = 2
    PutGuard = 2
    FlushGuard = 3
    SyncGuard = 2
    PollsPerMs = 2
    WordLimit = 256
    SClk = 13
    DivLimit = 8
    Bauds = {0, 1, 3}
    Timeouts = {0, 1, 128}
    Chars = {1, 2}
    Rom = 9
    MaxChars = 3
PROPERTIES
    GetcharWaits
