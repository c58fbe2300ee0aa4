SPECIFICATION DriversSpec
CONSTANTS
    TotalSize = 8
    SectorSize = 4
    WriteAlign = 2
    WordSize = 2
    ChunkSize = 4
    AddrSpace = 16
    Bits = {b0}
    RomErrors = {1}
    Addrs <- MCAddrs
    Lens <- MCLens
    Payloads <- MCPayloads
    NULL = NULL
    Nonces <- MCNonces
    Junk = 98
    State = 99
    TxSize = 2
    RxSize = 2
    PutGuard = 2
    FlushGuard = 3
    SyncGuard = 2
    PollsPerMs = 2
    WordLimit = 256
    SClk = 13
    DivLimit = 8
    Bauds = {0, 3}
    Timeouts = {0, 1, 128}
    Chars = {1, 2}
    Rom = 9
    MaxChars = 3
INVARIANTS
    WriteStoresBuffer
    FlashErrorHasCode
    RomCallsAligned
    NoStaleNonce
    TxInOrder
    RxInOrder
    NothingStale
    ConfigSettles
PROPERTIES
    ImplementsNorFlash
    CallsReturn
    AcceptedOnce
    WaitingIsReturned
    ConsoleCallsReturn
