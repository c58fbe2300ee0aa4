SPECIFICATION Spec
CONSTANTS
    TotalSize = 8
    SectorSize = 4
    WriteAlign = 2
    WordSize = 2
    ChunkSize = 4
    AddrSpace = 16
    Bits = {b0}
    RomErrors = {1}
    Addrs <- WrapAddrs
    Lens <- WrapLens
    Payloads <- WrapPayloads
    NULL = NULL
INVARIANT AccessesStayInFlash
