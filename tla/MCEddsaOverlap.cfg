SPECIFICATION PartsSpec
CONSTANTS
    Block = 4
    LenBytes = 2
    Base = 16
    Bytes <- MCBytes
    Pieces <- MCPieces
    MaxBytes = 5
    LoLimit = 2
    HiLimit = 3
    MsLimit = 1
    TicksPerMs = 2
    Guard = 2
    Delays = {0, 2}
    BlockBytes = 2
    CtrRange = 4
    Variants = {"djb", "ietf", "x"}
    StreamNonces <- MCNonces
    FirstCtrs = {0, 2, 12}
    PieceSizes = {0, 1, 2, 3, 4}
    MaxBlocks = 3
    MacBlock = 2
    Ads = {0, 1}
    Texts = {0, 1, 3}
    MaxMessages = 3
    BootOk = 1
    MaxGlitches = 2
    WordSize = 2
    KeyLen = 4
    MockDslcLen = 4
    BufferLens = {0, 1, 3, 4, 5}
    MaxCalls = 3
    TotalSize = 5
    SectorSize = 5
    FlashByte = {0, 1, 3}
    Erased = 3
    NoAddr = 255
    Limits = {0, 1}
    RotAddrs = {2}
    RotValues = {1}
    RequestLens = {1, 4}
    MaxRuns = 2
    Paths <- MCPaths
    Moves <- MCMoves
    Errors = {"network", "http"}
    PageLen = 2
    MaxChanges = 3
    LimbBits = 7
    ClampTop = 4
    MacKeys <- MCMacKeys
    MacPieces <- MCMacPieces
    MaxUnits = 8
    BlockRange = 32
    IndexWords = 2
    ArgonCalls <- MCArgonCalls
    Callers <- MCCallers
    Parts = {"eddsa"}
INVARIANTS
    WritesAsDocumented
CHECK_DEADLOCK FALSE
