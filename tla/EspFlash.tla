------------------------------ MODULE EspFlash ------------------------------
(***************************************************************************)
(* The SPI flash driver of drivers/flash/esp_rom_spi/flash.c on top of the *)
(* NOR flash it drives.  One call of the driver is in flight at a time (the *)
(* boot loader is single threaded); erase and write are long-running ROM    *)
(* calls, so a reset or a power loss may fall between any two of them or   *)
(* tear the one in progress.                                               *)
(*                                                                         *)
(* A byte is the set of its bits that read 1: erasing sets all of them,    *)
(* programming can only clear bits.                                        *)
(***************************************************************************)
EXTENDS Integers

CONSTANTS
    TotalSize,    \* CHIP_FLASH_TOTAL_SIZE
    SectorSize,   \* CHIP_FLASH_MAX_SECTOR_SIZE
    WriteAlign,   \* CHIP_FLASH_WRITE_ALIGNMENT
    WordSize,     \* sizeof(uint32_t), the unit of the blank check
    ChunkSize,    \* bytes per ROM_FLASH_WRITE call, 256 in the code
    AddrSpace,    \* 2^32: uint32_t and size_t wrap here
    Bits,         \* the bits of a byte
    RomErrors,    \* the non-zero return codes of the ROM functions
    Addrs, Lens,  \* the addresses and lengths callers pass
    Payloads,     \* the buffers they write
    NULL

Byte == SUBSET Bits
Erased == Bits
Cells == 0 .. TotalSize - 1
Buffer(len) == [0 .. len - 1 -> Byte]

ASSUME GeometryAssumption ==
    /\ TotalSize \in Nat \ {0}
    /\ SectorSize \in Nat \ {0}
    /\ WriteAlign \in Nat \ {0}
    /\ WordSize \in Nat \ {0}
    /\ ChunkSize \in Nat \ {0}
    /\ AddrSpace \in Nat
    /\ TotalSize < AddrSpace
    /\ \E k \in 1 .. TotalSize : TotalSize = k * SectorSize
    /\ \E k \in 1 .. WriteAlign : WriteAlign = k * WordSize
    /\ \E k \in 1 .. ChunkSize : ChunkSize = k * WriteAlign

ASSUME InputAssumption ==
    /\ Addrs \subseteq 0 .. AddrSpace - 1
    /\ Lens \subseteq 0 .. AddrSpace - 1
    /\ RomErrors \subseteq 1 .. AddrSpace - 1
    /\ Payloads \subseteq UNION {Buffer(len) : len \in Lens}
    /\ NULL \notin Payloads

VARIABLES
    mem,        \* contents of the flash; survives every reset
    vendorErr,  \* s_last_vendor_error, in BSS; 0 is "none"
    phase,      \* where the driver is
    req,        \* the last call and its arguments
    done,       \* bytes of req.buf the loop has handed to ROM_FLASH_WRITE
    ret         \* what the last call answered

vars == <<mem, vendorErr, phase, req, done, ret>>

Phases == {"off", "panic", "idle", "program", "erase", "stray"}
Statuses == {"OK", "INVALID_ARG", "ALIGN", "BOUNDS", "NOT_ERASED", "FLASH",
             "PENDING", "LOST"}

Call(op, addr, len, buf) ==
    req' = [op |-> op, addr |-> addr, len |-> len, buf |-> buf]
Answer(status, val) == ret' = [status |-> status, val |-> val]

-----------------------------------------------------------------------------
(* The flash array. *)

\* The bytes a request of len bytes at addr covers.
Region(addr, len) == addr .. addr + len - 1

\* Does the request lie inside the flash (on unbounded integers)?
InFlash(addr, len) == addr + len <= TotalSize

\* Programming buf[from .. from+len-1] over the array: bits are only cleared.
Programmed(addr, buf, from, len) ==
    [c \in Cells |-> IF c \in Region(addr + from, len)
                     THEN mem[c] \cap buf[c - addr] ELSE mem[c]]

\* Interrupted programming: each bit of the chunk is cleared or not yet.
TornPrograms(addr, buf, from, len) ==
    {m \in [Cells -> Byte] :
        \A c \in Cells :
            IF c \in Region(addr + from, len)
            THEN mem[c] \cap buf[c - addr] \subseteq m[c] /\ m[c] \subseteq mem[c]
            ELSE m[c] = mem[c]}

SectorOf(addr) == Region((addr \div SectorSize) * SectorSize, SectorSize)

\* ROM_FLASH_ERASE takes the sector number.
SectorErased(addr) ==
    [c \in Cells |-> IF c \in SectorOf(addr) THEN Erased ELSE mem[c]]

\* Interrupted erase: nothing is known of the sector's bytes.
TornErases(addr) ==
    {m \in [Cells -> Byte] : \A c \in Cells \ SectorOf(addr) : m[c] = mem[c]}

-----------------------------------------------------------------------------
Init ==
    /\ mem \in [Cells -> Byte]
    /\ vendorErr = 0
    /\ phase = "off"
    /\ req = [op |-> "none", addr |-> 0, len |-> 0, buf |-> NULL]
    /\ done = 0
    /\ ret = [status |-> "LOST", val |-> NULL]

\* Fault: the ROM code is dropped.
RomFailureNotCached == UNCHANGED vendorErr /\ Answer("FLASH", NULL)

\* A ROM function returned non-zero: cache its code, answer BOOT_ERR_FLASH.
RomFailure == (\E rc \in RomErrors : vendorErr' = rc) /\ Answer("FLASH", NULL)

\* esp_flash_init: forget the old error, unlock the chip.  When unlocking
\* fails boot_platform_init panics and no further call is made.
FlashInit ==
    /\ phase = "off"
    /\ Call("init", 0, 0, NULL)
    /\ \/ /\ vendorErr' = 0
          /\ phase' = "idle"
          /\ Answer("OK", NULL)
       \/ /\ RomFailure
          /\ phase' = "panic"
    /\ UNCHANGED <<mem, done>>

\* The bounds check of read and write: the sum is a 32-bit one.
WithinBounds(addr, len) == (addr + len) % AddrSpace <= TotalSize

\* The copy out of the mapped flash.  A request that passed the check and yet
\* leaves the flash strays into whatever is mapped there; the model stops.
Fetch(addr, len) ==
    IF InFlash(addr, len)
    THEN phase' = phase /\ Answer("OK", [i \in 0 .. len - 1 |-> mem[addr + i]])
    ELSE phase' = "stray" /\ Answer("PENDING", NULL)

\* esp_flash_read.
Read ==
    /\ phase = "idle"
    /\ \E addr \in Addrs, len \in Lens, null \in BOOLEAN :
        /\ Call("read", addr, len, NULL)
        /\ \/ /\ null
              /\ Answer("INVALID_ARG", NULL)
              /\ phase' = phase
           \/ /\ ~null /\ ~WithinBounds(addr, len)
              /\ Answer("BOUNDS", NULL)
              /\ phase' = phase
           \/ ~null /\ WithinBounds(addr, len) /\ Fetch(addr, len)
    /\ UNCHANGED <<mem, vendorErr, done>>

\* The argument checks of esp_flash_write, in the order of the code.
WriteCheck(addr, len, buf) ==
    IF buf = NULL \/ len = 0 THEN "INVALID_ARG"
    ELSE IF addr % WriteAlign # 0 \/ len % WriteAlign # 0 THEN "ALIGN"
    ELSE IF ~WithinBounds(addr, len) THEN "BOUNDS"
    ELSE "OK"

\* Faults: the check stops one word early; it is compiled out.
BlankButLastWord(addr, len) ==
    \A w \in 0 .. (len \div WordSize) - 2 :
        \A b \in 0 .. WordSize - 1 : mem[addr + w * WordSize + b] = Erased
BlankUnchecked(addr, len) == TRUE

\* The blank check compares whole words: len / sizeof(uint32_t) of them.
Blank(addr, len) ==
    \A w \in 0 .. (len \div WordSize) - 1 :
        \A b \in 0 .. WordSize - 1 : mem[addr + w * WordSize + b] = Erased

\* esp_flash_write up to its loop: every refusal, or the loop is entered.
WriteRefused(addr, len, buf) ==
    /\ \/ /\ WriteCheck(addr, len, buf) # "OK"
          /\ Answer(WriteCheck(addr, len, buf), NULL)
       \/ /\ WriteCheck(addr, len, buf) = "OK"
          /\ InFlash(addr, len) /\ ~Blank(addr, len)
          /\ Answer("NOT_ERASED", NULL)
    /\ UNCHANGED <<phase, done>>

WriteStarted(addr, len, buf) ==
    /\ WriteCheck(addr, len, buf) = "OK"
    /\ InFlash(addr, len) => Blank(addr, len)
    /\ phase' = IF InFlash(addr, len) THEN "program" ELSE "stray"
    /\ done' = 0
    /\ Answer("PENDING", NULL)

Write ==
    /\ phase = "idle"
    /\ \E addr \in Addrs, len \in Lens : \E buf \in (Payloads \cap Buffer(len)) \cup {NULL} :
        /\ Call("write", addr, len, buf)
        /\ WriteRefused(addr, len, buf) \/ WriteStarted(addr, len, buf)
    /\ UNCHANGED <<mem, vendorErr>>

\* Faults: the page limit is off by one; the remainder is rounded down to full
\* pages and never shrinks.
ChunkOffByOne ==
    IF req.len - done > ChunkSize - 1 THEN ChunkSize - 1 ELSE req.len - done
ChunkFullPages ==
    IF req.len - done > ChunkSize THEN ChunkSize
    ELSE ((req.len - done) \div ChunkSize) * ChunkSize

\* Length of the next ROM_FLASH_WRITE.
Chunk == IF req.len - done > ChunkSize THEN ChunkSize ELSE req.len - done

\* One turn of the loop in which the ROM call succeeds.
ProgramChunk ==
    /\ phase = "program"
    /\ mem' = Programmed(req.addr, req.buf, done, Chunk)
    /\ \/ /\ done + Chunk < req.len
          /\ done' = done + Chunk
          /\ UNCHANGED <<phase, ret>>
       \/ /\ done + Chunk >= req.len
          /\ done' = 0
          /\ phase' = "idle"
          /\ Answer("OK", NULL)
    /\ UNCHANGED <<vendorErr, req>>

\* One turn in which it fails, possibly half way through the chunk.
ProgramFails ==
    /\ phase = "program"
    /\ RomFailure
    /\ mem' \in TornPrograms(req.addr, req.buf, done, Chunk)
    /\ phase' = "idle"
    /\ done' = 0
    /\ UNCHANGED req

\* esp_flash_erase_sector up to its ROM call.
EraseSector ==
    /\ phase = "idle"
    /\ \E addr \in Addrs :
        /\ Call("erase", addr, SectorSize, NULL)
        /\ \/ /\ addr % SectorSize # 0
              /\ Answer("ALIGN", NULL)
              /\ phase' = phase
           \/ /\ addr % SectorSize = 0 /\ addr >= TotalSize
              /\ Answer("BOUNDS", NULL)
              /\ phase' = phase
           \/ /\ addr % SectorSize = 0 /\ addr < TotalSize
              /\ Answer("PENDING", NULL)
              /\ phase' = "erase"
    /\ UNCHANGED <<mem, vendorErr, done>>

EraseDone ==
    /\ phase = "erase"
    /\ mem' = SectorErased(req.addr)
    /\ phase' = "idle"
    /\ Answer("OK", NULL)
    /\ UNCHANGED <<vendorErr, req, done>>

EraseFails ==
    /\ phase = "erase"
    /\ RomFailure
    /\ mem' \in TornErases(req.addr)
    /\ phase' = "idle"
    /\ UNCHANGED <<req, done>>

\* esp_flash_get_sector_size; the out pointer may be NULL.
GetSectorSize ==
    /\ phase = "idle"
    /\ \E addr \in Addrs, null \in BOOLEAN :
        /\ Call("sector_size", addr, 0, NULL)
        /\ \/ null /\ Answer("INVALID_ARG", NULL)
           \/ ~null /\ addr >= TotalSize /\ Answer("BOUNDS", NULL)
           \/ ~null /\ addr < TotalSize /\ Answer("OK", SectorSize)
    /\ UNCHANGED <<mem, vendorErr, phase, done>>

\* esp_flash_get_vendor_error: clear on read.
GetVendorError ==
    /\ phase \in {"idle", "panic"}
    /\ Call("vendor_error", 0, 0, NULL)
    /\ Answer("OK", vendorErr)
    /\ vendorErr' = 0
    /\ UNCHANGED <<mem, phase, done>>

\* Reset or power loss at any moment.  RAM is gone (bss_init zeroes the vendor
\* error) and a ROM call in progress is torn; req is kept only to be able to
\* speak about the interrupted call.
Reset ==
    /\ \/ phase = "program" /\ mem' \in TornPrograms(req.addr, req.buf, done, Chunk)
       \/ phase = "erase" /\ mem' \in TornErases(req.addr)
       \/ phase \notin {"program", "erase"} /\ mem' = mem
    /\ vendorErr' = 0
    /\ phase' = "off"
    /\ ret' = IF ret.status = "PENDING" THEN [status |-> "LOST", val |-> NULL] ELSE ret
    /\ done' = 0
    /\ UNCHANGED req

Next ==
    \/ FlashInit \/ Read \/ Write \/ ProgramChunk \/ ProgramFails
    \/ EraseSector \/ EraseDone \/ EraseFails
    \/ GetSectorSize \/ GetVendorError \/ Reset

Spec == Init /\ [][Next]_vars

\* A ROM call in progress returns.
FairSpec == Spec /\ WF_vars(ProgramChunk) /\ WF_vars(EraseDone)

-----------------------------------------------------------------------------
(* Properties *)

\* Every variable keeps its type, done never passes the end of the request.
TypeOK ==
    /\ mem \in [Cells -> Byte]
    /\ vendorErr \in RomErrors \cup {0}
    /\ phase \in Phases
    /\ req.op \in {"none", "init", "read", "write", "erase", "sector_size",
                   "vendor_error"}
    /\ req.addr \in 0 .. AddrSpace - 1
    /\ req.len \in Nat
    /\ done \in Nat
    /\ ret.status \in Statuses

Stored(from, to) ==
    \A i \in from .. to - 1 : mem[req.addr + i] = req.buf[i]
Untouched(from, to) ==
    \A i \in from .. to - 1 : mem[req.addr + i] = Erased

\* While the write loop runs, what it has handed to the ROM is stored and what
\* it has not is still blank (flash.c:111-128).
LoopInvariant ==
    phase = "program" =>
        /\ req.op = "write" /\ ret.status = "PENDING"
        /\ req.buf \in Buffer(req.len)
        /\ InFlash(req.addr, req.len)
        /\ done < req.len
        /\ Stored(0, done) /\ Untouched(done, req.len)

\* A write that answers BOOT_OK (flash.c:81-131) has stored the caller's
\* buffer bit for bit: the blank check covers every byte the loop programs.
WriteStoresBuffer ==
    req.op = "write" /\ ret.status = "OK" => Stored(0, req.len)

\* BOOT_ERR_FLASH is never answered without a vendor code to go with it, until
\* the reset that clears RAM (flash.c:42, 120, 151).
FlashErrorHasCode ==
    ret.status = "FLASH" /\ phase # "off" => vendorErr # 0

\* Every ROM_FLASH_WRITE of the loop is aligned in address and in length,
\* whatever the remainder of the request (flash.c:116-118).
RomCallsAligned ==
    phase = "program" =>
        /\ Chunk > 0
        /\ (req.addr + done) % WriteAlign = 0
        /\ Chunk % WriteAlign = 0

\* flash.c:10 "Read: no alignment constraint, bounds-checked": no request that
\* passes the bounds check touches anything outside the flash.
AccessesStayInFlash == phase # "stray"

\* CONTRIBUTING.md: "All functions must have bounded execution time": a write
\* or an erase comes back to its caller.
CallsReturn == phase \in {"program", "erase"} ~> phase \notin {"program", "erase"}

\* The contents a caller may rely on: while the loop runs, the bytes it has not
\* finished count as blank, which the blank check has made sure of.
Settled ==
    [c \in Cells |-> IF phase = "program" /\ c \in Region(req.addr, req.len)
                     THEN Erased ELSE mem[c]]

Promise == INSTANCE NorFlash WITH store <- Settled

\* The driver implements the atomic flash: each write and each erase is one
\* step of NorFlash or one torn step of it, and reads return settled contents.
ImplementsNorFlash == Promise!Spec

\* What the callers' arguments satisfy in a build without huge lengths: the
\* 32-bit sum of address and length does not wrap.
NoWrap == \A addr \in Addrs, len \in Lens : addr + len < AddrSpace
=============================================================================
