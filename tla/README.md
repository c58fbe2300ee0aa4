# A verification model of the Toob registry

The repository holds what the Toob boot loader needs for one chip, the
ESP32-C6, and for a host sandbox: startup code, drivers behind seven HAL traits,
a crypto back end (Monocypher and a SHA-256), OS hooks, the registry data and
the gate that judges pull requests. The boot loader's state machine itself
(`boot_main`, the write-ahead log, `boot_panic`) lives in another repository;
here it appears as a caller that may do anything its interface allows.

## 1. Inventory

| Component | State it keeps | Operations | Interacts through |
|---|---|---|---|
| SPI flash driver `drivers/flash/esp_rom_spi/flash.c` | `s_last_vendor_error`; the flash array | init, read, write, erase_sector, get_sector_size, get_vendor_error | ROM functions; contents survive a reset |
| Watchdog driver `drivers/wdt/.../wdt.c` | saved prescaler; registers of TIMG0, TIMG1, LP and the super watchdog | init, deinit, kick, suspend, resume | hardware that counts and bites on its own |
| Startup, platform `chips/esp32c6/startup.c`, `chip_platform.c` | how far the boot has come; BSS | sterilize watchdogs, install trap, clear BSS, init six HALs in order | calls every driver |
| Trap handler `arch/riscv32/arch_trap.c` | - | dispatch, wait for ever | may interrupt anything; relies on a watchdog |
| Reset reason `drivers/clock/.../reset_reason.c` | cache in BSS | get_reset_reason | PMU register, set by the last reset |
| Confirmation `drivers/rtc/esp_rtc_mem/confirm.c`, linker script | the nonce cell in LP_RAM | check_ok, clear | the OS writes the cell; `.noinit` shares it |
| UART console `drivers/uart/esp_uart_v1/console.c` | register base; FIFOs, shadowed registers | init, putchar, getchar, flush, deinit | hardware that sends and receives on its own |
| System timer `arch/riscv32/arch_timer.c` | register base; counter and snapshot | init, get_tick_ms, delay_ms | hardware that counts on its own |
| eFuse, RNG, provisioning `chip_platform.c`; eFuse mock `mock_efuse.c` | fuses; the RNG register | read_key, read_dslc, random, monotonic counter | linker `--wrap` replaces some of them |
| SHA-256 `sha256.c` (kept twice, the same file) | chaining value, buffer, index, length | init, update, final | `crypto_monocypher.c` wraps it as hash_init, hash_update, hash_finish |
| BLAKE2b; SHA-512, HMAC, HKDF | context: hash, offset or length, input, index; the HMAC key | init, update, final; expand | Argon2, signatures |
| Poly1305, ChaCha20, authenticated encryption | MAC context; counter and key of a stream or session | init, update, final; djb, ietf, x; write, read | a transport between two contexts |
| Argon2 | work area of blocks, one segment per lane and slice | one call | the lanes of a slice must not depend on each other |
| Scalars mod L, field, Edwards curve, X25519, Elligator | - (pure functions) | reduce, multiply, invert; ladder, combs, windows; map and reverse map | signatures, key exchange |
| Key pairs, signatures `crypto_eddsa_*`, `crypto_ed25519_*` | the caller's buffers, which may overlap | key_pair, sign, check | hash and curve |
| Crypto HAL `crypto_monocypher.c` | - | ed25519 verify, hash | Monocypher, SHA-256 |
| Sandbox fault injection `chips/sandbox/chip_fault_inject.c` | write counter, configuration from the environment | torn write, bit rot | mocks of another repository; a flash file that outlives the process |
| Pull request gate `.github/workflows/pr-gate.yml` | list of paths, forbidden ones | fetch pages, loop, verdict | GitHub's API, which may fail at any page |
| PQC stub, OS hooks, sandbox chip, registry data, toolchains | - | - | section 5 |

What is hard here. Nothing runs in threads, but the *hardware* moves between any
two instructions of a driver: watchdogs, FIFOs, the timer, the ROM. Power and
resets end any sequence of stores in the middle, and RAM that survives a warm
reset carries state into the next boot. Sums and products wrap in 32 bits.
The crypto code is sequential, and hard in another way: it cuts messages into
words and blocks at every alignment, works in buffers that may overlap, reduces
numbers only partly and relies on bounds that only extreme values reach, and its
contexts are used over long sequences of calls, with a peer across a transport
that loses, repeats and damages.

What makes each part correct, in one line:

- *Flash*: a write that answers OK is stored, one that is cut short leaves a
  prefix, and a call never touches more than the sector or the bytes asked for.
- *Watchdogs, boot, reset reason*: no watchdog but the boot watchdog bites, never
  early, every hang is reset, and that reset is reported for what it is.
- *Confirmation*: it counts once, for one boot.
- *Console, timer*: no byte is lost, every call returns; a reading is whole and
  fresh and delays are long enough.
- *Hashes, MAC*: the result depends on the message only, not on how it was cut.
- *Ciphers*: no byte of key stream serves twice; a reader gets a prefix of what
  was written and is never locked out.
- *Argon2*: the schedule of the lanes makes no difference.
- *Arithmetic, curve*: representatives are those of the right number or point,
  and no intermediate value leaves its word.
- *Signatures, exchange*: what was signed verifies, nothing else does; two
  parties derive one secret.
- *Platform*: a caller is told what happened; the mock and the sandbox show
  states that the silicon can be in.
- *Gate*: it passes a pull request only if it has seen that every path is allowed.

## 2. Modules

Every module names the code it models in its header, keeps the names of the
source, and ends with its properties. A definition marked *Fault* is a plausible
bug in the definition below it; no specification uses it, and the properties are
tried against it.

The boot loader's own code:

- `NorFlash` (abstract): contents, and atomic reads, writes and erases that
  succeed, fail cleanly, or are torn. `EspFlash` is the driver: the checks in
  their order, the write loop with one ROM call per step, failures and resets
  between or inside ROM calls. `EspFlash!Promise` maps it to `NorFlash`: bytes
  the running write has not settled count as blank, which is true because of the
  blank check. A flash byte is a set of bits: programming clears bits, erasing sets them.
- `EspWdt`: the watchdog registers, and each driver function as the sequence of
  its register writes; `EspBoot` EXTENDS it with the boot flow, traps, bites,
  reset causes and the reason cache. One step is one register write, so that a
  dog may bite between an unlock and the lock after it.
- `EspConfirm`: the nonce cell as two 32-bit halves, `check_ok` and `clear` store
  by store, the OS, `boot_main`, and `.noinit`, which the linker script puts at
  the same address.
- `EspUart`: one step per turn of a polling loop, and one for the access to a FIFO
  that a turn leads to; FIFOs and the register synchronisation move on their own,
  between a look at a FIFO level and the access too.
- `SysTimer`: one step per register access; counter and snapshot move on their own.
- `EspEfuse`: eFuse, RNG and provisioning functions in the two builds, silicon and
  mock, with the names that `--wrap` really replaces.
- `FaultInject`: the sandbox's write counter and bit rot over a flash file and
  several runs of the process. Its instance `Nor` of `NorFlash` says that a torn
  write of the sandbox is one that a caller of the real driver must expect.
- `CryptoVerify`: `crypto_monocypher_verify` comparison by comparison, with a
  glitch that may turn one.
- `PrGate`: the fetch page by page, the loop over the paths and the exit codes.

The crypto back end:

- `HashPromise` (abstract): a message, and its padding as FIPS 180-4 defines it.
  `Sha256` is the context of `sha256.c` under the checks of `crypto_monocypher.c`,
  one byte per step. The chaining value is the sequence of the blocks that went
  into it, so two values are equal exactly when their blocks are.
- `SymbolicBytes`: bytes of hashed data. A byte is known, or byte i of the digest
  of something; `Blake2b` and `Sha512` (with HMAC and HKDF) are built on it and
  keep the bytewise input, the word-wise fast path, offsets and lengths that carry.
- `Poly1305`: the limbs and products of the code, for any width of a limb.
- `Chacha20`: key stream bytes named by what goes into the rounds;
  `ChachaStream` calls the three ciphers in pieces; `Aead` is a session of a
  writer and a reader with a transport between them.
- `Argon2`: a call has its configuration and inputs; a block's content is how often it was
  filled and by which references; lanes of a slice run in any order, of which the code takes one.
- `ScalarModL` with `Ed25519Constants`: reduction modulo L word by word.
- `Fe25519`: the ten limbs, their carries, products and encodings. `PrimeField`:
  the same operations over a small prime, for `Edwards` (points, tables, combs,
  windows, with the size of every uncarried sum) and `X25519` (ladder, Elligator,
  dirty and hidden keys). `AffineCurve` is the reference: the group law on affine
  points. `EdwardsWalk` walks over points, `CurveCalls` makes single calls,
  `KeyExchange` runs two parties.
- `Eddsa`: key pairs, signatures and checks by a caller with a memory of cells, where
  the buffers of a call may overlap. A caller (an element of `Callers`) says how large that
  memory is and which places, seeds, messages and schemes it uses.

Put together for TLC:

- `MCParts` EXTENDS `Sha256` and instantiates ten other parts that share no state
  with each other: the timer, the cipher stream, sessions, Poly1305, Argon2, signatures, the
  verification, the eFuse and RNG functions, the sandbox and the gate. A behaviour runs one of them, named by
  `part`: nothing is composed, it only saves starts of the checker. The sizes
  of its instances are its own CONSTANTS, so that a theorem about a part holds for
  every value of them.
- `MCDrivers` does the same for the drivers of flash, confirmation and console: it EXTENDS
  `EspFlash` and instantiates the other two; `driver` names the one that runs.
- `MCCrypto` does the same for other functions of `monocypher.c`: it EXTENDS
  the three modules on the curve and instantiates the hashes, the
  scalars and the field.
- the other `MC...` modules hold the small sets of one specification; where a
  specification needs none, its .cfg names the specification's own module.
- `...Proofs` modules hold the theorems. `NumberLemmas` is the arithmetic that they
  share: quotients, remainders and induction. `PartsProofs` is about SHA-256 and all other
  parts in `MCParts` but three, and takes the timer's theorems from `SysTimerProofs` by INSTANCE.
  `CryptoProofs` is about those three: Poly1305, Argon2 and signatures. `DriversProofs` is about the
  flash driver, and carries the theorems of `EspConfirmProofs` and `EspUartProofs` over to `MCDrivers`.

| Code | Model |
|---|---|
| `esp_flash_write`: checks, blank check, loop, ROM error | `WriteCheck`, `Blank`, `Write` / `ProgramChunk` / `ProgramFails`, `RomFailure` |
| `esp_flash_erase_sector`, its ROM call, its failure | `EraseSector`, `EraseDone`, `EraseFails` |
| reset at any point of a flash call | `Reset` with `TornPrograms`, `TornErases` |
| `wdt_sterilize_all`, `esp_rwdt_*` | `Sterilize`, `RwdtInit`, `RwdtKick`, ... run by `RegWrite` |
| `_start`, `boot_platform_init` | `RomJumps`, `Advance`, `BssInit`, `FlashInit`, `BootMainEnds` |
| `esp_get_reset_reason` | `AskReason`, `ReasonOf` |
| `esp_confirm_check_ok`, `esp_confirm_clear` | `CheckOk`, `Clear`, `ZeroHalf`, `Return` |
| `esp_uart_init` and `uart_sync_regs` | `InitWrite`, `SyncAsk`, `SyncPoll` along `InitBody` |
| `esp_uart_putchar`, `getchar`, `flush` | `PutcharLook`, `PutcharWrite`, `GetcharLook`, `GetcharTake`, `Flush` |
| `systimer_read_count`, its callers | `AskLatch`, `PollLatch`, `ReadLo`, then `GetTickMs` or `DelayMs` |
| `sha256_update`, `sha256_final` | `HashUpdate` / `TakeByte` / `UpdateDone`, `HashFinish` with `Tailed` |
| `esp_read_pubkey`, `read_dslc`, `random`, monotonic counter, `--wrap` | `ReadPubkey`, `ReadDslc`, `Random`, `ReadMonotonic`, `AdvanceMonotonic`, `Reached` |
| `chip_fault_begin_write`, `..._apply_bitrot`, `..._init` | `BeginWrite` with `Torn`, `Read` with `ApplyBitrot`, `FaultInjectInit` |
| the steps of `pr-gate.yml` | `Page`, `PageFails`, `Exit0IfEmpty`, `CheckFile`, `Finish` |
| `crypto_blake2b_update`, `crypto_sha512_update`, `..._final` | `Update`, `Final` of `Blake2b` and `Sha512` (`Begin`, `Extend`, `Finish` call them) |
| `crypto_sha512_hkdf_expand`, `extended_hash` | `HkdfExpand`, `ExtendedHash` |
| `poly_blocks`, `crypto_poly1305_update`, `..._final` | `PolyBlock`, `Update`, `Final` |
| `crypto_chacha20_djb`, `_ietf`, `_x` | `Djb`, `Ietf`, `X` and the counters they return |
| `crypto_aead_write`, `crypto_aead_read` | `Write`, `Read` of `Aead`; lost, repeated and damaged messages are `Lose`, `Deliver`, `DeliverDamaged` |
| `crypto_argon2` | `InitialHash`, `Fill`, `NextSlice`, `Finish` |
| `mod_l`, `redc`, `crypto_x25519_inverse`'s scalar | `ModL`, `Redc`, `InverseScalar` |
| `fe_*`, `FE_CARRY` | `Carry`, `Mul`, `Sq`, `ToBytes`, ... of `Fe25519` |
| `ge_*`, `lookup_add`, `slide_*`, `crypto_eddsa_check_equation` | `GeAdd`, ..., `LookupAdd`, `SlideStep`, `CheckEquation` |
| `scalarmult`, `crypto_x25519_dirty_*`, `crypto_elligator_*` | `Scalarmult`, `DirtySmall`, `DirtyFast`, `ElligatorMap`, `ElligatorRev` |
| `crypto_eddsa_key_pair`, `_sign`, `_check`, `crypto_ed25519_*` | `MakePair`, `MakeSignature`, `Check` |
| `crypto_monocypher_verify` | `Verify`, `First`, `Second`, `Last` |

External, and so modelled only as the code uses it: the ROM flash functions and
the NOR array, the watchdog, UART, timer and PMU hardware, the power supply, the
OS, `boot_main` and `boot_panic`, the transport of a session, the callers of the
crypto functions, GitHub. They are as nondeterministic as the code and
its comments leave them. A flash program may be torn at any byte of a ROM call and
damage what it was writing; a watchdog's first tick after a feed may come early; an
LP_RAM store may be lost; a UART or timer may answer at any time or never.

Compression functions and the rounds of a cipher are represented by what goes
into them: two results are equal exactly when their inputs are. That is what
collision resistance means for a reader of the code, and it shows each byte
that is lost, doubled or moved. It cannot show a wrong rotation inside a round.

## 3. Runs

| Run | Question | Bounds |
|---|---|---|
| `drivers` | do the drivers of flash, confirmation and console keep their promises under failures, resets and hardware that moves? | below |
| `flash_wrap` (violation) | is every read bounds-checked, as `flash.c:10` says? | an address space of 16, lengths up to 14 |
| `boot` | do the watchdogs and the reset reason work together over the whole boot? | a timeout of two ticks, prescalers 2 and 3; all reset codes |
| `boot_trap` (violation) | does the watchdog end every trap, as `arch_trap.c:76` says? | same |
| `confirm_noinit` (violation) | does `.noinit` persist, as the linker script says? | as in `drivers` |
| `uart_timeout` (violation) | does getchar wait for its timeout? | as in `drivers` |
| `timer_ms` (violation) | are milliseconds monotonic, as `arch_timer.c:11` says? | a counter of 2 x 4, an answer of one bit |
| `eddsa_overlap` (violation) | are the writes of a key pair seen in the order of `monocypher.c:2222-2225`, whatever overlaps? | the signatures of `parts` |
| `pr_gate_pages` (violation) | does a pass mean that every path was seen, as `pr-gate.yml:5` says? | up to four changes in pages of two, no renames |
| `pr_gate_moves` (violation) | does a pass mean that only files in the allowed directories were touched, as `pr-gate.yml:5` and `:89` say? | renames, and a list that is complete |
| `parts` | does each part that shares no state with another keep its promises? | below |
| `crypto` | do the functions of `monocypher.c` compute what their standards say? | below |

The instances of `drivers`:

| Driver | Instance |
|---|---|
| flash | 8 bytes, sectors of 4, words of 2, chunks of 4; requests of 0, 2, 3, 6 bytes at 0, 1, 4, 8; every one-word buffer; a byte has one bit |
| confirmation | three boots, each with a nonce of its own |
| console | FIFOs of two, guards of two and three turns, three bytes of traffic, 8-bit words |

The instances of `parts`:

| Part | Instance |
|---|---|
| timer | a counter of 2 x 3, two ticks per ms, delays of 0 and 2 ms |
| SHA-256 | blocks of 4 bytes, 2 of them length; messages of up to 5 bytes |
| ChaCha20, sessions | blocks of 2 bytes, counter words of 4 values; three messages |
| Poly1305 | limbs of 7 bits, modulus 2^30 - 5, messages of up to 8 units |
| Argon2 | 2 lanes, 25 blocks, 2 passes, variant id; 3 lanes, 24 blocks, variant d, one byte in each string |
| signatures | a memory of 7 cells, two calls, secret keys at two places and every public key and seed, wherever they overlap; a memory of 12 with 2 seeds, 2 messages, 3 schemes and 5 calls |
| verification | two glitches |
| eFuse, RNG | words of 2 bytes, lengths 0 to 5, three calls, both builds |
| sandbox | 5 bytes, a loss at the second write or never, two runs |
| gate | six paths of every class, a rename into an allowed directory and one out of it, pages of two, three changes |

The instances of `crypto`:

| Part | Instance |
|---|---|
| BLAKE2b, SHA-512 | words of 2 bytes, blocks of 4 words; pieces of 0 to 17 bytes, messages of up to 26; a carry out of the low offset or length word |
| scalars | L = 29 in words of 4 bits, every number up to L * 2^8 and every fifth above; L itself, in words of 8 bits, on patterns |
| field | limbs of 2 and 1 bits modulo 2^15 - 19; limbs of the code's own size at the ends of their ranges |
| curve | p = 32957, 8 * 4133 points, 16-bit scalars, combs of teeth two apart |

Why the bounds are enough for what the properties tell apart:

- Flash: two sectors show that an erase spares the other one; two words in a
  sector and a chunk of two words give an aligned request that takes a full
  chunk and a shorter one, crosses a sector boundary and can be torn in either;
  an unaligned length and address, the empty request and one at the very end
  meet each refusal. All contents of the flash are initial states.
- Boot: no length is bounded; resets may follow each other for ever. A counter
  that bites at four (the doubled timeout) distinguishes a kick in time from a late one and
  the two prescalers from each other. Times beyond the stretched timeout are not told apart.
- Confirm: a nonce of an older boot, of the last and of the next are three.
- SHA-256: one and two bytes of data are the two sides of the padding boundary; five
  bytes are a full block and a part of the next; contexts are reused without bound.
- UART: a FIFO holds one byte of the ROM and one of ours, or two of ours; 128 ms
  are 256 turns, zero in eight bits; baud rate 3 leaves a fraction and 0
  is refused.
- Timer: every starting position of the counter, with wraps of the low half and
  of the whole; 2 ms exceed the low half.
- Other hashes: lengths around those of a word and a block, on either side of each
  boundary, in every order; messages reach into the third block.
- Poly1305: with r = 1, units just below 128 bring the sum to each of the five values
  where one more subtraction is due, and to their neighbours.
- Sessions: three messages are enough for a duplicate, a swap, a loss and a damaged
  message before a good one.
- Arithmetic: the small modulus is enumerated, so every estimate of a quotient that is one too
  low is met; the full-size constants are checked by the properties that use them.
- Curve: the order is as close above a power of two, and as 5 modulo 8, as the
  real one; both cases of every comb and window occur, with points of every
  order and public keys that are on no curve.
- Gate: a page that is full, one that is not, and an empty one after a full one.

### What the properties say

- *Flash.* `WriteStoresBuffer`: OK means stored, bit for bit.
  `FlashErrorHasCode`; `RomCallsAligned` (the remainder too); `ImplementsNorFlash`: each call is one atomic step or one torn one; after an
  error or a reset a stored prefix, at most one damaged chunk, blank
  behind it - what a write-ahead log scans for -, and an erase that touches no other
  sector. `CallsReturn`. `AccessesStayInFlash` is checked only where sums wrap, in
  `flash_wrap`; elsewhere the code's own bounds check is that statement.
- *Boot.* `HardwareMatchesMode`: between calls, locks closed, one dog, the timeout
  of the mode asked for. `OnlyBootWatchdogBites`: after sterilizing, no dog of the
  ROM. `NeverBitesEarly`: with the early first tick, the safety factor of two
  suffices, across suspend and resume. `WatchdogResetReported`: exactly after a bite,
  whatever RAM kept. `GuardedHangIsReset`: suspended or not, a hang ends.
- *Confirm.* `NoStaleNonce`: between calls no consumed or revoked nonce is in the
  cell. `AcceptedOnce`: check_ok answers true at most once for a complete
  confirmation, and only for the OS booted last.
- *Console.* `TxInOrder`, `RxInOrder`: bytes in = bytes out + bytes in the FIFO.
  `NothingStale`, `ConfigSettles`: after init the ROM's bytes are gone and the
  computed configuration is in effect. `WaitingIsReturned`: a byte already there
  is returned for any timeout, zero and wrapping ones included. `ConsoleCallsReturn`.
  `TxInOrder`, `NothingStale` and `ConfigSettles` except a console whose register
  synchronisation outlasted its guard: the driver gives up there and says OK all the same.
- *Timer.* `TimerReadingIsFresh`: the two halves make up a value the counter had
  since the reading began. `TimerDelayIsLongEnough`, wraps included. Both speak of
  snapshots that come within the guard. A late one may arrive between the reads of the two halves
  (`arch_timer.c:57-65`), and then neither holds, nor does a doc say that it should: that hazard
  has no property.
- *Hashes.* `ImplementsHash`: SHA-256 refines `HashPromise`. `HashesAreStandard`:
  the other hashes, HMAC and HKDF are, block for block, what their standards say,
  however a message is cut and wherever the HMAC key comes from.
- *MAC, ciphers.* `TagsAreStandard`: the tag is the polynomial modulo 2^30 - 5,
  fully reduced, no sum leaves its word, and the comparison sees every bit.
  `KeyStreamUsedOnce`: no byte of key stream serves twice over a sequence of
  calls, and whole blocks in pieces are one text. `SessionStaysInStep`: the
  reader has a prefix of what was written; as long as no message is lost it can read the
  next one, whatever was repeated or damaged before; key stream is not reused across messages.
- *Argon2.* `LanesMakeOneHash`: the code fills lanes one after another, and any
  other order would give the same: no reference into what another lane fills in the same slice, no address block twice, the four inputs do not run into each other,
  the result takes every lane.
- *Arithmetic.* `ScalarsAreReduced`: reductions give the remainder, the inverse
  of a blind undoes its key. `LimbsHaveValue`: limbs stand for the right number,
  every number has one encoding, the square root's exponent is the right one.
- *Curve.* `PointsAreRight`: coordinates and encodings are the point's and no
  sum given to a product is larger than its limbs allow. `MultiplesAreRight`: combs and
  windows for every scalar; the signature equation for the right s only.
  `HidingIsUndone`: Elligator and its reverse. `SecretsAgree`: two parties, five
  kinds of public key, blinds.
- *Signatures.* `SignaturesVerify`: a key pair is that of its seed whatever the seed
  overlaps, if the two keys are apart; its writes are seen in the documented order at every
  place but one of the public key (finding 6); with any overlap of signature, key and message a signature
  verifies, under its own scheme, key and message only; no nonce serves two messages or two schemes.
- *Platform.* `OneGlitchRejects`: one comparison turned does not make a bad
  signature good. `HalIsTruthful`: no random byte is given twice, and buffers hold what
  the caller is told. An advance of the monotonic counter has no property: silicon refuses it and
  the mock says OK and stores nothing, as its comment says (`mock_efuse.c:80-81`).
- *Sandbox, gate.* `FaultsAreAsAsked`, `SandboxImplementsNorFlash`: losses come at
  the write asked for and are among those of `NorFlash`. `GateJudgesPaths`: with a
  list fetched to its end and no file moved in from outside (finding 8) the verdict and
  the annotations are right, and an error's body is refused.

### Findings

1. `flash.c:65` adds address and length in 32 bits; with a length near 2^32 the
   check passes and `memcpy` leaves the flash (`flash_wrap`).
2. Between `wdt_sterilize_all` and `esp_rwdt_init` nothing guards the boot; a trap
   there waits for ever, although `arch_trap.c:76` counts on the watchdog (`boot_trap`).
3. The linker script places `.noinit` at the start of LP_RAM, where the confirm
   driver keeps its nonce: each overwrites the other (`confirm_noinit`).
4. `console.c:156` multiplies the timeout in 32 bits, and uses no timer, although
   lines 144-145 say so: 26844 ms at 160 MHz give up almost at once (`uart_timeout`).
5. `arch_timer.c:78` cuts milliseconds to 32 bits: not monotonic after 49.7 days
   (`timer_ms`).
6. `monocypher.c:2222-2225` says that, "to allow overlaps", the observable writes of
   `crypto_eddsa_key_pair` are seed, secret key, public key in this order. The copy of line 2233 reads
   the secret key byte by byte while it writes the public key: one that starts inside the second
   half of the secret key repeats its first bytes (`eddsa_overlap`).
7. `pr-gate.yml:51` keeps what was printed before a connection was lost: the paths
   of later pages are never seen and the gate passes (`pr_gate_pages`).
8. `pr-gate.yml:51` lists the new name of a renamed file only: a pull request that moves
   `registry.json` into `chips/` passes, although it takes away a file outside the directories of
   lines 5 and 89 (`pr_gate_moves`).

Seen while modelling, without a run because no text of the repository says otherwise or
because the rest of the matter is outside it:

- `crypto_elligator_rev` succeeds for u = -A, although `monocypher.c:2671` says that
  it has no mapping: `invsqrt` counts zero as a square (line 1451). That u is on no
  point of the curve, so no public key has it; `HiddenMapsBack` speaks of keys.
- `monocypher.c:2665` calls the sign bit 1 of the tweak; the code takes bit 0 (`tweak & 1`).
- `mock_efuse.c:8` says that the linker's `--wrap` replaces the functions of
  `chip_platform.c`; those that are `static` there and called through the table
  (`chip_platform.c:151`, `223-227`) are not reached by it. The mock also answers
  OK to an advance of the monotonic counter and changes nothing, so a test against
  it does not see what the silicon answers, NOT_SUPPORTED.
- Nothing sets `FILES_COUNT` of `pr-gate.yml:94`, and GitHub lists at most 3000 files.
- `TOOB_FAIL_AFTER_WRITES=0` means no fault, so that the sandbox cannot tear the first write.
- `crypto_monocypher_verify` relies on `BOOT_OK` not being 0, which is defined in
  another repository (`VerifyAssumption`).
- The loop of `crypto_elligator_key_pair` ends with probability one; no number of turns bounds it.

### Fairness

Safety runs need none. `EspFlash!FairSpec` lets a ROM call return
(`WF(ProgramChunk)`, `WF(EraseDone)`): the ROM functions are synchronous, and a
failing one returns too; nothing is assumed of callers or of power. `EspBoot!FairSpec`
lets time pass and a due watchdog bite: both are clocked hardware. `EspUart`
assumes that the core executes its loop (`WF(Driver)`), and nothing of the UART:
`ConsoleCallsReturn` must hold with hardware that has stopped. The crypto functions are
loops of fixed length, and a transport promises nothing: no fairness, and that a
reader is not locked out (`ReaderCanGoOn`) and that Argon2 takes every lane
(`HashTakesEveryLane`) are stated as safety.

## 4. Proofs

TLAPS proves, for every value of the constants under the named assumptions:

| Theorem | States |
|---|---|
| `DriversProofs!TypeCorrect` | `Spec => []TypeOK` |
| `DriversProofs!WritesAreStored` | `Spec => [](WriteStoresBuffer /\ LoopInvariant)` |
| `DriversProofs!RomCalls`, `ErrorsHaveCode` | `Spec => []RomCallsAligned`, `Spec => []FlashErrorHasCode` |
| `DriversProofs!ImplementsPromise` | `NoWrap /\ Spec => ImplementsNorFlash`, the refinement of `NorFlash` |
| `EspBootProofs!TypeCorrect` | `Spec => []TypeOK` |
| `EspBootProofs!ReasonIsTrue` | `Spec => []WatchdogResetReported` |
| `EspBootProofs!HardwareIsAsAsked`, `OnlyOursBites` | `Spec => []HardwareMatchesMode`, `Spec => OnlyBootWatchdogBites` |
| `EspBootProofs!BitesAreLate` | `StretchCovered /\ Spec => NeverBitesEarly` |
| `EspConfirmProofs!TypeCorrect` | `NonceAssumption /\ Spec => []TypeOK` |
| `EspConfirmProofs!NoStale`, `Accepted` | `NonceAssumption /\ Spec => []NoStaleNonce`, `... => AcceptedOnce` |
| `DriversProofs!NoNonceIsStale`, `OnlyLiveIsAccepted` | `DriversSpec => []NoStaleNonce`, `DriversSpec => AcceptedOnce` |
| `EspUartProofs!TypeCorrect` | `UartAssumption /\ Spec => []TypeOK` |
| `EspUartProofs!SentInOrder`, ... | the five properties below, of `UartAssumption /\ Spec` |
| `DriversProofs!SentInOrder`, `ReturnedInOrder` | `DriversSpec => []TxInOrder`, `DriversSpec => []RxInOrder` |
| `DriversProofs!NoRomByte`, `ConfigHolds` | `DriversSpec => []NothingStale`, `DriversSpec => []ConfigSettles` |
| `DriversProofs!ByteIsReturned` | `DriversSpec => WaitingIsReturned` |
| `PartsProofs!HashTypeCorrect`, `LengthIsCounted` | `Spec => []TypeOK`, `Spec => []LengthCounts` of `Sha256` |
| `PartsProofs!HashIsKept`, `HashIsKeptAmongParts` | `Spec => ImplementsHash`, the refinement of `HashPromise`, and `PartsSpec => ImplementsHash` |
| `SysTimerProofs!TypeCorrect` | `TimerAssumption /\ Spec => []TypeOK` |
| `SysTimerProofs!ReadingsAreFresh`, `DelaysAreLongEnough` | `TimerAssumption /\ Spec => []ReadingIsFresh` and `... => [][DelayIsLongEnough]_vars` |
| `PartsProofs!ReadingsAreFresh`, `DelaysAreLongEnough` | `PartsSpec => []TimerReadingIsFresh`, `PartsSpec => TimerDelayIsLongEnough` |
| `PartsProofs!KeyStreamUsedOnceAlways` | `PartsSpec => []KeyStreamUsedOnce` |
| `PartsProofs!SessionStaysInStepAlways` | `PartsSpec => []SessionStaysInStep` |
| `PartsProofs!OneGlitchRejectsAlways` | `PartsSpec => []OneGlitchRejects` |
| `PartsProofs!HalIsTruthfulAlways` | `PartsSpec => []HalIsTruthful` |
| `PartsProofs!FaultsAreAsAskedAlways` | `PartsSpec => []FaultsAreAsAsked` |
| `PartsProofs!SandboxRefinesNorFlash` | `PartsSpec => SandboxImplementsNorFlash`, the refinement of `NorFlash` |
| `PartsProofs!GateJudgesPathsAlways` | `PartsSpec => []GateJudgesPaths` |
| `CryptoProofs!TagsAreStandardAlways` | `PartsSpec => []TagsAreStandard` |
| `CryptoProofs!LanesMakeOneHashAlways` | `PartsSpec => []LanesMakeOneHash` |
| `CryptoProofs!SignaturesVerifyAlways` | `PartsSpec => []SignaturesVerify` |

So every safety property of the passing runs but those of `crypto` is proved.

The `TypeOK` are the typing part of the inductive invariants below; only the one of
`EspBoot` is also an invariant of a run.

- *Flash.* `WriteStoresBuffer` speaks of a finished call; what carries it through
  the loop is `LoopInvariant`: what is behind `done` is stored, what is ahead is
  blank. Blankness is where the argument is: the code looks at whole words, and
  `BlankCoversRegion` shows that an aligned region is a union of them. It
  rests on the assumption that the write alignment is a multiple of the word size,
  which holds in `hardware.json`. Programming blank bytes stores the buffer because
  programming clears exactly the bits that are clear in it (`ChunkStores`).
  `Aligned` adds that address, length and `done` are multiples of the alignment, so
  that a chunk is a full one or an aligned rest (`MultiplesAdd`). The refinement
  rests on `RefInv`: the invariant of the loop, of an erase under way, and that accesses
  stay in the flash. A turn of the loop is a stutter of `NorFlash`, the last one its
  commit, a failure or a reset in the middle its torn write with the chunks
  done so far as the prefix. The refinement assumes `NoWrap`: the end of
  no request passes the address width. Without it it is false (finding 1); `MCDrivers`
  makes the same assumption.
- *Boot.* A function is a sequence of writes, so the proof first says what each body
  is, write by write (`SterilizeIs`, `InitIs`, `ShortOnes`) and that every write stands
  between the unlocking and the locking of its dog (`Bracketed`). From then on
  `WriteLands` says what a write does; a swapped lock would break the proof there. `Control` ties
  flow, function, write and registers together: `Placed` (which function runs where), `Locked`
  (open is what the next write needs), `Chained` (which dogs are still or already
  armed), `Programming` (what TIMG0 holds in the middle of suspend and resume too). All
  but `Chained` let go of code that has stopped: a trap leaves the registers half-written.
  `Known` carries the reset reason: only bss_init separates a true cache from one
  that a warm reset left. `Paced` bounds the counter by the time since it was fed; with its early first
  tick the bound is one tick short, and the factor of two pays for it. Where a trap stops
  resume after the prescaler and before the feed, the stretched timeout must be covered by the
  doubled nominal one: `StretchCovered`, which 5000 ms, 40000 and 0xFFFF satisfy, and
  the instance of the run `boot` too. `CauseAssumption` says that the
  codes of `hardware.json` are disjoint.
- *Confirmation.* Neither property is inductive: a reset may leave one half of a
  nonce next to anything. `Inv` says where each half may come from: `Origin` (half of a
  drawn nonce, zero, junk, or `.noinit`), `Owner` (a half of a nonce that is not
  the live one never completes itself), `Storing`, `Checking` and `Complete` describe the
  halves still to be stored. The proof needs that two nonces differ in both halves
  (`NonceAssumption`); 64 random bits make that so but for a probability below 2^-31.
- *Hash.* The invariant `ShaInv` gives the length of what is absorbed (a multiple of
  `Block`, counted by `bitlen`) and what the buffer holds. The step that matters is
  `HashFinish`: `TailedAt` says byte by byte what `sha256_final` compresses, in
  either case of its branch; `PaddedBytes` says the same of the standard's padding; `PadLengthIs`
  shows that the fewest zeros are those that the code adds; `FinishPads`
  puts them together. `TakeByteKeepsMessage` shows that a byte moves from caller to
  buffer to chaining value without a change of the message: a stutter of the promise.
  `PowerAssumption` (powers of a positive number are positive) is arithmetic
  that would need induction.
- *Console.* `Typing` carries the types together with where each function is and what
  its last look saw (`Looked`): between look and access the FIFO may only change in the
  harmless direction, for the hardware takes from `tx` and adds to `rx`. `Control`
  ties the hardware to the driver: a wait that saw its answer means that what was
  written is in effect, and the FIFOs are in reset only early in init. On these
  two rest `Traffic` (bytes kept), `Clean` (the reset the hardware saw emptied the FIFOs and
  nothing enters before it is withdrawn), `Settled` (what init wrote stays) and
  `Held` (the first look finds a byte that waits). `Sixteenths` is the arithmetic
  of the divider; it needs that 16 * SCLK fits a word (`UartAssumption`).

- *Parts.* A step of all parts is a step or a stutter of the one that runs
  (`PartStep`), so each part has an invariant of its own and is proved on its own; the
  theorem about `PartsSpec` then follows. The assumptions are those of the parts' modules
  (`TimerOk`, ..., `GateOk`), which TLC evaluates for the instances of the run.
- *Timer.* `Fresh`: while the halves are read nothing latches, and the snapshot is the
  counter at most as many ticks ago as the reading has lasted. `Timed`: the counter, and
  the snapshot, show a number of ticks since the first reading of the delay, and
  the call has lasted at least as many. That number is known modulo the period only; delays
  are shorter than a period, so that what the code's subtraction gives is
  at most what has passed (`AgeHasPassed`). Both speak of a timer that answers within the
  guard, as the properties do.
- *Cipher.* The counters of a call are defined by recursion; `CountersAre` proves
  their closed form, block b has the number `ctr + b`, by `Induction`, the least
  number that is not in a set. `DjbIs` then says which byte of key stream meets byte
  i of a text. `NamesDiffer`: different nonces or counters below the cipher's width give
  different names, which for the IETF cipher needs that the first nonce word is the high
  half of the counter. `ChachaInv` says of each nonce how far its text has come, how far its
  counter has, and that the two agree at every border of a whole block; `CallStep` is one
  call more. A counter that wraps ends what is promised, in the property as in the proof.
- *Session.* The invariant says that there is a chain of keys K, one per message
  (`Chained`): what the writer and the reader hold is the key behind the last message each
  has seen (`Kept`), what is on its way is some message of the chain, and all of them
  if nothing was lost (`Carried`), and the key stream used is that of the
  keys so far (`Spent`). A key names the one it was made from, so none comes
  back (`KeysDiffer`, by induction); therefore a mac fits one place of the chain. `AuthTells`
  shows that what is authenticated can be taken apart again - padding and lengths leave
  one way to read it - so that a damaged message is refused (`DamagedIsRefused`) and an
  accepted one is the next; `CryptTwice` that the reader gets the text back. Texts are
  shorter than the counter's range less the block that gives the keys (`AeadAssumption`:
  2^64 blocks in the code).
- *Poly1305.* The width of a limb is any that `PolyAssumption` allows: at least four bits of a limb of r
  are cleared, as in the code, and three are left. `Holds` says what a context is after n whole
  blocks: clamped key, pad, the sum of those blocks (`Hashed`) as limbs of which the fifth is at most
  4, and the units that still wait (`Pending`). `ProductsAre` shows that the products
  are those of the numbers modulo the modulus and none overflows, `CarryBlockIs`
  that the partial carry changes the number by a multiple of the modulus only; the
  factor 5 is where the modulus enters. `UpdateHolds`: whatever the piece, a block
  is taken from the same four units. `TimesToSubtractIs`: the carry of h + 5 is the quotient by the
  modulus, also at the five values where it exceeds that by the power of two;
  then `FinalIsMac`. `OrIs`, `XorIs` and `Neq0Is` follow the comparison bit by bit.
- *Argon2.* `ArgonFilled`: in whatever order the lanes run, a block has been filled as
  often as pass, slice and `next` of its lane say. `WindowLeads`: a window counted
  backwards from its end reaches only blocks of other slices, or blocks of the own lane before the
  previous one; the subtraction that gives -1 wraps to a window that leaves out one block.
  `ReferenceLeads`: so what a block is made of is settled. `ArgonIndexed` and `ArgonSpent`: which index
  block serves is a function of the block's number, so two blocks with one address would
  be the same block. `Separated`: each string has its length in front, hence two inputs
  with the same first hash are equal string by string (`SameHash`). `ColumnsMix`
  and `RowsMix` follow the sets of words a word depends on through both halves of a mixing; the groups
  of G are disjoint and together all (`RoundIs`).
- *Signatures.* Bytes are sequences of symbols, and everything a hash or a multiple takes is
  written out in its term between a name and an end. The first group of lemmas shows that terms can be
  taken apart again: `SameTerm` and `SameEnclosed` (equal terms have equal contents, whatever the
  seeds and messages are), from them `SameNonce` (scheme, seed and message are known from a nonce; the
  domain of `ed25519ph` is what keeps it apart from `ed25519`), `SameHashRam` (the same of the hash of
  R, key and message, whose halves have marked ends) and `SecondHalves` (S is made of one h, a and r).
  The second group follows a key pair through memory cell by cell: `EddsaMakes` and `Ed25519Makes` give what each
  cell holds after the two orders of writing, also where the copy runs over its own source;
  `MadeIsOfSeed` and `MadeInOrder` read the promised contents off it. `SigInv` is the typing of
  memory and of what was signed (each nonce is that of its scheme, seed and message) with the three
  properties; the nonces' uniqueness follows from its typing (`NoncesDiffer`). A new signature's check holds because
  it is among what was signed; whatever else was signed fits it only if it is the same. `EddsaAssumption`: buffers lie inside memory. That
  a public key does not start inside the second half of its secret key is a premise of
  `WritesInOrderElsewhere` and of that part of the proof only (finding 6).
- *Verification.* `HalWords`: each word that says OK although the check did not has cost a
  glitch of its own; an accepted call has two such words.
- *eFuse, RNG.* The words drawn are below the count of those the register has given
  (`WordsBelow`); `DrawnOnce` is the arithmetic of a call that does not end at a word's border.
- *Sandbox.* `SandboxFaults` ties the counter to the number of whole writes of this run; a torn
  write has a prefix of its length, which `StepsOfNorFlash` needs, and rot touches
  only what a read returns.
- *Gate.* `GateListed`: without an error what has been listed are the names of the first changes,
  in their order, with an error's body it ends in that body. `GateSaid`: annotations are exactly
  those of the forbidden lines the loop has read.

Only model-checked:

- Liveness (`CallsReturn`, `ConsoleCallsReturn`, `GuardedHangIsReset`): fairness and ENABLED are out of
  the prover's reach.
- All of `crypto`. Its instances have their sizes as numbers, and several of its
  properties are about a number: that a certain modulus is prime, that bounds of
  limbs add up, that a chain of squarings has a certain exponent. For every size they are
  false or not defined. The other hashes have general properties; their proofs are
  planned. All these are kept apart from `MCParts` because what the prover must carry grows
  with every module that is in scope.

What a recursive definition computes cannot be proved with an induction theorem that takes
an operator. Where a proof needs it, the closed form is proved by `NumberLemmas!Induction`, which
takes a set. No module declares a RECURSIVE operator, recursion is written as recursive functions.

## 5. What is not modelled

- The compression functions of SHA-256, SHA-512, BLAKE2b and Argon2's inside a
  word, and the rounds of ChaCha20: bit-level functions of fixed size with test
  vectors; a model would repeat the code. What goes into them is modelled.
- The literals of `monocypher.c` (base point, comb and window tables, square roots)
  are numbers of 255 bits: the model computes their counterparts for its small
  curve from the definitions that the comments give.
- Argument checks that a `size_t` of 64 bits would need: a piece of 4 GiB in
  `sha256_update`, whose index has 32 bits (`sha256.c:104`), cannot be in the
  memory of the chip. The target of a delay passes 2^52 (`arch_timer.c:85`) only after 8.9 years
  of a counter that nothing resets; the timer's assumption keeps delays shorter than its period.
- The moment in `startup.c:125` between the write of `mtvec` and the clearing of
  MIE: an interrupt there enters the handler, which the model allows at that point as a trap.
- The fields of the sandbox's configuration other than those of the two faults:
  mocks of another repository read them. Its chip tables, `main` and startup hold no logic.
- The gate's limit of two minutes, the log and the text of annotations.
- OS hooks (`integrations/`) and the PQC stub: each function passes its arguments on or answers
  NOT_SUPPORTED.
- Headers, registry data, manifests, toolchains: not programs. `hardware.json` supplies the
  reset codes, sizes and addresses the models use.
- Contexts used before init or after final: the interfaces require init first;
  the model's callers obey. A buffer that a caller changes during a call.
- Timing and wiping of memory, except where a later call reads what was wiped;
  enabling of peripheral clocks, the text of register bits, log output.

## 6. Plan

Done, first stage: flash, watchdogs and boot flow, confirmation, SHA-256, console, timer,
and their first proofs, in this order because the boot loader's safety rests on it.
Done, second stage: the platform's small parts, the sandbox, the gate, and the crypto back end
from bytes to signatures; the refinement of `NorFlash` and the safety of `EspBoot` proved.
Done, third stage: proofs of the timer, of `CryptoVerify`, `ChachaStream`, `Aead`, `EspEfuse`,
`FaultInject` with its refinement of `NorFlash`, and `PrGate`.

Done, fourth stage: Poly1305, Argon2 and signatures with their sizes as constants, and their proofs.

Next:

1. Proofs for `Blake2b` and `Sha512` (`HashesMessage`), whose streaming contexts are of
   `Sha256`'s kind, with the word-wise fast path and the carries of the length.
2. `ScalarModL`: the bounds of its sums for every width of a word.
3. A composition of flash, confirmation and resets with a small write-ahead
   log client, to show that `NorFlash` is what such a client needs.
