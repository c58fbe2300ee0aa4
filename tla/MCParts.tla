------------------------------- MODULE MCParts -------------------------------
(* The parts that stand alone - none of them calls another part's state - each *)
(* on its own small instance.  A behaviour runs one part, named by `part`; its *)
(* variables are the first of v1, v2, ..., and the rest stay as they are.      *)
EXTENDS Sha256, FiniteSets

CONSTANT Parts  \* the parts to run

\* Those of the instances.
CONSTANTS
    LoLimit, HiLimit, MsLimit, TicksPerMs, Guard, Delays,             \* SysTimer
    BlockBytes, CtrRange,                                             \* ChachaStream, Aead
    Variants, StreamNonces, FirstCtrs, PieceSizes, MaxBlocks,
    MacBlock, Ads, Texts, MaxMessages,
    BootOk, MaxGlitches,                                              \* CryptoVerify
    WordSize, KeyLen, MockDslcLen, BufferLens, MaxCalls,              \* EspEfuse
    TotalSize, SectorSize, FlashByte, Erased, NoAddr, Limits,         \* FaultInject
    RotAddrs, RotValues, RequestLens, MaxRuns,
    Paths, Moves, Errors, PageLen, MaxChanges,                        \* PrGate
    LimbBits, ClampTop, MacKeys, MacPieces, MaxUnits,                 \* Poly1305
    BlockRange, IndexWords, ArgonCalls,                               \* Argon2
    Callers                                                           \* Eddsa

VARIABLES part, v1, v2, v3, v4, v5, v6, v7, v8, v9, v10, v11, v12, v13

\* A part of n variables leaves the others alone.
Unused(n) ==
    /\ n < 1 => v1 = 0
    /\ n < 2 => v2 = 0
    /\ n < 3 => v3 = 0
    /\ n < 4 => v4 = 0
    /\ n < 5 => v5 = 0
    /\ n < 6 => v6 = 0
    /\ n < 7 => v7 = 0
    /\ n < 8 => v8 = 0
    /\ n < 9 => v9 = 0
    /\ n < 10 => v10 = 0
    /\ n < 11 => v11 = 0
    /\ n < 12 => v12 = 0
    /\ n < 13 => v13 = 0

RestUnchanged(n) ==
    /\ UNCHANGED part
    /\ part # "sha256" => UNCHANGED vars
    /\ n < 1 => UNCHANGED v1
    /\ n < 2 => UNCHANGED v2
    /\ n < 3 => UNCHANGED v3
    /\ n < 4 => UNCHANGED v4
    /\ n < 5 => UNCHANGED v5
    /\ n < 6 => UNCHANGED v6
    /\ n < 7 => UNCHANGED v7
    /\ n < 8 => UNCHANGED v8
    /\ n < 9 => UNCHANGED v9
    /\ n < 10 => UNCHANGED v10
    /\ n < 11 => UNCHANGED v11
    /\ n < 12 => UNCHANGED v12
    /\ n < 13 => UNCHANGED v13

-----------------------------------------------------------------------------
(* SHA-256: blocks of four bytes, two of them for the length: the padding takes *)
(* one block more from two bytes of data on, and a message takes up to two      *)
(* blocks.  The bytes are the two that padding uses.                            *)

MCBytes == {0, 8}
MCPieces == {<<>>, <<0>>, <<8>>, <<8, 0>>, <<0, 8, 8, 0>>}

ShaInit == part = "sha256" /\ Unused(0)
ShaNext == part = "sha256" /\ Next /\ RestUnchanged(0)

-----------------------------------------------------------------------------
(* The system timer: a counter of two halves and two ticks to the ms.  2 ms are *)
(* more ticks than the low half counts.                                         *)

Timer == INSTANCE SysTimer WITH
    count <- v1, latching <- v2, snapshot <- v3, fn <- v4, pc <- v5, polls <- v6, lo <- v7,
    target <- v8, ms <- v9, wait <- v10, since <- v11, reading <- v12, late <- v13

TimerInit == part = "timer" /\ Timer!Init
TimerNext == part = "timer" /\ Timer!Next /\ RestUnchanged(13)

-----------------------------------------------------------------------------
(* ChaCha20: blocks of two bytes and counter words of four values: a text of   *)
(* four blocks carries from the low word into the high one, where the IETF      *)
(* nonce begins.  Sessions of three messages of no block of text, one and two.  *)

MCNonces == {<<0, "n">>, <<1, "n">>}

Chacha == INSTANCE ChachaStream WITH
    Nonces <- StreamNonces,
    variant <- v1, first <- v2, ctr <- v3, plain <- v4, ends <- v5, cipher <- v6, spent <- v7

ChachaInit == part = "chacha" /\ Chacha!Init /\ Unused(7)
ChachaNext == part = "chacha" /\ Chacha!Next /\ RestUnchanged(7)

Session == INSTANCE Aead WITH
    writer <- v1, reader <- v2, sent <- v3, got <- v4, net <- v5, lost <- v6, used <- v7

SessionInit == part = "aead" /\ Session!Init /\ Unused(7)
SessionNext == part = "aead" /\ Session!Next /\ RestUnchanged(7)

-----------------------------------------------------------------------------
Hal == INSTANCE CryptoVerify WITH
    pc <- v1, args <- v2, s1 <- v3, s2 <- v4, glitches <- v5, ret <- v6

HalInit == part = "verify" /\ Hal!Init /\ Unused(6)
HalNext == part = "verify" /\ Hal!Next /\ RestUnchanged(6)

-----------------------------------------------------------------------------
(* eFuses and the RNG: three calls with buffers around the length of a register *)
(* and of what is stored, in both builds.                                       *)

Efuse == INSTANCE EspEfuse WITH
    Lens <- BufferLens,
    build <- v1, fuses <- v2, rng <- v3, call <- v4, drawn <- v5, calls <- v6

EfuseInit == part = "efuse" /\ Efuse!Init /\ Unused(6)
EfuseNext == part = "efuse" /\ Efuse!Next /\ RestUnchanged(6)

-----------------------------------------------------------------------------
(* The sandbox: a flash of five bytes and two runs of the process, with a loss  *)
(* at the second write, or never, and rot of one byte.                          *)

Sandbox == INSTANCE FaultInject WITH
    Byte <- FlashByte, Lens <- RequestLens,
    file <- v1, env <- v2, config <- v3, req <- v4, ret <- v5, whole <- v6, runs <- v7

SandboxInit == part = "sandbox" /\ Sandbox!Init /\ Unused(7)
SandboxNext == part = "sandbox" /\ Sandbox!Next /\ RestUnchanged(7)

-----------------------------------------------------------------------------
(* The pull request gate: paths of every class and a file with the name of a    *)
(* directory, a file moved into a directory and one moved out, in pages of two. *)

MCPaths ==
    {<<"chips", "a">>, <<"chips">>, <<"registry.json">>, <<".github", "w">>,
     <<"docs", "chips", "a">>, <<"soc", "registry.json">>}

MCMoves ==
    {<<<<"registry.json">>, <<"chips", "a">>>>, <<<<"chips", "a">>, <<"docs", "chips", "a">>>>}

Gate == INSTANCE PrGate WITH
    changes <- v1, pc <- v2, fetched <- v3, failed <- v4, files <- v5, at <- v6,
    forbidden <- v7, errors <- v8, exit <- v9

GateInit == part = "gate" /\ Gate!Init /\ Unused(9)
GateNext == part = "gate" /\ Gate!Next /\ RestUnchanged(9)

-----------------------------------------------------------------------------
(* Poly1305: limbs of seven bits keep the modulus, 2^30 - 5, within the         *)
(* integers of the checker, and r its clamped form.  With r = 1 the units 123   *)
(* to 127 bring the sum to both sides of the modulus; the other keys are the    *)
(* largest and a mixed one.  Pieces of every length meet every alignment.       *)

MCMacKeys == { <<1, 0, 0, 0, 0, 0, 0, 0>>, <<1, 0, 0, 0, 127, 127, 127, 127>>,
               <<127, 127, 127, 127, 9, 8, 7, 6>>, <<6, 64, 4, 127, 127, 0, 1, 0>> }
MCMacPieces == { <<>>, <<123>>, <<127>>, <<127, 127, 127>>, <<5, 0, 127, 1>>,
                 <<127, 127, 127, 127>>, <<127, 127, 127, 127, 2>> }

Poly == INSTANCE Poly1305 WITH
    W <- LimbBits, Keys <- MacKeys, Pieces <- MacPieces,
    ctx <- v1, key <- v2, msg <- v3

PolyInit == part = "poly1305" /\ Poly!Init /\ Unused(3)
PolyNext == part = "poly1305" /\ Poly!Next /\ RestUnchanged(3)

-----------------------------------------------------------------------------
(* Argon2: Argon2id with two lanes, segments of three blocks and a work area    *)
(* that is not a multiple of them, two passes, and two addresses per index      *)
(* block; for the end and the inputs, three lanes and one pass of Argon2d.      *)

Of(k, n) == IF k = n THEN <<1>> ELSE <<>>

\* One byte, in none or one of the four strings.
OneByte(n) == [pass |-> Of(1, n), salt |-> Of(2, n), key |-> Of(3, n), ad |-> Of(4, n)]

MCArgonCalls ==
    {[config |-> [algorithm |-> 2, nb_blocks |-> 25, nb_passes |-> 2, nb_lanes |-> 2],
      inputs |-> OneByte(0)]}
        \cup {[config |-> [algorithm |-> 0, nb_blocks |-> 24, nb_passes |-> 1, nb_lanes |-> 3],
                inputs |-> OneByte(n)] : n \in 1 .. 4}

Argon == INSTANCE Argon2 WITH
    U32 <- BlockRange, Calls <- ArgonCalls,
    call <- v1, pass <- v2, slice <- v3, next <- v4, counter <- v5, indexBlock <- v6,
    filled <- v7, last <- v8, addresses <- v9, result <- v10

ArgonInit == part = "argon2" /\ Argon!Init /\ Unused(10)
ArgonNext == part = "argon2" /\ Argon!Next /\ RestUnchanged(10)

-----------------------------------------------------------------------------
(* Signatures: seven cells, a pair and a signature with their buffers at every  *)
(* place; and two seeds, two messages and three schemes, with buffers apart.    *)

MCCallers ==
    {[cells |-> 7, seeds |-> {"s1"}, messages |-> {"m1"}, schemes |-> {"blake2b", "ed25519"},
      keyPlaces |-> {0, 3} \X (0 .. 5) \X (0 .. 5),
      signPlaces |-> (0 .. 3) \X {0, 3} \X {0, 2, 5, 6}, maxCalls |-> 2],
     [cells |-> 12, seeds |-> {"s1", "s2"}, messages |-> {"m1", "m2"},
      schemes |-> {"blake2b", "ed25519", "ed25519ph"},
      keyPlaces |-> {<<0, 5, 5>>}, signPlaces |-> {<<8, 0, 4>>}, maxCalls |-> 5]}

Sig == INSTANCE Eddsa WITH
    caller <- v1, mem <- v2, pair <- v3, signed <- v4, last <- v5, calls <- v6

SigInit == part = "eddsa" /\ Sig!Init /\ Unused(6)
SigNext == part = "eddsa" /\ Sig!Next /\ RestUnchanged(6)

-----------------------------------------------------------------------------
(* All parts *)

PartsInit ==
    /\ part \in Parts /\ Init
    /\ \/ ShaInit \/ TimerInit \/ ChachaInit \/ SessionInit \/ HalInit \/ EfuseInit
       \/ SandboxInit \/ GateInit \/ PolyInit \/ ArgonInit \/ SigInit

PartsNext ==
    \/ ShaNext \/ TimerNext \/ ChachaNext \/ SessionNext \/ HalNext \/ EfuseNext
    \/ SandboxNext \/ GateNext \/ PolyNext \/ ArgonNext \/ SigNext

partsVars == <<part, vars, v1, v2, v3, v4, v5, v6, v7, v8, v9, v10, v11, v12, v13>>
PartsSpec == PartsInit /\ [][PartsNext]_partsVars

ASSUME TimerOk == Timer!TimerAssumption
ASSUME ChachaOk == Chacha!StreamAssumption
ASSUME SessionOk == Session!AeadAssumption
ASSUME VerifyOk == Hal!VerifyAssumption
ASSUME EfuseOk == Efuse!EfuseAssumption
ASSUME SandboxOk == Sandbox!FaultAssumption
ASSUME GateOk == Gate!GateAssumption
ASSUME PolyOk == Poly!PolyAssumption
ASSUME ArgonOk == Argon!Argon2Assumption
ASSUME SigOk == Sig!EddsaAssumption

-----------------------------------------------------------------------------
(* Properties *)

\* Readings of the timer whose snapshot came before the wait for it gave up are
\* whole and fresh (arch_timer.c:44-45, 57-66).
TimerReadingIsFresh == part = "timer" => Timer!TypeOK /\ Timer!ReadingIsFresh

\* With such readings arch_riscv_delay_ms waits as long as it is asked to, across
\* every wrap of the counter (arch_timer.c:81-88).
TimerDelayIsLongEnough ==
    [][part = "timer" => Timer!DelayIsLongEnough]_partsVars

\* No byte of key stream serves twice, and whole blocks make up the text that
\* one call would encrypt (monocypher.c:220-286).
KeyStreamUsedOnce == part = "chacha" => Chacha!KeyStreamUsedOnce /\ Chacha!PiecesAreOneText

\* Whatever the transport loses, repeats, reorders and damages, a session's
\* reader gets a prefix of what was written and can go on, and no byte of key
\* stream serves twice (monocypher.c:2896-2937).
SessionStaysInStep ==
    part = "aead" =>
        Session!ReadIsPrefixOfWritten /\ Session!ReaderCanGoOn /\ Session!SessionKeyStreamUsedOnce

\* The verdict of the crypto HAL is that of the check, and one comparison gone
\* wrong does not make a bad signature good (crypto_monocypher.c:55-79).
OneGlitchRejects == part = "verify" => Hal!VerdictIsCheck /\ Hal!OneGlitchRejects

\* No random byte is given twice, in one buffer or in two, and a buffer holds
\* exactly the bytes that its caller is told of (chip_platform.c:126-179,
\* mock_efuse.c:44-67).
HalIsTruthful == part = "efuse" => Efuse!EntropyUsedOnce /\ Efuse!FilledAsTold

\* The sandbox loses power at the write it is asked to, in every run, and rots
\* the one byte it is asked to (chip_fault_inject.c:24-48 and 101-124).
FaultsAreAsAsked == part = "sandbox" => Sandbox!LossAtLimit /\ Sandbox!RotIsOneByte

\* Without rot, its flash is one that a caller of the real driver must reckon
\* with (chip_fault_inject.c:104-110).
SandboxImplementsNorFlash ==
    (part = "sandbox" => Sandbox!Nor!Init) /\ [][part = "sandbox" => Sandbox!StepsOfNorFlash]_partsVars

\* With a list that was fetched to its end and no file moved in from outside, the
\* gate fails exactly for a pull request with a path outside; an error's body
\* fails (pr-gate.yml:50-94).
GateJudgesPaths == part = "gate" => Gate!VerdictIsOfPaths /\ Gate!ErrorBodyFails

\* However a message is cut into pieces and however close a sum is to the
\* modulus, the authenticator is that of RFC 8439, no sum leaves its word, and a
\* difference in any bit is seen (monocypher.c:145-160 and 304-441).
TagsAreStandard ==
    part = "poly1305" => Poly!AuthenticatesMessage /\ Poly!PartlyReduced /\ Poly!VerifySeesEveryBit

\* No reference leads outside what is filled and settled, in whatever order the
\* lanes of a slice run (the code takes them one after another), no address serves
\* twice, the inputs are kept apart, and the hash is over the mixed blocks of
\* every lane (monocypher.c:730-907).
LanesMakeOneHash ==
    part = "argon2" =>
        /\ Argon!LanesAreIndependent /\ Argon!AddressesUsedOnce /\ Argon!HashTakesEveryLane
        /\ Argon!InputsAreSeparated /\ Argon!WordsAreMixed

\* Whatever their seed overlaps, key pairs whose keys are apart are of it; a pair
\* is written in the order seed, secret key, public key, unless the public key
\* starts inside the second half of the secret key; and whatever the buffers of
\* a call overlap, signatures verify, under their own scheme, key and message
\* only, and no nonce is taken for two (monocypher.c:2220-2341,
\* monocypher-ed25519.c:414-495).
SignaturesVerify ==
    part = "eddsa" =>
        /\ Sig!PairIsOfSeed /\ Sig!WritesInOrderElsewhere
        /\ Sig!SignatureVerifies /\ Sig!NonceUsedOnce

\* What monocypher.c:2222-2225 says of every overlap, and line 2233 does not keep.
WritesAsDocumented == part = "eddsa" => Sig!WritesInOrder
=============================================================================
