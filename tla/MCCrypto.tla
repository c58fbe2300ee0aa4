------------------------------ MODULE MCCrypto -------------------------------
(* Most functions of monocypher.c that compute - hashes, arithmetic, points,     *)
(* key exchanges - each on a small instance.                                    *)
(* A behaviour runs one part, named by `part`: calls from any state, or a walk  *)
(* over the points of a curve.  The variables of a part that is an instance are *)
(* the first of v1, v2, ..., and the rest stay as they are.                     *)
EXTENDS EdwardsWalk, CurveCalls, KeyExchange, Ed25519Constants

VARIABLES part, v1, v2, v3, v4, v5

curveVars == <<walkVars, callVars, exchangeVars>>
CurveInit == WalkInit /\ CallsInit /\ ExchangeInit

\* A part of n variables leaves the others alone.
Unused(n) ==
    /\ part # "walk" => affine = <<0, 1>>
    /\ n < 1 => v1 = 0
    /\ n < 2 => v2 = 0
    /\ n < 3 => v3 = 0
    /\ n < 4 => v4 = 0
    /\ n < 5 => v5 = 0

RestUnchanged(n) ==
    /\ UNCHANGED part
    /\ part # "walk" => UNCHANGED walkVars
    /\ part # "calls" => UNCHANGED callVars
    /\ part # "exchange" => UNCHANGED exchangeVars
    /\ n < 1 => UNCHANGED v1
    /\ n < 2 => UNCHANGED v2
    /\ n < 3 => UNCHANGED v3
    /\ n < 4 => UNCHANGED v4
    /\ n < 5 => UNCHANGED v5

-----------------------------------------------------------------------------
(* BLAKE2b, SHA-512 with HMAC and HKDF: words of two bytes, blocks of four      *)
(* words, messages of up to two blocks and a half in pieces of lengths around   *)
(* those of a word and a block, so that every alignment meets every other.  An  *)
(* offset word of BLAKE2b and the low word of SHA-512's length overflow after   *)
(* two blocks.                                                                  *)

AroundBlocks == {0, 1, 2, 3, 5, 7, 8, 9, 16, 17}

Blake == INSTANCE Blake2b WITH
    Word <- 2, Words <- 4, OffsetRange <- 16, HashBytes <- 4, Base <- 16, SizeBytes <- 2,
    KeySizes <- {0, 1, 4}, HashSizes <- {1, 3, 4}, PieceSizes <- AroundBlocks, MaxBytes <- 26,
    LongSizes <- {1, 3, 4, 5, 6, 7, 9},
    context <- v1, key <- v2, msg <- v3, open <- v4

BlakeInit == part = "blake2b" /\ Blake!Init /\ Unused(4)
BlakeNext == part = "blake2b" /\ Blake!Next /\ RestUnchanged(4)

Sha2 == INSTANCE Sha512 WITH
    Word <- 2, Words <- 4, HashBytes <- 4, Base <- 4, ByteBits <- 1, IPad <- 1, OPad <- 2,
    KeySizes <- {0, 1, 7, 8, 9, 17}, PieceSizes <- AroundBlocks, MaxBytes <- 26,
    OkmSizes <- {0, 1, 4, 5, 9}, InfoSizes <- {0, 3},
    context <- v1, hmacKey <- v2, key <- v3, msg <- v4, mode <- v5

Sha2Init == part = "sha512" /\ Sha2!Init /\ Unused(5)
Sha2Next == part = "sha512" /\ Sha2!Next /\ RestUnchanged(5)

-----------------------------------------------------------------------------
(* Arithmetic modulo L: words of four bits, two per number, and L = 29, which   *)
(* like the order of the base point is 5 modulo 8, has N - 1 words and a bit,   *)
(* and 8 L is above half of the range; double words up to L W^N, and every      *)
(* fifth above.  And the constants of the code, in words of one byte.           *)

Words(v, n) == [i \in 1 .. n |-> (v \div 16 ^ (i - 1)) % 16]

SmallR == Words((256 * 256) \div 29, 3)
\* R * (1 / R) is 1 more than K * L.
SmallK == Words(CHOOSE k \in 0 .. 255 : (k * 29 + 1) % 256 = 0, 2)
DoubleWords == {Words(v, 4) : v \in 0 .. 8191 \cup {5 * n : n \in 0 .. 13107}}
SmallFactors == {Words(v, 2) : v \in {0, 1, 15, 16, 28, 29, 200, 240, 255}}
SmallKeys == {Words(v, 2) : v \in 0 .. 255}

Small == INSTANCE ScalarModL WITH
    Word <- 16, N <- 2, Bits <- 4, TopBit <- 4, L <- Words(29, 2), R <- SmallR, K <- SmallK,
    One <- Words(256 % 29, 2), Wide <- DoubleWords, Factors <- SmallFactors, Keys <- SmallKeys,
    call <- v1, ret <- v2

SmallInit == part = "scalar" /\ Small!Init /\ Unused(2)
SmallNext == part = "scalar" /\ Small!Next /\ RestUnchanged(2)

WidePatterns == {[i \in 1 .. 64 |-> IF i <= k THEN a ELSE (b * i) % 256] :
                    k \in {0, 31, 32, 60, 64}, a \in {0, 1, 255}, b \in {0, 7, 85, 255}}
FactorPatterns == {[i \in 1 .. 32 |-> (b + c * i) % 256] : b \in {0, 255}, c \in {0, 93}}

Full == INSTANCE ScalarModL WITH
    Word <- 256, N <- 32, Bits <- 8, TopBit <- 252, L <- OrderBytes, R <- BarrettBytes,
    K <- MontgomeryBytes, One <- OneBytes, Wide <- WidePatterns, Factors <- FactorPatterns,
    Keys <- {[i \in 1 .. 32 |-> (77 + 41 * i) % 256]},
    call <- v1, ret <- v2

FullInit == part = "scalar25519" /\ Full!Init /\ Unused(2)
FullNext == part = "scalar25519" /\ Full!Next /\ RestUnchanged(2)

-----------------------------------------------------------------------------
(* Arithmetic modulo p: limbs of two bits and one, of numbers modulo 2^15 - 19, *)
(* a prime: products, squares and sums in every order from operands at the ends *)
(* of their ranges.  And limbs and buffers of the code's size: buffers are      *)
(* patterns of bytes below 2^7 in the last byte of a load of four, where a limb *)
(* would not fit the integers of the checker; limbs are at the ends of their    *)
(* ranges and at 0.                                                             *)

SmallOperands ==
    {[i \in 0 .. 9 |-> 1], [i \in 0 .. 9 |-> IF i % 2 = 0 THEN 2 ELSE -1],
     [i \in 0 .. 9 |-> IF i = 9 THEN 1 ELSE 0], [i \in 0 .. 9 |-> IF i % 2 = 0 THEN -2 ELSE 1],
     [i \in 0 .. 9 |-> (i % 3) - 1]}

Limbs == INSTANCE Fe25519 WITH
    B <- 1, Operands <- SmallOperands, Smalls <- {3, 7}, Buffers <- {}, Tight <- {}, MaxSteps <- 2,
    f <- v1, value <- v2, source <- v3, left <- v4

FeInit == part = "fe" /\ Limbs!Init /\ Unused(4)
FeNext == part = "fe" /\ Limbs!Next /\ RestUnchanged(4)

\* Like a single bit of every byte in turn, and runs of bytes.
BufferPatterns ==
    {[j \in 0 .. 31 |-> IF j = k THEN 2 ^ n ELSE 0] : k \in (0 .. 31) \ {3, 19}, n \in {0, 3, 7}}
        \cup {[j \in 0 .. 31 |-> (a * j + b) % 100] : a \in {0, 7, 31}, b \in {1, 50, 99}}

End(i, e) == e * 2 ^ (IF i % 2 = 0 THEN 25 ELSE 24)
LimbPatterns ==
    {[i \in 0 .. 9 |-> IF i = 9 THEN End(9, top) ELSE IF i = k THEN End(i, end)
                       ELSE IF i < k THEN low ELSE 0] :
        top \in {-1, 0, 1}, k \in 0 .. 9, end \in {-1, 0, 1}, low \in {-1, 0, 1}}
        \cup {[i \in 0 .. 9 |-> IF i = 0 THEN n ELSE 0] : n \in {-20, -19, -18, -1, 1, 18, 19}}

Bytes25519 == INSTANCE Fe25519 WITH
    B <- 25, Operands <- {}, Smalls <- {}, Buffers <- BufferPatterns, Tight <- LimbPatterns,
    MaxSteps <- 0,
    f <- v1, value <- v2, source <- v3, left <- v4

BytesInit == part = "fe_bytes" /\ Bytes25519!Init /\ Unused(4)

-----------------------------------------------------------------------------
(* A curve of 8 * 4133 points: scalars of sixteen bits, with the order as close *)
(* above a power of two, and as 5 modulo 8, as that of the code.                *)

\* The base point, points of small order, and sums of both.
MCStarts == {AffineSum(AffineMultiple(n, AffineBase), AffineMultiple(k, AffineLop)) :
                n \in {0, 1}, k \in {0, 1, 2, 4}}
MCOperands == {AffineBase, AffineLop}
MCNumbers == 0 .. 40

MCScalars == 0 .. 20 \cup {k * 1021 : k \in 1 .. 64} \cup 4120 .. 4140 \cup 32760 .. 32775 \cup 65525 .. 65535
MCLogs == {0, 1, 2066, 4132}
MCTorsions == 0 .. 7
MCHashes == {0, 2048, 4131}
MCLifts == {0, 1, 4133}
MCStrings == 0 .. 20 \cup 16470 .. 16490 \cup 32750 .. 32767
MCKeys == 0 .. 60 \cup {BasePoint, 32746, 32956}

\* Every value of the low three bits, and blinds whose inverse needs the highest.
MCSecrets == {0, 4099, 12346, 33333, 65535}
MCBlinds == {16827, 19592}
MCKinds == {"clear", "small", "fast", "hidden", "signing"}

CurveParts == part \in {"walk", "calls", "exchange"} /\ Unused(0)
Walk == part = "walk" /\ WalkNext /\ RestUnchanged(0)
Calls == part = "calls" /\ CallsNext /\ RestUnchanged(0)
Exchange == part = "exchange" /\ ExchangeNext /\ RestUnchanged(0)

-----------------------------------------------------------------------------
(* All parts *)

CryptoInit ==
    /\ CurveInit
    /\ \/ BlakeInit \/ Sha2Init \/ SmallInit \/ FullInit
       \/ FeInit \/ BytesInit \/ CurveParts

CryptoNext ==
    \/ BlakeNext \/ Sha2Next \/ SmallNext \/ FullNext
    \/ FeNext \/ Walk \/ Calls \/ Exchange

cryptoVars == <<part, curveVars, v1, v2, v3, v4, v5>>
CryptoSpec == CryptoInit /\ [][CryptoNext]_cryptoVars

ASSUME Blake!Blake2Assumption
ASSUME Sha2!Sha512Assumption
ASSUME Small!ModLAssumption /\ Full!ModLAssumption
ASSUME Limbs!FeAssumption /\ Bytes25519!FeAssumption

-----------------------------------------------------------------------------
(* Properties *)

\* However a message is cut into pieces, hashes, HMACs and derived keys are those
\* of RFC 7693, RFC 9106, FIPS 180-4, RFC 2104 and RFC 5869 (monocypher.c:560-722,
\* monocypher-ed25519.c:212-386).
HashesAreStandard ==
    /\ part = "blake2b" => Blake!HashesMessage /\ Blake!ExtendedHashIsStandard
    /\ part = "sha512" =>
        Sha2!HashesMessage /\ Sha2!AuthenticatesMessage /\ Sha2!DerivesStandardKeys

\* Every reduction modulo L gives the remainder, every blind salt undoes its
\* key, and the constants have the values that this rests on
\* (monocypher.c:1590-1690 and 2746-2860).
ScalarsAreReduced ==
    /\ part = "scalar" => Small!ReducesModL /\ Small!InverseUndoesKey /\ Small!RedcDivides
    /\ part = "scalar25519" => Full!ConstantsFit /\ Full!ReductionsAgree

\* Limbs stand for the number they should be, each number has one encoding, and
\* the chain of a square root has the right exponent (monocypher.c:1109-1461).
LimbsHaveValue ==
    /\ part = "fe" => Limbs!LimbsHaveValue /\ Limbs!ExponentIsRight
    /\ part = "fe_bytes" => Bytes25519!EncodingIsCanonical /\ Bytes25519!BytesRoundTrip

\* Whatever is computed with points, coordinates and encodings are those of the
\* point, and no product is given more than its limbs hold
\* (monocypher.c:1203-1228, 1705-1859).
PointsAreRight == part = "walk" => CoordinatesArePoint /\ SumsFit /\ EncodingDecodes

\* Combs and windows give the multiple of every scalar, which converts to an
\* X25519 key and back, and the equation of a signature holds for the right s
\* only, whatever the order of the points (monocypher.c:1915-2210 and 2346-2374).
MultiplesAreRight ==
    part = "calls" => CombsMultiply /\ KeysConvert /\ DigitsAreScalar /\ EquationDecides

\* Hiding a key and mapping a string undo each other (monocypher.c:2627-2716).
HidingIsUndone == part = "calls" => StringsAreRepresentatives /\ HiddenMapsBack

\* Two parties derive one secret, whatever kind of key each publishes and
\* however it was made, and a blind is undone (monocypher.c:1491-1559 and
\* 2449-2859).
SecretsAgree == part = "exchange" => SharedSecretsAgree /\ DirtyKeysAgree /\ BlindIsUndone
=============================================================================
