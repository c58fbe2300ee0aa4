------------------------------- MODULE Sha512 --------------------------------
(***************************************************************************)
(* monocypher-ed25519.c: the streaming SHA-512, HMAC and HKDF.             *)
(*                                                                         *)
(* As in Blake2b, the chaining value is what was compressed, and the       *)
(* functions are operators on a context.  The compression expands the      *)
(* message schedule in place: the input it leaves behind is spoilt.  Word, *)
(* Words, ByteBits, IPad and OPad are 8, 16, 8, 0x36 and 0x5c in the code, *)
(* and Base ^ Word is 2^64.                                                *)
(***************************************************************************)
EXTENDS SymbolicBytes

CONSTANTS
    Word, Words,  \* bytes per word, words per block
    HashBytes,    \* bytes of a digest
    Base,         \* values of a byte
    ByteBits,     \* what a byte adds to the length
    IPad, OPad,   \* the masks of HMAC
    KeySizes,     \* HMAC keys, and "none" for plain hashing
    PieceSizes,   \* what callers pass to one update
    MaxBytes,     \* bound of the model on the length of a message
    OkmSizes, InfoSizes  \* what callers ask of HKDF

BlockBytes == Word * Words
WordRange == Base ^ Word
LengthAt == BlockBytes - 2 * Word  \* the index of the length, 112

Sha512Assumption ==
    /\ {Word, Words, HashBytes, Base, ByteBits} \subseteq Nat \ {0}
    /\ ByteBits * BlockBytes < WordRange /\ LengthAt > 0 /\ HashBytes <= BlockBytes
    /\ PieceSizes \subseteq Nat /\ MaxBytes \in Nat
    /\ \A n \in OkmSizes : n <= (Base - 1) * HashBytes  \* RFC 5869: L <= 255 HashLen

-----------------------------------------------------------------------------
(* SHA-512 *)

Blank512 == [hash |-> <<>>, size |-> <<0, 0>>, idx |-> 0, input |-> Blanks(BlockBytes)]

\* Adds to a number of two words, the high one first.
Incr(x, y) ==
    LET low == (x[2] + y) % WordRange
    IN  <<(x[1] + (IF low < y THEN 1 ELSE 0)) % WordRange, low>>

Compress(ctx) ==
    [ctx EXCEPT !.hash = Append(@, ctx.input),
                !.input = [j \in 1 .. BlockBytes |-> Spoilt]]

Zeroed(ctx, n) == [ctx EXCEPT !.input = CopyInto(@, 0, Blanks(n))]

\* A full block of a message.
FullBlock(ctx) ==
    Zeroed([Compress([ctx EXCEPT !.size = Incr(@, ByteBits * BlockBytes)])
                EXCEPT !.idx = 0], BlockBytes)

SetInput(ctx, byte) == [ctx EXCEPT !.input[ctx.idx + 1] = OrInto(@, byte)]

\* Bytes one by one: sha512_set_input and the index.
OrBytes(ctx, bytes) ==
    FoldLeft(LAMBDA c, b : [SetInput(c, b) EXCEPT !.idx = @ + 1], ctx, bytes)

StoreWords(ctx, at, bytes) ==
    [ctx EXCEPT !.idx = @ + Len(bytes), !.input = CopyInto(@, at, bytes)]

Align(i, n) == (n - (i % n)) % n
Least(a, b) == IF a <= b THEN a ELSE b
After(m, n) == SubSeq(m, n + 1, Len(m))

\* The steps of an update, each with the bytes it leaves: up to a word, whole
\* words up to a block, whole blocks, and the rest.
ToWord(s) ==
    LET n == Least(Align(s.ctx.idx, Word), Len(s.m))
    IN  [ctx |-> OrBytes(s.ctx, Slice(s.m, 0, n)), m |-> After(s.m, n)]

ToBlock(s) ==
    LET n == (Least(Align(s.ctx.idx, BlockBytes), Len(s.m)) \div Word) * Word
    IN  [ctx |-> StoreWords(s.ctx, (s.ctx.idx \div Word) * Word, Slice(s.m, 0, n)), m |-> After(s.m, n)]

WholeBlocks(s) ==
    LET n == Len(s.m) \div BlockBytes
        blocks[i \in 0 .. n] ==
            IF i = 0 THEN IF s.ctx.idx = BlockBytes THEN FullBlock(s.ctx) ELSE s.ctx
            ELSE FullBlock([blocks[i - 1] EXCEPT
                              !.input = Slice(s.m, (i - 1) * BlockBytes, BlockBytes)])
    IN  [ctx |-> blocks[n], m |-> After(s.m, n * BlockBytes)]

Rest(s) ==
    LET n == (Len(s.m) \div Word) * Word
    IN  OrBytes(StoreWords(s.ctx, 0, Slice(s.m, 0, n)), After(s.m, n))

Update(ctx, m) ==
    IF m = <<>> THEN ctx ELSE Rest(WholeBlocks(ToBlock(ToWord([ctx |-> ctx, m |-> m]))))

\* Does the length fit behind the padding bit?
LengthFits(ctx) == ~(ctx.idx > LengthAt - 1)

\* The size is stored as two words, the schedule's words 14 and 15.
Final(ctx) ==
    LET marked == SetInput(IF ctx.idx = 0 THEN Zeroed(ctx, BlockBytes) ELSE ctx,
                           Known(Base \div 2))
        size == Incr(ctx.size, ctx.idx * ByteBits)
        last == IF LengthFits(ctx) THEN marked ELSE Zeroed(Compress(marked), LengthAt)
        sized == CopyInto(last.input, LengthAt, BigEndianBytes(size[1], Word, Base)
                                                \o BigEndianBytes(size[2], Word, Base))
    IN  Digest(Compress([last EXCEPT !.input = sized]).hash, 0, HashBytes - 1)

Sha(m) == Final(Update(Blank512, m))

-----------------------------------------------------------------------------
(* HMAC and HKDF *)

HmacOf(inner) == [key |-> inner, ctx |-> Update(Blank512, inner)]

HmacInit(k) ==
    LET short == IF Len(k) > BlockBytes THEN Sha(k) ELSE k
        padded == CopyInto(Blanks(BlockBytes), 0, short)
    IN  HmacOf([j \in 1 .. BlockBytes |-> Xored(padded[j], IPad)])

HmacUpdate(h, m) == [h EXCEPT !.ctx = Update(@, m)]

OuterKey(h) == [j \in 1 .. BlockBytes |-> Xored(h.key[j], XorBits(IPad, OPad))]

HmacFinal(h) ==
    Final(Update(Update(Blank512, OuterKey(h)), Final(h.ctx)))

Hmac(k, m) == HmacFinal(HmacUpdate(HmacInit(k), m))

\* Is the block before put in front of block i?  not_first of the code.
Chained(i) == i > 1

\* The u8 counter is the number of the block; a last block is cut.
HkdfExpand(n, prk, info) ==
    LET count == (n + HashBytes - 1) \div HashBytes
        blk[i \in 0 .. count] ==
            IF i = 0 THEN <<>>
            ELSE LET h == HmacInit(prk)
                     chained == IF Chained(i) THEN HmacUpdate(h, blk[i - 1]) ELSE h
                 IN  HmacFinal(HmacUpdate(HmacUpdate(chained, info), <<Known(i % Base)>>))
    IN  Slice(FlattenSeq([i \in 1 .. count |-> blk[i]]), 0, n)

Hkdf(n, ikm, salt, info) == HkdfExpand(n, Hmac(salt, ikm), info)

-----------------------------------------------------------------------------
(* A caller that hashes, with a key or without, one message after another *)

VARIABLES
    context,  \* the hash context, of a plain hash or inside the HMAC context
    hmacKey,  \* the key of the HMAC context, masked
    key, msg, \* what the caller has passed
    mode      \* "raw" before init and after final, "hash", "hmac"

vars == <<context, hmacKey, key, msg, mode>>

Text(i, n) == [j \in 1 .. n |-> Known(1 + ((i + j) % (Base - 1)))]

Init ==
    /\ context = Blank512 /\ hmacKey = Blanks(BlockBytes)
    /\ key = <<>> /\ msg = <<>> /\ mode = "raw"

BeginHash ==
    /\ context' = Blank512 /\ msg' = <<>> /\ key' = <<>> /\ mode' = "hash"
    /\ UNCHANGED hmacKey

BeginHmac ==
    \E n \in KeySizes :
        /\ key' = Text(2, n) /\ msg' = <<>> /\ mode' = "hmac"
        /\ hmacKey' = HmacInit(key').key /\ context' = HmacInit(key').ctx

Extend ==
    /\ mode # "raw"
    /\ \E n \in PieceSizes :
        /\ Len(msg) + n <= MaxBytes
        /\ msg' = msg \o Text(Len(msg), n)
        /\ context' = Update(context, Text(Len(msg), n))
    /\ UNCHANGED <<hmacKey, key, mode>>

\* Final wipes the context.
Finish ==
    /\ mode # "raw"
    /\ context' = Blank512 /\ hmacKey' = Blanks(BlockBytes)
    /\ key' = <<>> /\ msg' = <<>> /\ mode' = "raw"

Next == BeginHash \/ BeginHmac \/ Extend \/ Finish
Spec == Init /\ [][Next]_vars

-----------------------------------------------------------------------------
(* Properties *)

\* FIPS 180-4 section 5.1.2: a one bit, the fewest zeros, the 128-bit length.
Padded(m) ==
    LET zeros == CHOOSE k \in 0 .. BlockBytes - 1 :
                    (Len(m) + 1 + k + 2 * Word) % BlockBytes = 0
    IN  m \o <<Known(Base \div 2)>> \o Blanks(zeros)
          \o BigEndianBytes(ByteBits * Len(m), 2 * Word, Base)

DigestOfBlocks(m) ==
    Digest([i \in 1 .. Len(m) \div BlockBytes |-> Slice(m, (i - 1) * BlockBytes, BlockBytes)],
           0, HashBytes - 1)

StandardSha(m) == DigestOfBlocks(Padded(m))

\* RFC 2104: H(K xor opad, H(K xor ipad, text)), K hashed if it is too long.
Masked(k, pad) == [j \in 1 .. BlockBytes |-> IF j <= Len(k) THEN Xored(k[j], pad) ELSE Known(pad)]

StandardHmac(k, m) ==
    LET k0 == IF Len(k) > BlockBytes THEN StandardSha(k) ELSE k
    IN  StandardSha(Masked(k0, OPad) \o StandardSha(Masked(k0, IPad) \o m))

\* RFC 5869: T(i) = HMAC(PRK, T(i - 1), info, i); the first n bytes of T(1) T(2) ...
StandardHkdf(n, ikm, salt, info) ==
    LET count == (n + HashBytes - 1) \div HashBytes
        T[i \in 0 .. count] ==
            IF i = 0 THEN <<>>
            ELSE StandardHmac(StandardHmac(salt, ikm), T[i - 1] \o info \o <<Known(i)>>)
    IN  SubSeq(FlattenSeq([i \in 1 .. count |-> T[i]]), 1, n)

\* However a message is cut into pieces, wherever its end falls in a block,
\* and with a length beyond one word, finishing now gives the hash of the
\* message padded as the standard says (monocypher-ed25519.c:212).
HashesMessage ==
    mode = "hash" => Final(context) = StandardSha(msg)

\* The same of HMAC, for keys shorter than a block, as long, and longer, which
\* are hashed and masked in place (monocypher-ed25519.c:315).
AuthenticatesMessage ==
    mode = "hmac" => HmacFinal([key |-> hmacKey, ctx |-> context]) = StandardHmac(key, msg)

\* HKDF gives the bytes asked for, in chained blocks with a counter, whatever
\* part of its last block is used (monocypher-ed25519.c:366).
DerivesStandardKeys ==
    (mode = "hmac" /\ Len(msg) <= 2) =>
        \A n \in OkmSizes, i \in InfoSizes :
            Hkdf(n, msg, key, Text(0, i)) = StandardHkdf(n, msg, key, Text(0, i))
=============================================================================
