------------------------------- MODULE Blake2b -------------------------------
(***************************************************************************)
(* BLAKE2b of monocypher.c: the streaming context, keyed hashing, and the  *)
(* hash of any length that Argon2 builds from it (extended_hash).          *)
(*                                                                         *)
(* The chaining value is the sequence of what was compressed into it: the  *)
(* block, the 128-bit offset in its two words, and the last-block flag.  A *)
(* context is a record; a function of the library is an operator on it, so *)
(* that functions which use the hash are built from the same operators.    *)
(* Word and Words are 8 and 16 in the code, and Range is 2^64.             *)
(***************************************************************************)
EXTENDS SymbolicBytes

CONSTANTS
    Word,       \* bytes per word
    Words,      \* words per block
    OffsetRange,    \* values of a word of the offset
    HashBytes,  \* size of the longest hash, 64: half a block
    Base,       \* values of a byte
    SizeBytes,  \* bytes of the length that extended_hash puts first, 4
    KeySizes, HashSizes,
    PieceSizes, \* what callers pass to one update
    MaxBytes,   \* bound of the model on the length of a message
    LongSizes   \* sizes asked of extended_hash

BlockBytes == Word * Words

Blake2Assumption ==
    /\ {Word, Words, OffsetRange, HashBytes, Base, SizeBytes} \subseteq Nat \ {0}
    /\ BlockBytes < OffsetRange /\ 2 * HashBytes = BlockBytes /\ HashBytes % 2 = 0
    /\ KeySizes \subseteq 0 .. HashBytes /\ HashSizes \subseteq 1 .. HashBytes
    /\ PieceSizes \subseteq Nat /\ MaxBytes \in Nat
    /\ \A n \in LongSizes : n \in 1 .. Base ^ SizeBytes - 1

-----------------------------------------------------------------------------
(* The functions on a context *)

\* Adds the bytes of the input to the offset and absorbs the input.
Compress(ctx, last) ==
    LET low == (ctx.offset[1] + ctx.idx) % OffsetRange
        offset == <<low, (ctx.offset[2] + (IF low < ctx.idx THEN 1 ELSE 0)) % OffsetRange>>
    IN  [ctx EXCEPT !.offset = offset,
            !.hash = Append(@, [block |-> ctx.input, offset |-> offset, last |-> last])]

KeyedInit(hashSize, key) ==
    [hash |-> << <<hashSize, Len(key)>> >>, offset |-> <<0, 0>>, size |-> hashSize,
     idx |-> IF key = <<>> THEN 0 ELSE BlockBytes,
     input |-> CopyInto(Blanks(BlockBytes), 0, key)]

\* The bytes of a piece that fill the current word, one `|=` per byte.
OrBytes(ctx, bytes) ==
    [ctx EXCEPT !.idx = @ + Len(bytes),
        !.input = [j \in DOMAIN @ |->
            IF j \in ctx.idx + 1 .. ctx.idx + Len(bytes)
            THEN OrInto(@[j], bytes[j - ctx.idx]) ELSE @[j]]]

\* Whole words, stored at the word the index is in.
StoreWords(ctx, bytes) ==
    [ctx EXCEPT !.idx = @ + Len(bytes),
                !.input = CopyInto(@, (ctx.idx \div Word) * Word, bytes)]

FullBlock(ctx, block) ==
    [(IF ctx.idx = BlockBytes THEN Compress(ctx, FALSE) ELSE ctx)
        EXCEPT !.input = block, !.idx = BlockBytes]

\* Fault: what an earlier block left in the input is not cleared.
FlushKeepsInput(ctx) ==
    IF ctx.idx = BlockBytes THEN [Compress(ctx, FALSE) EXCEPT !.idx = 0] ELSE ctx

\* Before the rest of a message: a full block goes out, an empty one is zeroed.
Flush(ctx) ==
    LET flushed == IF ctx.idx = BlockBytes
                   THEN [Compress(ctx, FALSE) EXCEPT !.idx = 0] ELSE ctx
    IN  IF flushed.idx = 0 THEN [flushed EXCEPT !.input = Blanks(BlockBytes)]
        ELSE flushed

\* Less than a block: its whole words go to the start of the input, which is
\* where the index is unless there is no whole word left.
Rest(ctx, m) ==
    LET n == (Len(m) \div Word) * Word
    IN  OrBytes([ctx EXCEPT !.idx = @ + n, !.input = CopyInto(@, 0, Slice(m, 0, n))],
                Slice(m, n, Len(m) - n))

\* Bytes from i to the next multiple of n: gap().
Gap(i, n) == (n - (i % n)) % n
Least(a, b) == IF a <= b THEN a ELSE b

Update(ctx, m) ==
    IF m = <<>> THEN ctx
    ELSE LET w == Least(Gap(ctx.idx, Word), Len(m))
             toWord == OrBytes(ctx, Slice(m, 0, w))
             m1 == Slice(m, w, Len(m) - w)
             b == (Least(Gap(toWord.idx, BlockBytes), Len(m1)) \div Word) * Word
             toBlock == StoreWords(toWord, Slice(m1, 0, b))
             m2 == Slice(m1, b, Len(m1) - b)
             n == Len(m2) \div BlockBytes
             blocks[i \in 0 .. n] ==
                IF i = 0 THEN toBlock
                ELSE FullBlock(blocks[i - 1], Slice(m2, (i - 1) * BlockBytes, BlockBytes))
             m3 == Slice(m2, n * BlockBytes, Len(m2) - n * BlockBytes)
         IN  IF m3 = <<>> THEN blocks[n] ELSE Rest(Flush(blocks[n]), m3)

\* The digest, cut to the size asked for; the context is wiped.
Final(ctx) ==
    Digest(Compress(ctx, TRUE).hash, 0, Least(ctx.size, HashBytes) - 1)

Hash(size, m) == Final(Update(KeyedInit(size, <<>>), m))

\* The links of an extended hash of which only the first half is kept.
FullLinks(size) ==
    LET half == HashBytes \div 2 IN (size + half - 1) \div half - 2

\* extended_hash: links of HashBytes bytes that overlap by half, each computed
\* from the one before, in place.
ExtendedHash(size, m) ==
    LET first == Final(Update(Update(KeyedInit(Least(size, HashBytes), <<>>),
                                     LittleEndian(size, SizeBytes, Base)), m))
        half == HashBytes \div 2
        r == FullLinks(size)
        link(out, n) == Hash(n, Slice(out, Len(out) - HashBytes, HashBytes))
        extended[i \in 1 .. r] ==  \* the digest so far; a link overwrites half of the last
            IF i = 1 THEN first
            ELSE LET out == extended[i - 1]
                 IN  SubSeq(out, 1, Len(out) - half) \o link(out, HashBytes)
        out == extended[r]
    IN  IF size <= HashBytes THEN first
        ELSE SubSeq(out, 1, Len(out) - half) \o link(out, size - half * r)

-----------------------------------------------------------------------------
(* A caller that hashes one message after another *)

VARIABLES
    context,
    key,     \* what it was initialised with,
    msg,     \* and what it has been given since
    open     \* initialised, and not finished since?

vars == <<context, key, msg, open>>

\* A caller's bytes: no two of one block are alike, none is zero.
Text(i, n) == [j \in 1 .. n |-> Known(1 + ((i + j) % (Base - 1)))]

Wiped == [hash |-> <<>>, offset |-> <<0, 0>>, size |-> 0, idx |-> 0,
          input |-> Blanks(BlockBytes)]

Init == context = Wiped /\ key = <<>> /\ msg = <<>> /\ open = FALSE

Begin ==
    \E n \in KeySizes, size \in HashSizes :
        /\ key' = Text(7, n)
        /\ context' = KeyedInit(size, key')
        /\ msg' = <<>> /\ open' = TRUE

Extend ==
    /\ open
    /\ \E n \in PieceSizes :
        /\ Len(msg) + n <= MaxBytes
        /\ msg' = msg \o Text(Len(msg), n)
        /\ context' = Update(context, Text(Len(msg), n))
    /\ UNCHANGED <<key, open>>

Finish ==
    /\ open
    /\ context' = Wiped /\ key' = <<>> /\ msg' = <<>> /\ open' = FALSE

Next == Begin \/ Extend \/ Finish
Spec == Init /\ [][Next]_vars

-----------------------------------------------------------------------------
(* Properties *)

\* Sequences of blocks as RFC 7693 section 3.3 defines them: the key padded to
\* a block, the message padded to whole blocks, an empty block if both are
\* empty; every block with the number of bytes up to its end, the last flagged.
Standard(size, k, m) ==
    LET data == (IF k = <<>> THEN <<>> ELSE k \o Blanks(BlockBytes - Len(k))) \o m
        count == IF data = <<>> THEN 1 ELSE (Len(data) + BlockBytes - 1) \div BlockBytes
        bytes(i) == Least(i * BlockBytes, Len(data))
    IN  << <<size, Len(k)>> >> \o
        [i \in 1 .. count |->
            [block |-> CopyInto(Blanks(BlockBytes), 0,
                                SubSeq(data, (i - 1) * BlockBytes + 1, bytes(i))),
             offset |-> <<bytes(i) % OffsetRange, bytes(i) \div OffsetRange>>,
             last |-> i = count]]

\* However a message is cut into pieces, and whatever its length, finishing
\* now gives the hash of the key and the message so far (monocypher.c:560).
HashesMessage ==
    open => Final(context) = Digest(Standard(context.size, key, msg), 0, context.size - 1)

\* H' of RFC 9106 section 3.3, by the halves of its V_i.
StandardLong(size, m) ==
    LET H(n, x) == Digest(Standard(n, <<>>, x), 0, n - 1)
        half == HashBytes \div 2
        r == (size + half - 1) \div half - 2
        prefixed == LittleEndian(size, SizeBytes, Base) \o m
        V[i \in 1 .. r] == H(HashBytes, IF i = 1 THEN prefixed ELSE V[i - 1])
    IN  IF size <= HashBytes THEN H(size, prefixed)
        ELSE FlattenSeq([i \in 1 .. r |-> SubSeq(V[i], 1, half)])
             \o H(size - half * r, V[r])

\* The in-place links of extended_hash give the hash of the size asked for,
\* at sizes around the multiples of half a hash too (monocypher.c:689).
ExtendedHashIsStandard ==
    (open /\ key = <<>> /\ Len(msg) <= BlockBytes + 1) =>
        \A n \in LongSizes : ExtendedHash(n, msg) = StandardLong(n, msg)
=============================================================================
