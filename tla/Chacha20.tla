------------------------------ MODULE Chacha20 -------------------------------
(***************************************************************************)
(* The ChaCha20 functions of monocypher.c as operators.  The rounds are    *)
(* represented by their input: a byte of key stream is named by the key,   *)
(* the nonce, the counter and its place in the block, and two bytes are    *)
(* the same exactly when their names are.  A byte of text is a pair: the   *)
(* plain byte and the key stream bytes exclusive-ored into it.             *)
(***************************************************************************)
EXTENDS Integers, Sequences

CONSTANTS
    BlockBytes,  \* bytes per block, 64
    CtrRange     \* values of a 32-bit word of the counter

ChachaAssumption == BlockBytes \in Nat \ {0} /\ CtrRange \in Nat \ {0}

Plain(v) == <<v, {}>>

\* What a buffer without a plain text stands for: zeros.
NoText(n) == [j \in 1 .. n |-> Plain(0)]

\* A counter is a u64 of two words.
CtrLow(ctr) == ctr % CtrRange
CtrHigh(ctr) == (ctr \div CtrRange) % CtrRange
Ctr(low, high) == low + CtrRange * high

\* One key stream byte of a block: rounds of constant, key, counter and nonce.
KeyStream(key, nonce, low, high, i) == <<key, nonce, low, high, i>>

\* HChaCha20: half of the rounds' output, as the key of another cipher.  One
\* byte, named by the key and the nonce, stands for all of it.
HKey(key, nonce) == << <<0, {<<key, nonce>>}>> >>

\* input[12]++, and input[13]++ when it is zero.
NextBlock(low, high) ==
    LET next == (low + 1) % CtrRange
    IN  <<next, IF next = 0 THEN (high + 1) % CtrRange ELSE high>>

\* The counters of the blocks that a text of n bytes takes, and of the next.
Counters(ctr, n) ==
    LET at[b \in 0 .. n \div BlockBytes] ==
            IF b = 0 THEN <<CtrLow(ctr), CtrHigh(ctr)>>
            ELSE NextBlock(at[b - 1][1], at[b - 1][2])
    IN  at

\* crypto_chacha20_djb: whole blocks, then the incomplete one.
Djb(text, key, nonce, ctr) ==
    LET at == Counters(ctr, Len(text))
        stream(j) == LET b == at[(j - 1) \div BlockBytes]
                     IN  KeyStream(key, nonce, b[1], b[2], (j - 1) % BlockBytes)
    IN  [j \in 1 .. Len(text) |->
            LET k == stream(j)
            IN  <<text[j][1], (text[j][2] \ {k}) \cup ({k} \ text[j][2])>>]

\* Fault: an incomplete last block is not counted.
DjbNextWholeBlocks(n, ctr) ==
    LET last == Counters(ctr, n)[n \div BlockBytes] IN Ctr(last[1], last[2])

\* The counter that crypto_chacha20_djb returns.
DjbNext(n, ctr) ==
    LET last == Counters(ctr, n)[n \div BlockBytes]
    IN  (Ctr(last[1], last[2]) + (IF n % BlockBytes > 0 THEN 1 ELSE 0))
            % (CtrRange * CtrRange)

\* The first word of an IETF nonce is the high word of the counter.
IetfCtr(nonce, ctr) == Ctr(ctr, nonce[1])

Ietf(text, key, nonce, ctr) == Djb(text, key, nonce[2], IetfCtr(nonce, ctr))
IetfNext(n, nonce, ctr) == DjbNext(n, IetfCtr(nonce, ctr)) % CtrRange

X(text, key, nonce, ctr) == Djb(text, HKey(key, nonce[1]), nonce[2], ctr)
=============================================================================
