------------------------------- MODULE Sha256 --------------------------------
(***************************************************************************)
(* The hash of the crypto HAL: crypto_monocypher_hash_* of                 *)
(* crypto_monocypher.c over the streaming SHA-256 of sha256.c, which is    *)
(* kept twice, byte for byte the same, in backend/monocypher and in        *)
(* hash/sha256_sw.                                                         *)
(*                                                                         *)
(* The chaining value is modelled by what has gone into it: compressing a  *)
(* block appends the block to `absorbed`, so that two chaining values are  *)
(* equal exactly when they come from the same blocks.  Block, LenBytes and *)
(* Base are 64, 8 and 256 in the code.  The loop of sha256_update is one   *)
(* step per byte.                                                          *)
(***************************************************************************)
EXTENDS Integers, Sequences

CONSTANTS
    Block, LenBytes, Base,
    Bytes,     \* the bytes that occur in messages
    Pieces,    \* what callers pass to one hash_update
    MaxBytes   \* bound of the model on the length of a message

ASSUME HashAssumption ==
    /\ Block \in Nat \ {0} /\ LenBytes \in 1 .. Block - 1
    /\ Base \in Nat /\ Base >= 2
    /\ Bytes \subseteq 0 .. Base - 1
    /\ MaxBytes \in Nat /\ 8 * MaxBytes < Base ^ LenBytes
    /\ \A p \in Pieces : p \in Seq(Bytes)

\* What the proofs need of the powers of Base.
ASSUME PowerAssumption == \A k \in 0 .. LenBytes : Base ^ k \in Nat \ {0}

VARIABLES
    absorbed,  \* ctx->state: the blocks compressed since sha256_init
    data,      \* ctx->data
    datalen,   \* ctx->datalen
    bitlen,    \* ctx->bitlen
    todo,      \* what the running hash_update has still to take
    at,        \* "raw" before init and after finish, "open", "update"
    answer,    \* the status of the last call
    digest     \* the last digest, as the blocks it stands for

ctx == <<absorbed, data, datalen, bitlen>>
vars == <<ctx, todo, at, answer, digest>>

Zeros(n) == [j \in 1 .. n |-> 0]
Marker == Base \div 2  \* 0x80
Word == Base ^ LenBytes  \* bitlen is a uint64_t

Compress(block) == absorbed' = absorbed \o block

Init ==
    /\ absorbed = <<>> /\ datalen = 0 /\ bitlen = 0 /\ data = Zeros(Block)
    /\ todo = <<>> /\ at = "raw" /\ answer = "none" /\ digest = <<>>

\* A missing context, buffer or length, or too small a one: nothing happens.
Refuse ==
    /\ at # "update"
    /\ answer' = "INVALID_ARG"
    /\ UNCHANGED <<ctx, todo, at, digest>>

\* sha256_init leaves data as it is.
HashInit ==
    /\ at # "update"
    /\ absorbed' = <<>> /\ datalen' = 0 /\ bitlen' = 0
    /\ at' = "open" /\ answer' = "OK"
    /\ UNCHANGED <<data, todo, digest>>

HashUpdate ==
    /\ at = "open"
    /\ \E p \in Pieces :
        /\ Len(absorbed) + datalen + Len(p) <= MaxBytes
        /\ todo' = p
    /\ at' = "update" /\ answer' = "pending"
    /\ UNCHANGED <<ctx, digest>>

\* One turn of the loop of sha256_update, or its end.
TakeByte ==
    /\ at = "update" /\ todo # <<>>
    /\ todo' = Tail(todo)
    /\ data' = [data EXCEPT ![datalen + 1] = Head(todo)]
    /\ \/ /\ datalen + 1 = Block
          /\ Compress(data')
          /\ bitlen' = (bitlen + 8 * Block) % Word
          /\ datalen' = 0
       \/ /\ datalen + 1 # Block
          /\ datalen' = datalen + 1
          /\ UNCHANGED <<absorbed, bitlen>>
    /\ UNCHANGED <<at, answer, digest>>

UpdateDone ==
    /\ at = "update" /\ todo = <<>>
    /\ at' = "open" /\ answer' = "OK"
    /\ UNCHANGED <<ctx, todo, digest>>

-----------------------------------------------------------------------------
(* sha256_final and crypto_monocypher_hash_finish *)

\* The buffer with the marker after the data and zeros up to `upto`.
Marked(upto) ==
    [j \in 1 .. Block |-> IF j = datalen + 1 THEN Marker
                          ELSE IF j \in datalen + 2 .. upto THEN 0
                          ELSE data[j]]

TotalBits == (bitlen + 8 * datalen) % Word

\* The last bytes of a block hold the length, most significant byte first.
WithLength(block) ==
    [j \in 1 .. Block |->
        IF j > Block - LenBytes
        THEN (TotalBits \div Base ^ (Block - j)) % Base ELSE block[j]]

\* Fault: a block with no room for the marker is taken to have some.
RoomForLengthOffByOne == datalen <= Block - LenBytes

\* Is there room for the marker and the length?
RoomForLength == datalen < Block - LenBytes

Tailed ==
    IF RoomForLength THEN WithLength(Marked(Block - LenBytes))
    ELSE Marked(Block) \o WithLength(Zeros(Block))

\* The digest goes out, and the whole context is zeroed.
HashFinish ==
    /\ at = "open"
    /\ digest' = absorbed \o Tailed
    /\ absorbed' = <<>> /\ data' = Zeros(Block) /\ datalen' = 0 /\ bitlen' = 0
    /\ at' = "raw" /\ answer' = "OK"
    /\ UNCHANGED todo

Next ==
    \/ Refuse \/ HashInit \/ HashUpdate \/ TakeByte \/ UpdateDone \/ HashFinish

Spec == Init /\ [][Next]_vars

-----------------------------------------------------------------------------
(* Properties *)

\* Every variable keeps its type, and the buffer is never full between bytes.
TypeOK ==
    /\ absorbed \in Seq(Bytes) /\ data \in [1 .. Block -> Bytes \cup {0}]
    /\ datalen \in 0 .. Block - 1 /\ bitlen \in 0 .. Word - 1
    /\ todo \in Seq(Bytes) /\ at \in {"raw", "open", "update"}
    /\ answer \in {"none", "pending", "OK", "INVALID_ARG"}
    /\ digest \in Seq(0 .. Base - 1)

\* The length counts the bytes of the blocks compressed, and they are whole.
LengthCounts ==
    /\ Len(absorbed) % Block = 0
    /\ bitlen = 8 * Len(absorbed)

\* The message as the caller sees it, the rest of a running update included.
Message == absorbed \o SubSeq(data, 1, datalen) \o todo

Promise == INSTANCE HashPromise WITH
    msg <- IF at = "raw" THEN <<>> ELSE Message,
    open <- at # "raw"

\* However the message is cut into pieces, wherever its end falls in a block,
\* and whatever the context held before, the digest is that of the message
\* padded as the standard says (sha256.c:86-159, crypto_monocypher.c:22-50).
ImplementsHash == Promise!Spec
=============================================================================
