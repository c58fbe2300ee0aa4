---------------------------- MODULE HashPromise -----------------------------
(***************************************************************************)
(* What a hash context promises: it takes a message in pieces of any size  *)
(* and answers with the hash of the whole.  The hash of a message is told  *)
(* apart from others by what goes into the compression function: the       *)
(* message, padded as FIPS 180-4 section 5.1.1 says.                       *)
(***************************************************************************)
EXTENDS Integers, Sequences

CONSTANTS
    Block,     \* bytes per block, 64
    LenBytes,  \* bytes of the length field, 8
    Base,      \* values of a byte, 256
    Bytes      \* the bytes that occur in messages

VARIABLES
    msg,     \* the message so far
    open,    \* has the context been initialised, and not finished since?
    digest   \* the last hash that was answered

hvars == <<msg, open, digest>>

\* The value v as n bytes, the most significant first.
BigEndian(v, n) == [j \in 1 .. n |-> (v \div Base ^ (n - j)) % Base]

Zeros(n) == [j \in 1 .. n |-> 0]

\* A one bit, the fewest zeros that fill the last block, the length in bits.
PadLength(len) ==
    CHOOSE k \in 0 .. Block - 1 : (len + 1 + k + LenBytes) % Block = 0

Padded(m) ==
    m \o <<Base \div 2>> \o Zeros(PadLength(Len(m))) \o BigEndian(8 * Len(m), LenBytes)

Init == msg = <<>> /\ open = FALSE /\ digest = <<>>

Begin == open' = TRUE /\ msg' = <<>> /\ UNCHANGED digest

Extend ==
    /\ open
    /\ Len(msg') >= Len(msg) /\ SubSeq(msg', 1, Len(msg)) = msg
    /\ msg' \in Seq(Bytes)
    /\ UNCHANGED <<open, digest>>

\* The context forgets the message.
Finish ==
    /\ open /\ open' = FALSE
    /\ digest' = Padded(msg)
    /\ msg' = <<>>

Next == Begin \/ Extend \/ Finish

Spec == Init /\ [][Next]_hvars
=============================================================================
