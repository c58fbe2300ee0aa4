---------------------------- MODULE SymbolicBytes ----------------------------
(***************************************************************************)
(* Bytes of hashed data.  A byte is a known value, or byte i of the digest *)
(* of something, exclusive-ored with a mask: two digests are equal exactly *)
(* when they are digests of the same thing.                                *)
(***************************************************************************)
EXTENDS Integers, Sequences, SequencesExt

Known(v) == <<v>>
DigestByte(i, source) == <<i, source, 0>>

Blank == Known(0)

\* A byte that nobody can predict, left by a computation done in place.
Spoilt == Known(-1)

Blanks(n) == [j \in 1 .. n |-> Blank]

\* Digest bytes first .. last (from 0) of `source`.
Digest(source, first, last) ==
    [j \in 1 .. last - first + 1 |-> DigestByte(first + j - 1, source)]

\* Writing a byte with `|=`: what is there has to be zero.
OrInto(old, new) ==
    IF old = Blank THEN new ELSE IF new = Blank THEN old ELSE Spoilt

\* Exclusive or of two numbers below 256.
XorBits(a, b) ==
    FoldSet(LAMBDA k, sum :
                sum + (((a \div 2 ^ k) + (b \div 2 ^ k)) % 2) * 2 ^ k,
            0, 0 .. 7)

\* Exclusive or of a byte and a known value.
Xored(b, mask) ==
    IF Len(b) = 1 THEN Known(XorBits(b[1], mask))
    ELSE [b EXCEPT ![3] = XorBits(@, mask)]

\* memcpy: the bytes of `src` into `buf`, from index `at` (from 0) on.
CopyInto(buf, at, src) ==
    [j \in DOMAIN buf |-> IF j \in at + 1 .. at + Len(src) THEN src[j - at] ELSE buf[j]]

\* The bytes from index i (from 0) on, n of them.
Slice(s, i, n) == SubSeq(s, i + 1, i + n)

\* The value v as n bytes of a number system with `base` digits.
LittleEndian(v, n, base) == [j \in 1 .. n |-> Known((v \div base ^ (j - 1)) % base)]
BigEndianBytes(v, n, base) == [j \in 1 .. n |-> Known((v \div base ^ (n - j)) % base)]
=============================================================================
