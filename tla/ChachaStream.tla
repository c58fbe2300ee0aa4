---------------------------- MODULE ChachaStream ----------------------------
(***************************************************************************)
(* A caller that encrypts long texts in pieces, passing the counter that   *)
(* one call returned to the next, under two nonces of one key.             *)
(***************************************************************************)
EXTENDS Chacha20

CONSTANTS
    Variants,    \* the cipher used: "djb", "ietf" or "x"
    Nonces,      \* the nonces, pairs of the part that varies and the rest
    FirstCtrs,   \* counters that callers begin with
    PieceSizes,
    MaxBlocks    \* bound of the model on the blocks of a text

\* The part that varies is the first word of an IETF nonce.
StreamAssumption ==
    /\ ChachaAssumption
    /\ Variants \subseteq {"djb", "ietf", "x"}
    /\ \A nonce \in Nonces : nonce = <<nonce[1], nonce[2]>> /\ nonce[1] \in 0 .. CtrRange - 1
    /\ FirstCtrs \subseteq Nat /\ PieceSizes \subseteq Nat /\ MaxBlocks \in Nat

VARIABLES
    variant, first,
    ctr,    \* the counter of each nonce
    plain,  \* the text of each nonce, and where its pieces end,
    ends,
    cipher, \* and what the calls made of it
    spent   \* blocks each nonce has used

vars == <<variant, first, ctr, plain, ends, cipher, spent>>

CtrWidth == IF variant = "ietf" THEN CtrRange ELSE CtrRange * CtrRange

Encrypt(text, nonce, c) ==
    CASE variant = "djb"  -> Djb(text, <<1>>, nonce, c)
      [] variant = "ietf" -> Ietf(text, <<1>>, nonce, c)
      [] variant = "x"    -> X(text, <<1>>, nonce, c)

Next64(n, nonce, c) == IF variant = "ietf" THEN IetfNext(n, nonce, c) ELSE DjbNext(n, c)

Init ==
    /\ variant \in Variants /\ first \in FirstCtrs /\ first < CtrWidth
    /\ ctr = [nonce \in Nonces |-> first]
    /\ plain = [nonce \in Nonces |-> <<>>] /\ ends = [nonce \in Nonces |-> {}]
    /\ cipher = [nonce \in Nonces |-> <<>>] /\ spent = [nonce \in Nonces |-> 0]

\* One call.  No caller goes on after the last counter value is used.
Call(nonce) ==
    \E n \in PieceSizes :
        LET blocks == (n + BlockBytes - 1) \div BlockBytes
            piece == [j \in 1 .. n |-> Plain(Len(plain[nonce]) + j)]
        IN  /\ spent[nonce] + blocks <= MaxBlocks
            /\ first + spent[nonce] + blocks <= CtrWidth
            /\ spent' = [spent EXCEPT ![nonce] = @ + blocks]
            /\ plain' = [plain EXCEPT ![nonce] = @ \o piece]
            /\ ends' = [ends EXCEPT ![nonce] = @ \cup {Len(plain[nonce]) + n}]
            /\ cipher' = [cipher EXCEPT ![nonce] = @ \o Encrypt(piece, nonce, ctr[nonce])]
            /\ ctr' = [ctr EXCEPT ![nonce] = Next64(n, nonce, @)]
            /\ UNCHANGED <<variant, first>>

Next == \E nonce \in Nonces : Call(nonce)
Spec == Init /\ [][Next]_vars

-----------------------------------------------------------------------------
(* Properties *)

\* No byte of key stream is used twice, neither across calls, at an incomplete
\* block or a carry of the counter, nor for two nonces (monocypher.c:220-286).
KeyStreamUsedOnce ==
    \A n1, n2 \in Nonces : \A i \in DOMAIN cipher[n1], j \in DOMAIN cipher[n2] :
        cipher[n1][i][2] = cipher[n2][j][2] => n1 = n2 /\ i = j

\* Pieces of whole blocks make up the text that one call would encrypt, and
\* the same call decrypts it (monocypher.c:236-268).
PiecesAreOneText ==
    \A nonce \in Nonces :
        (\A e \in ends[nonce] : e % BlockBytes = 0 \/ e = Len(plain[nonce])) =>
            /\ cipher[nonce] = Encrypt(plain[nonce], nonce, first)
            /\ Encrypt(cipher[nonce], nonce, first) = plain[nonce]
=============================================================================
