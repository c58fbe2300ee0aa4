-------------------------- MODULE Ed25519Constants ---------------------------
(***************************************************************************)
(* The constants of the arithmetic modulo L, as monocypher.c writes them:  *)
(* words of 32 bits, least first, each given by its two halves.            *)
(***************************************************************************)
EXTENDS Integers, Sequences

\* The bytes of words, n of them.
BytesOf(halves, n) ==
    [j \in 1 .. n |->
        LET i == j - 1
            k == 2 * (i \div 4) + (IF i % 4 < 2 THEN 2 ELSE 1)
        IN  (halves[k] \div 256 ^ (i % 2)) % 256]

OrderBytes == BytesOf(
    <<\h5cf5, \hd3ed, \h5812, \h631a, \ha2f7, \h9cd6, \h14de, \hf9de,
      0, 0, 0, 0, 0, 0, \h1000, 0>>, 32)

BarrettBytes == BytesOf(
    <<\h0a2c, \h131b, \hed9c, \he5a3, \h0863, \h29a7, \h2106, \h215d,
      \hffff, \hffeb, \hffff, \hffff, \hffff, \hffff, \hffff, \hffff, 0, \hf>>, 33)

MontgomeryBytes == BytesOf(
    <<\h1254, \h7e1b, \hd2b5, \h1da3, \hfdba, \h84ff, \hb1a2, \h06f2,
      \hffa3, \h6bea, \h14e7, \h5438, \h6fe9, \h1836, \h9db6, \hc6f2>>, 32)

OneBytes == BytesOf(
    <<\h8d98, \h951d, \hd6ec, \h3174, \h737d, \hcf70, \hc6ef, \h5bf4,
      \hffff, \hfffe, \hffff, \hffff, \hffff, \hffff, \h0fff, \hffff>>, 32)
=============================================================================
