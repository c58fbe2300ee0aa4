------------------------------ MODULE Poly1305 -------------------------------
(***************************************************************************)
(* Poly1305 of monocypher.c: the one-time authenticator, in the limb       *)
(* arithmetic of the code, with the widths as parameters.                  *)
(*                                                                         *)
(* A limb has W bits and is one unit of a message, a block is four; the    *)
(* code has W = 32 and cuts a limb into four bytes, which only moves the   *)
(* final one bit.  The modulus is 2^(4W + 2) - 5.  Sums and products are   *)
(* cut to W bits where the code computes them in u32, and sums of products *)
(* to 2W bits, u64, once at their end.                                     *)
(***************************************************************************)
EXTENDS Integers, Sequences

CONSTANTS
    W,         \* bits per limb
    ClampTop,  \* high bits cleared in every limb of r, 4
    Keys,      \* the keys of callers, eight limbs
    Pieces,    \* what callers pass to one update
    MaxUnits   \* bound of the model on the length of a message

L == 2 ^ W       \* u32
LL == 2 ^ (2 * W)  \* u64

\* The room that no sum leaves is that of four bits.  The last conjunct is what
\* the proofs need of powers.
PolyAssumption ==
    /\ W \in Nat /\ ClampTop \in Nat /\ ClampTop >= 4 /\ W > ClampTop + 2
    /\ \A n \in 0 .. 4 * W + 1 : 2 ^ n \in Nat /\ 2 ^ (n + 1) = 2 * 2 ^ n
    /\ Keys \subseteq [1 .. 8 -> 0 .. L - 1]
    /\ \A p \in Pieces : p \in Seq(0 .. L - 1)
    /\ MaxUnits \in Nat

U32(x) == x % L
U64(x) == x % LL

-----------------------------------------------------------------------------
(* The functions on a context *)

\* The bits of limb i of r that are kept.
Clamp(limb, i) ==
    LET low == limb % 2 ^ (W - ClampTop)
    IN  IF i = 1 THEN low ELSE low - (low % 4)

Fresh(key) ==
    [r |-> [i \in 1 .. 4 |-> Clamp(key[i], i)], pad |-> SubSeq(key, 5, 8),
     h |-> <<0, 0, 0, 0, 0>>, c |-> <<0, 0, 0, 0>>, idx |-> 0]

\* Five fourths of the limbs of r, and the two bits that this loses of the first.
FiveFourths(r) ==
    <<(r[1] \div 4) * 5, (r[2] \div 4) + r[2], (r[3] \div 4) + r[3], (r[4] \div 4) + r[4],
      r[1] % 4>>

\* What poly_blocks computes of one block before it carries: x0 .. x4.  s4 and rr
\* are words, and so are their products.
Products(h, r, in, end) ==
    LET s == [i \in 1 .. 4 |-> h[i] + in[i]]
        rr == [i \in 1 .. 5 |-> U32(FiveFourths(r)[i])]
        top == [i \in 1 .. 5 |-> U32(U32(h[5] + end) * rr[i])]
    IN  <<s[1]*r[1] + s[2]*rr[4] + s[3]*rr[3] + s[4]*rr[2] + top[1],
          s[1]*r[2] + s[2]*r[1]  + s[3]*rr[4] + s[4]*rr[3] + top[2],
          s[1]*r[3] + s[2]*r[2]  + s[3]*r[1]  + s[4]*rr[4] + top[3],
          s[1]*r[4] + s[2]*r[3]  + s[3]*r[2]  + s[4]*r[1]  + top[4],
          top[5]>>

\* The carries from x0 .. x4 to h0 .. h4.
CarryBlock(p) ==
    LET x == [i \in 1 .. 4 |-> U64(p[i])]
        u5 == U32(p[5] + x[4] \div L)
        u0 == U64(U32((u5 \div 4) * 5) + (x[1] % L))
        u1 == U64(u0 \div L + (x[2] % L) + x[1] \div L)
        u2 == U64(u1 \div L + (x[3] % L) + x[2] \div L)
        u3 == U64(u2 \div L + (x[4] % L) + x[3] \div L)
    IN  <<U32(u0), U32(u1), U32(u2), U32(u3), U32(u3 \div L + (u5 % 4))>>

\* One block of poly_blocks: h becomes (h + block) * r, partly reduced.
PolyBlock(h, r, in, end) == CarryBlock(Products(h, r, in, end))

\* nb_blocks blocks of a message.
Blocks(h, r, m) ==
    LET hash[i \in 0 .. Len(m) \div 4] ==
            IF i = 0 THEN h
            ELSE PolyBlock(hash[i - 1], r, SubSeq(m, 4 * i - 3, 4 * i), 1)
    IN  hash[Len(m) \div 4]

Fill(ctx, m) ==
    [ctx EXCEPT !.idx = @ + Len(m),
        !.c = [j \in 1 .. 4 |-> IF j \in ctx.idx + 1 .. ctx.idx + Len(m)
                               THEN m[j - ctx.idx] ELSE @[j]]]

\* A block that is complete is processed.
Complete(ctx) ==
    IF ctx.idx = 4
    THEN [ctx EXCEPT !.h = PolyBlock(@, ctx.r, ctx.c, 1), !.idx = 0] ELSE ctx

Update(ctx, m) ==
    LET gap == (4 - ctx.idx) % 4
        aligned == IF gap <= Len(m) THEN gap ELSE Len(m)
        first == Complete(Fill(ctx, SubSeq(m, 1, aligned)))
        rest == SubSeq(m, aligned + 1, Len(m))
        whole == Len(rest) - (Len(rest) % 4)
    IN  IF m = <<>> THEN ctx
        ELSE Fill([first EXCEPT !.h = Blocks(@, ctx.r, SubSeq(rest, 1, whole))],
                  SubSeq(rest, whole + 1, Len(rest)))

\* Fault: the last reduction compares with the power of two.
TimesToSubtractTooFew(h) == h[5] \div 4

\* How many times the modulus is in h: the carry of h + 5 out of its bits.
TimesToSubtract(h) ==
    LET carry[i \in 0 .. 4] == IF i = 0 THEN 5 ELSE (carry[i - 1] + h[i]) \div L
    IN  (carry[4] + h[5]) \div 4

\* The last block is shorter: zeros, and the one bit within it.
Final(ctx) ==
    LET tail == [j \in 1 .. 4 |-> IF j <= ctx.idx THEN ctx.c[j]
                                 ELSE IF j = ctx.idx + 1 THEN 1 ELSE 0]
        h == IF ctx.idx = 0 THEN ctx.h ELSE PolyBlock(ctx.h, ctx.r, tail, 0)
        sum[i \in 0 .. 4] ==
            IF i = 0 THEN TimesToSubtract(h) * 5 * L  \* as the carry into limb 1
            ELSE sum[i - 1] \div L + h[i] + ctx.pad[i]
    IN  [i \in 1 .. 4 |-> U32(sum[i])]

\* The bits of a and b, combined by op.
Bitwise2(op(_, _), a, b) ==
    LET value[k \in 0 .. W] ==
            IF k = 0 THEN 0
            ELSE value[k - 1] + 2 ^ (k - 1) * op((a \div 2 ^ (k - 1)) % 2, (b \div 2 ^ (k - 1)) % 2)
    IN  value[W]
Xor(a, b) == Bitwise2(LAMBDA x, y : (x + y) % 2, a, b)
Or(a, b) == Bitwise2(LAMBDA x, y : IF x + y = 0 THEN 0 ELSE 1, a, b)

\* Minus one if a u64, given by its halves, is not zero, without a branch.
Neq0(low, high) == ((U64(Or(high, low) - 1) \div L) % 2) - 1

\* crypto_verify16: 0 if two authenticators are equal, else -1.
Verify16(a, b) ==
    LET diff == [i \in 1 .. 4 |-> Xor(a[i], b[i])]
    IN  Neq0(Or(diff[1], diff[3]), Or(diff[2], diff[4]))

-----------------------------------------------------------------------------
(* A caller that authenticates a message in pieces *)

VARIABLES ctx, key, msg

vars == <<ctx, key, msg>>

Init == key \in Keys /\ ctx = Fresh(key) /\ msg = <<>>

Extend ==
    /\ \E p \in Pieces :
        /\ Len(msg) + Len(p) <= MaxUnits
        /\ msg' = msg \o p /\ ctx' = Update(ctx, p)
    /\ UNCHANGED key

Next == Extend
Spec == Init /\ [][Next]_vars

-----------------------------------------------------------------------------
(* Properties *)

Modulus == 2 ^ (4 * W + 2) - 5

\* a * b modulo the modulus, without a product beyond it.
TimesModP(a, b) ==
    LET power[k \in 0 .. 4 * W + 1] ==
            IF k = 0 THEN a % Modulus ELSE (2 * power[k - 1]) % Modulus
        sum[k \in 0 .. 4 * W + 2] ==
            IF k = 0 THEN 0
            ELSE (sum[k - 1] + power[k - 1] * ((b \div 2 ^ (k - 1)) % 2)) % Modulus
    IN  sum[4 * W + 2]

Value(limbs) ==
    LET value[i \in 0 .. Len(limbs)] ==  \* of the i highest
            IF i = 0 THEN 0 ELSE value[i - 1] * L + limbs[Len(limbs) + 1 - i]
    IN  value[Len(limbs)]

\* The lower four limbs of a number.
Limbs(x) == [i \in 1 .. 4 |-> (x \div 2 ^ (W * (i - 1))) % L]

\* RFC 8439 section 2.5: each block with a one bit behind it is added, the sum
\* is multiplied by the clamped key, all modulo the modulus, and the pad added at the end.
Mac(k, m) ==
    LET r == Value([i \in 1 .. 4 |-> Clamp(k[i], i)])
        count == (Len(m) + 3) \div 4
        acc[i \in 0 .. count] ==
            IF i = 0 THEN 0
            ELSE LET last == IF 4 * i <= Len(m) THEN 4 * i ELSE Len(m)
                 IN  TimesModP((acc[i - 1] + Value(SubSeq(m, 4 * i - 3, last) \o <<1>>)) % Modulus, r)
    IN  Limbs((acc[count] + Value(SubSeq(k, 5, 8))) % 2 ^ (4 * W))

\* However a message is cut into pieces, and however close the sum is to the
\* modulus, finishing now gives the authenticator of the message so far
\* (monocypher.c:304-441).
AuthenticatesMessage == Final(ctx) = Mac(key, msg)

\* The comment of poly_blocks: with h4 <= 4 and a clamped r no sum leaves its
\* 64 bits, no product of words its 32 bits, nor u5 and five fourths of it, and h4
\* is at most 4 again (monocypher.c:304-350).
PartlyReduced ==
    /\ ctx.h[5] <= 4
    /\ \A end \in 0 .. 1 :
        LET x == Products(ctx.h, ctx.r, <<L - 1, L - 1, L - 1, L - 1>>, end)
            u5 == x[5] + x[4] \div L
        IN  /\ \A i \in 1 .. 5 :
                FiveFourths(ctx.r)[i] < L /\ (ctx.h[5] + end) * FiveFourths(ctx.r)[i] < L
            /\ \A i \in 1 .. 4 : x[i] < LL
            /\ u5 < L /\ (u5 \div 4) * 5 < L
            /\ PolyBlock(ctx.h, ctx.r, <<L - 1, L - 1, L - 1, L - 1>>, end)[5] <= 4

\* The comparison without branches sees a difference in any one bit of an
\* authenticator of a short message, and none where there is none
\* (monocypher.c:145-160).
VerifySeesEveryBit ==
    Len(msg) < 4 =>
        \A mac \in {Final(ctx)} :
            /\ Verify16(mac, mac) = 0
            /\ \A i \in 1 .. 4, k \in 0 .. W - 1 :
                Verify16(mac, [mac EXCEPT ![i] = Xor(@, 2 ^ k)]) = -1
=============================================================================
