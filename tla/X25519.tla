------------------------------- MODULE X25519 --------------------------------
(***************************************************************************)
(* The Montgomery ladder of monocypher.c, the public keys that are made    *)
(* with it, and their hiding by Elligator 2.  A key is a number that its   *)
(* bytes hold; a hidden key is the number r and two bits of padding.       *)
(***************************************************************************)
EXTENDS AffineCurve

-----------------------------------------------------------------------------
(* The ladder *)

Ladders ==
    LET Elements == [v : 0 .. P - 1, size : Nat]
    IN  [x2 : Elements, z2 : Elements, x3 : Elements, z3 : Elements, swap : 0 .. 1]

Swapped(l, b) ==
    LET x == FeCSwap(l.x2, l.x3, b)
        z == FeCSwap(l.z2, l.z3, b)
    IN  [l EXCEPT !.x2 = x[1], !.x3 = x[2], !.z2 = z[1], !.z3 = z[2]]

\* (P2, P3) becomes (2 P2, P2 + P3).
LadderStep(l, x1) ==
    LET t0 == FeSub(l.x3, l.z3)
        t1 == FeSub(l.x2, l.z2)
        sum == FeAdd(l.x2, l.z2)
        u == FeMul(t0, sum)
        w == FeMul(FeAdd(l.x3, l.z3), t1)
        dd == FeSq(t1)
        ss == FeSq(sum)
        e == FeSub(ss, dd)
        z2 == FeMul(e, FeAdd(dd, FeMulSmall(e, (CurveA + 2) \div 4)))
    IN  [l EXCEPT !.x2 = FeMul(ss, dd), !.z2 = z2,
                  !.x3 = FeSq(FeAdd(u, w)), !.z3 = FeMul(x1, FeSq(FeSub(u, w)))]

Scalarmult(scalar, p, nbBits) ==
    LET x1 == Fe(p)
        start == [x2 |-> One, z2 |-> Zero, x3 |-> x1, z3 |-> One, swap |-> 0]
        ladder[pos \in Int, l \in Ladders] ==
            IF pos < 0 THEN Swapped(l, l.swap)
            ELSE LET b == ScalarBit(scalar, pos)
                     s == Swapped(l, (l.swap + b) % 2)
                 IN  ladder[pos - 1, [LadderStep(s, x1) EXCEPT !.swap = b]]
        end == ladder[nbBits - 1, start]
    IN  FeToBytes(FeMul(end.x2, FeInvert(end.z2)))

AllBits == 8 * Spacing

X25519(your_secret_key, their_public_key) ==
    Scalarmult(TrimScalar(your_secret_key), their_public_key, AllBits - 1)

\* The u coordinate of a point, and back to y.
ToX25519(y) ==
    LET t == Fe(y)
    IN  FeToBytes(FeMul(FeAdd(One, t), FeInvert(FeSub(One, t))))
ToEddsa(u) ==
    LET t == Fe(u)
    IN  FeToBytes(FeMul(FeSub(t, One), FeInvert(FeAdd(t, One))))

BasePoint == ToX25519(BaseY)
PublicKey(secret_key) == X25519(secret_key, BasePoint)

-----------------------------------------------------------------------------
(* Keys with a part of small order *)

AddXL(s, x) == (s + Order * (x % 8)) % 2 ^ AllBits

\* The base point and Order mod 8 times the point of order 8: Order * Order is 1
\* modulo 8.
DirtyBasePoint == ToX25519(AffineSum(AffineBase, AffineMultiple(Order % 8, AffineLop))[2])

DirtySmall(secret_key) ==
    Scalarmult(AddXL(TrimScalar(secret_key), secret_key), DirtyBasePoint, AllBits)

SelectLop(x, k, cofactor) ==
    LET out == FeCCopy(FeCCopy(Zero, k, (cofactor \div 2) % 2), x, cofactor % 2)
    IN  FeCCopy(out, FeNeg(out), (cofactor \div 4) % 2)

LowOrderPoint(x, y) == [Yp |-> FeAdd(y, x), Ym |-> FeSub(y, x), T2 |-> FeMul(FeMul(y, x), D2)]
MontgomeryU(p) == FeToBytes(FeMul(FeAdd(p.Z, p.Y), FeInvert(FeSub(p.Z, p.Y))))

DirtyFast(secret_key) ==
    MontgomeryU(GeMadd(GeScalarmultBase(TrimScalar(secret_key)),
                       LowOrderPoint(SelectLop(LopX, SqrtM1, secret_key),
                                     SelectLop(LopY, One, secret_key + 2))))

-----------------------------------------------------------------------------
(* Elligator 2 *)

ElligatorMap(hidden) ==
    LET r == FeSq(Fe(hidden.r))
        r1 == FeAdd(r, r)
        r2 == FeAdd(r1, One)
        square == FeSq(r2)
        t3 == FeMul(FeSub(FeMul(A2, r1), square), A)
        root == InvSqrt(FeMul(t3, FeMul(square, r2)))
        e == FeCCopy(FeMul(r, UFactor), One, IF root.square THEN 1 ELSE 0)
    IN  FeToBytes(FeNeg(FeMul(FeMul(FeMul(FeMul(e, A), t3), square), FeSq(root.isr))))

\* Fault: the root itself is returned, not the one below P / 2.
PositiveAny(t) == t

\* The one of t and -t whose double is even.
Positive(t) == FeCCopy(t, FeNeg(t), FeIsOdd(FeMulSmall(t, 2)))

\* The representative, if there is one; tweak has the sign and the padding.
ElligatorRev(public_key, tweak) ==
    LET t1 == Fe(public_key)
        t2 == FeAdd(t1, A)
        root == InvSqrt(FeMulSmall(FeMul(t1, t2), -2))
    IN  [ok |-> root.square,
         hidden |-> [r |-> FeToBytes(Positive(FeMul(FeCCopy(t1, t2, tweak.sign), root.isr))),
                     pad |-> tweak.pad]]

-----------------------------------------------------------------------------
(* The inverse of a secret key *)

InverseBits == AllBits

X25519Inverse(private_key, curve_point) ==
    LET Scalars == 0 .. Order - 1
        power[n \in Nat, square \in Scalars, product \in Scalars] ==
            IF n = 0 THEN product
            ELSE power[n \div 2, (square * square) % Order,
                       IF n % 2 = 1 THEN (product * square) % Order ELSE product]
        scalar == power[Order - 2, TrimScalar(private_key) % Order, 1]
    IN  Scalarmult(AddXL(scalar, scalar * 3), curve_point, InverseBits)
=============================================================================
