----------------------------- MODULE PrimeField ------------------------------
(***************************************************************************)
(* The field of monocypher.c modulo a small prime, for the code above it.  *)
(* Fe25519 has the limbs.  An element here is its number and its size: how *)
(* many carried elements its limbs are the sum of.  A product takes limbs  *)
(* below 1.65 * 2^26, three times a carried one, and an encoding none      *)
(* above 1.1 * 2^25, which is one; sums and differences are not carried.   *)
(***************************************************************************)
EXTENDS Integers

CONSTANTS
    P,       \* the modulus, 2^255 - 19
    CurveA,  \* coefficient of the Montgomery curve, 486662
    Order,   \* order of the base point, L
    CurveD,  \* the literals of the code: d,
    RootOfM1,\* sqrtm1
    LowOrderX\* and lop_x

\* d = -(A - 2) / (A + 2); x of a point of order 8 has x^2 = (sqrt(d + 1) + 1) / d.
FieldAssumption ==
    /\ P \in Nat /\ P > 5 /\ P % 8 = 5
    /\ CurveA \in 3 .. P - 1 /\ CurveA % 4 = 2
    /\ Order \in Nat \ {0}
    /\ {CurveD, RootOfM1, LowOrderX} \subseteq 1 .. P - 1
    /\ (CurveD * (CurveA + 2) + CurveA - 2) % P = 0
    /\ (RootOfM1 * RootOfM1) % P = P - 1
    /\ LET e == (CurveD * ((LowOrderX * LowOrderX) % P) - 1) % P
       IN  (e * e) % P = (CurveD + 1) % P
ASSUME FieldAssumption

Spilt == 1000   \* the size of what no longer fits its limbs
Overflow == -1  \* what such an element is encoded as

Fe(n) == [v |-> n % P, size |-> 1]
Zero == [v |-> 0, size |-> 0]
One == Fe(1)

FeNeg(f) == [f EXCEPT !.v = -@ % P]
FeAdd(f, g) == [v |-> (f.v + g.v) % P, size |-> f.size + g.size]
FeSub(f, g) == [v |-> (f.v - g.v) % P, size |-> f.size + g.size]

\* What FE_CARRY leaves.
Carried(n, fits) == [v |-> n % P, size |-> IF fits THEN 1 ELSE Spilt]

FeMul(f, g) == Carried(f.v * g.v, f.size <= 3 /\ g.size <= 3)
FeSq(f) == FeMul(f, f)
FeMulSmall(f, n) == Carried(f.v * n, f.size <= 3)

FeToBytes(f) == IF f.size <= 1 THEN f.v ELSE Overflow
FeIsOdd(f) == FeToBytes(f) % 2
FeIsEqual(f, g) == IF FeToBytes(f) = FeToBytes(g) THEN 1 ELSE 0

\* The pair that fe_cswap leaves, and the element that fe_ccopy leaves.
FeCSwap(f, g, b) == IF b = 1 THEN <<g, f>> ELSE <<f, g>>
FeCCopy(f, g, b) == IF b = 1 THEN g ELSE f

Power(x, e) ==
    LET Elements == [v : 0 .. P - 1, size : Nat]
        power[n \in Nat, square \in Elements, product \in Elements] ==
            IF n = 0 THEN product
            ELSE power[n \div 2, FeSq(square),
                       IF n % 2 = 1 THEN FeMul(product, square) ELSE product]
    IN  power[e, x, One]

-----------------------------------------------------------------------------
(* Square roots *)

\* Whether the root is x^((p-5)/8) * sqrt(-1).
RootNeedsFactor(m1, ms) == IF m1 = 1 \/ ms = 1 THEN 1 ELSE 0

SqrtM1 == Fe(RootOfM1)

RootBy(x, t0, quartic) ==
    LET z0 == FeIsEqual(x, Zero)
        p1 == FeIsEqual(quartic, One)
        m1 == FeIsEqual(quartic, FeNeg(One))
        ms == FeIsEqual(quartic, FeNeg(SqrtM1))
    IN  [isr |-> FeCCopy(FeMul(t0, SqrtM1), t0, 1 - RootNeedsFactor(m1, ms)),
         square |-> p1 = 1 \/ m1 = 1 \/ z0 = 1]

\* invsqrt: 1 / sqrt(x), or sqrt(sqrt(-1) / x), and whether x is a square.
InvSqrt(x) ==
    LET t0 == Power(x, (P - 5) \div 8)
    IN  RootBy(x, t0, FeMul(FeSq(t0), x))

FeInvert(x) == FeMul(FeSq(InvSqrt(FeSq(x)).isr), x)

Inverse(n) == FeInvert(Fe(n)).v

-----------------------------------------------------------------------------
(* The literals of the code *)

D == Fe(CurveD)
D2 == Fe(2 * CurveD)
A == Fe(CurveA)
A2 == Fe(CurveA * CurveA)
UFactor == Fe(-2 * RootOfM1)
LopX == Fe(LowOrderX)
LopY == FeNeg(FeMul(LopX, SqrtM1))
=============================================================================
