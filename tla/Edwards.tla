------------------------------- MODULE Edwards -------------------------------
(***************************************************************************)
(* Points of the twisted Edwards curve of monocypher.c in extended         *)
(* coordinates: x = X / Z, y = Y / Z, T = X Y / Z.  The base point times a *)
(* scalar by two signed combs, and the equation of a signature by sliding  *)
(* windows.  A scalar has 8 * Spacing bits, 256 in the code; an encoded    *)
(* point is the number y, not always below P, and the sign of x.           *)
(***************************************************************************)
EXTENDS PrimeField, Sequences

CONSTANTS
    Spacing,  \* between the teeth of a comb, 32
    BaseX, BaseY

TopBit == 8 * Spacing - 4  \* the highest bit of the order, 252

EdwardsAssumption ==
    /\ Spacing \in Nat \ {0}
    /\ Order > 2 ^ TopBit /\ Order < 2 ^ (TopBit + 1)
    /\ BaseX \in 0 .. P - 1 /\ BaseY \in 0 .. P - 1
ASSUME EdwardsAssumption

GeZero == [X |-> Zero, Y |-> One, Z |-> One, T |-> Zero]

GeToBytes(h) ==
    LET recip == FeInvert(h.Z)
        x == FeMul(h.X, recip)
    IN  [y |-> FeToBytes(FeMul(h.Y, recip)), sign |-> FeIsOdd(x)]

NegatesIfSame(odd, sign) == odd = sign

\* ge_frombytes_neg_vartime: the negation of the point, if there is one.
GeFromBytesNeg(s) ==
    LET y == Fe(s.y)
        y2 == FeSq(y)
        num == FeSub(y2, One)
        root == InvSqrt(FeMul(num, FeAdd(FeMul(y2, D), One)))
        x == FeMul(num, root.isr)
        negX == IF NegatesIfSame(FeIsOdd(x), s.sign) THEN FeNeg(x) ELSE x
    IN  [ok |-> root.square, ge |-> [X |-> negX, Y |-> y, Z |-> One, T |-> FeMul(negX, y)]]

GeCache(p) ==
    [Yp |-> FeAdd(p.Y, p.X), Ym |-> FeSub(p.Y, p.X), Z |-> p.Z, T2 |-> FeMul(p.T, D2)]

\* The common end of ge_add and ge_madd.
GeSum(a, b, z, t) ==
    LET X == FeSub(a, b)
        Y == FeAdd(a, b)
        g == FeAdd(z, t)
        f == FeSub(z, t)
    IN  [T |-> FeMul(X, Y), X |-> FeMul(X, f), Y |-> FeMul(Y, g), Z |-> FeMul(g, f)]

TwiceZ(p, q) == FeMul(FeAdd(p.Z, p.Z), q.Z)

GeAdd(p, q) ==
    GeSum(FeMul(FeAdd(p.Y, p.X), q.Yp), FeMul(FeSub(p.Y, p.X), q.Ym),
          TwiceZ(p, q), FeMul(p.T, q.T2))

GeMadd(p, q) ==
    GeSum(FeMul(FeAdd(p.Y, p.X), q.Yp), FeMul(FeSub(p.Y, p.X), q.Ym),
          FeAdd(p.Z, p.Z), FeMul(p.T, q.T2))

\* Fault: only the halves are swapped, and T2 keeps its sign.
GeNegHalves(q) == [q EXCEPT !.Yp = q.Ym, !.Ym = q.Yp]

\* The negation that ge_sub and ge_msub add.
GeNeg(q) == [q EXCEPT !.Yp = q.Ym, !.Ym = q.Yp, !.T2 = FeNeg(@)]

GeSub(p, q) == GeAdd(p, GeNeg(q))
GeMsub(p, q) == GeMadd(p, GeNeg(q))

GeDouble(p) ==
    LET x2 == FeSq(p.X)
        y2 == FeSq(p.Y)
        T == FeAdd(y2, x2)
        Y == FeSub(y2, x2)
        X == FeSub(FeSq(FeAdd(p.X, p.Y)), T)
        Z == FeSub(FeMulSmall(FeSq(p.Z), 2), Y)
    IN  [X |-> FeMul(X, Z), Y |-> FeMul(T, Y), Z |-> FeMul(Y, Z), T |-> FeMul(X, T)]

-----------------------------------------------------------------------------
(* Tables *)

Precomp(x, y) ==
    [Yp |-> Fe(x + y), Ym |-> Fe(y - x), T2 |-> FeMul(FeMul(Fe(x), Fe(y)), D2)]

Base == [X |-> Fe(BaseX), Y |-> Fe(BaseY), Z |-> One, T |-> FeMul(Fe(BaseX), Fe(BaseY))]

Points == [X : [v : 0 .. P - 1, size : Nat], Y : [v : 0 .. P - 1, size : Nat],
           Z : [v : 0 .. P - 1, size : Nat], T : [v : 0 .. P - 1, size : Nat]]

\* n times the base point with Z = 1, as the tables list it.
Multiple(n) ==
    LET cached == GeCache(Base)
        times[i \in Int, p \in Points] ==
            IF i < 0 THEN p
            ELSE times[i - 1, IF (n \div 2 ^ i) % 2 = 1 THEN GeAdd(GeDouble(p), cached)
                              ELSE GeDouble(p)]
        q == times[TopBit, GeZero]
        recip == FeInvert(q.Z)
    IN  Precomp(FeMul(q.X, recip).v, FeMul(q.Y, recip).v)

BWindow == [j \in 0 .. 7 |-> Multiple(2 * j + 1)]

\* Teeth 0 to 2 of an entry are added or subtracted by the bits of j.
Teeth(j) ==
    2 ^ (3 * Spacing) + (IF j % 2 = 1 THEN 1 ELSE -1)
    + (IF (j \div 2) % 2 = 1 THEN 1 ELSE -1) * 2 ^ Spacing
    + (IF j \div 4 = 1 THEN 1 ELSE -1) * 2 ^ (2 * Spacing)

BCombLow == [j \in 0 .. 7 |-> Multiple(Teeth(j))]
BCombHigh == [j \in 0 .. 7 |-> Multiple((Teeth(j) * (2 ^ (4 * Spacing) % Order)) % Order)]

-----------------------------------------------------------------------------
(* The base point times a scalar *)

ScalarBit(s, i) == IF i < 0 THEN 0 ELSE (s \div 2 ^ i) % 2

\* Fault: the low three bits are kept.
KeepLowBits(s) == (s % 2 ^ (TopBit + 2)) + 2 ^ (TopBit + 2)

\* A multiple of 8 with the highest bit set that the ladder takes.
TrimScalar(s) == ((s - (s % 8)) % 2 ^ (TopBit + 2)) + 2 ^ (TopBit + 2)

MulAdd(a, b, c) == (a * b + c) % Order

LookupAdd(p, comb, s, i) ==
    LET tooth(k) == ScalarBit(s, i + k * Spacing)
        teeth == tooth(0) + 2 * tooth(1) + 4 * tooth(2)
        high == tooth(3) = 1
        entry == comb[IF high THEN teeth ELSE 7 - teeth]
    IN  GeMadd(p, IF high THEN entry ELSE GeNeg(entry))

HalfModL == (Order + 1) \div 2

\* Fault: half of 2^256 in the place of half of 2^256 - 1.
HalfPower == (2 ^ (8 * Spacing - 1)) % Order

HalfOnes == ((2 ^ (8 * Spacing) - 1) * HalfModL) % Order

\* The signed combs of a scalar whose bits are 1 and -1.
Combed(s, low, high) ==
    LET both(p, i) == LookupAdd(LookupAdd(p, low, s, i), high, s, i + 4 * Spacing)
        ladder[i \in Int, p \in Points] ==
            IF i < 0 THEN p ELSE ladder[i - 1, both(GeDouble(p), i)]
    IN  ladder[Spacing - 2, both(GeZero, Spacing - 1)]

GeScalarmultBase(scalar) == Combed(MulAdd(scalar, HalfModL, HalfOnes), BCombLow, BCombHigh)

ScalarBase(scalar) == GeToBytes(GeScalarmultBase(scalar))

-----------------------------------------------------------------------------
(* Sliding windows *)

Slides == [next_check : 0 .. 255, next_index : Int, next_digit : Int]

SlideFrom == TopBit

SlideInit(s) ==
    LET first[i \in 0 .. TopBit] == IF i > 0 /\ ScalarBit(s, i) = 0 THEN first[i - 1] ELSE i
    IN  [next_check |-> first[SlideFrom] + 1, next_index |-> -1, next_digit |-> -1]

\* The signed window that ends at bit i, with the carry of the bit below it.
Window(s, i, w) ==
    ((s \div 2 ^ (i + 1 - w)) % 2 ^ w) - 2 ^ w * ScalarBit(s, i) + ScalarBit(s, i - w)

\* What slide_step leaves; its digit is SlideDigit.
SlideStep(c, width, i, s) ==
    LET w == IF width < i + 1 THEN width ELSE i + 1
        v == Window(s, i, w)
        lsb == CHOOSE n \in 0 .. 7 : v % 2 ^ n = 0 /\ v % 2 ^ (n + 1) # 0
    IN  IF i # c.next_check THEN c
        ELSE IF ScalarBit(s, i) = ScalarBit(s, i - 1)
        THEN [c EXCEPT !.next_check = (@ - 1) % 256]
        ELSE [next_check |-> (i - w) % 256, next_index |-> i - (w - 1) + lsb,
              next_digit |-> v \div 2 ^ lsb]

SlideDigit(c, i) == IF i = c.next_index THEN c.next_digit ELSE 0

PWidth == 3
BWidth == 5

-----------------------------------------------------------------------------
(* The equation of a signature *)

IsAboveL(s) == s >= Order

Times8(sum) == GeDouble(GeDouble(GeDouble(sum)))

\* [s] B - [h] A from minus A.
SumOf(minusA, s, h) ==
    LET cached == GeCache(minusA)
        lutA == <<cached, GeCache(GeAdd(GeDouble(minusA), cached))>>
        sumA(p, digit) ==
            IF digit > 0 THEN GeAdd(p, lutA[digit \div 2 + 1])
            ELSE IF digit < 0 THEN GeSub(p, lutA[(-digit) \div 2 + 1]) ELSE p
        sumB(p, digit) ==
            IF digit > 0 THEN GeMadd(p, BWindow[digit \div 2])
            ELSE IF digit < 0 THEN GeMsub(p, BWindow[(-digit) \div 2]) ELSE p
        ladder[i \in Int, p \in Points, hc \in Slides, sc \in Slides] ==
            IF i < 0 THEN p
            ELSE LET h1 == SlideStep(hc, PWidth, i, h)
                     s1 == SlideStep(sc, BWidth, i, s)
                 IN  ladder[i - 1, sumB(sumA(GeDouble(p), SlideDigit(h1, i)), SlideDigit(s1, i)),
                            h1, s1]
        hc == SlideInit(h)
        sc == SlideInit(s)
    IN  ladder[IF hc.next_check > sc.next_check THEN hc.next_check ELSE sc.next_check,
               GeZero, hc, sc]

CheckEquation(signature, public_key, h) ==
    LET minusA == GeFromBytesNeg(public_key)
        minusR == GeFromBytesNeg(signature.R)
    IN  /\ minusA.ok /\ minusR.ok /\ ~IsAboveL(signature.s)
        /\ GeToBytes(Times8(GeAdd(SumOf(minusA.ge, signature.s, h), GeCache(minusR.ge))))
               = [y |-> 1, sign |-> 0]
=============================================================================
