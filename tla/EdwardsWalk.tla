----------------------------- MODULE EdwardsWalk -----------------------------
(***************************************************************************)
(* A point that is added to, subtracted from, doubled, encoded and decoded *)
(* in any order, next to the same point by the affine law of the curve     *)
(* -x^2 + y^2 = 1 + d x^2 y^2.  Each step leaves another Z.                *)
(***************************************************************************)
EXTENDS AffineCurve

CONSTANTS
    Starts,    \* affine points to begin with,
    Operands,  \* and to add and subtract
    Numbers,   \* what is decoded, on the curve or not
    MaxSteps   \* bound of the model on a walk

ASSUME WalkAssumption ==
    /\ \A q \in Starts \cup Operands : q \in Plane /\ OnCurve(q)
    /\ Numbers \subseteq 0 .. P - 1 /\ MaxSteps \in Nat

VARIABLES point, affine, steps

walkVars == <<point, affine, steps>>

\* A point with the Z of the code's multiples.
Projective(q, z) ==
    LET x == FeMul(Fe(q[1]), z)
        y == FeMul(Fe(q[2]), z)
    IN  [X |-> x, Y |-> y, Z |-> z, T |-> FeMul(x, Fe(q[2]))]

WalkInit == affine \in Starts /\ point = Projective(affine, Fe(2)) /\ steps = 0

Becomes(p, q) == steps < MaxSteps /\ point' = p /\ affine' = q /\ steps' = steps + 1

Add ==
    \E q \in Operands : \E z \in {One, Fe(2)} :
        Becomes(GeAdd(point, GeCache(Projective(q, z))), AffineSum(affine, q))
Sub ==
    \E q \in Operands :
        Becomes(GeSub(point, GeCache(Projective(q, Fe(2)))), AffineSum(affine, AffineNeg(q)))
Madd ==
    \E q \in Operands : Becomes(GeMadd(point, Precomp(q[1], q[2])), AffineSum(affine, q))
Msub ==
    \E q \in Operands :
        Becomes(GeMsub(point, Precomp(q[1], q[2])), AffineSum(affine, AffineNeg(q)))
Double == Becomes(GeDouble(point), AffineSum(affine, affine))

EncodeDecode ==
    LET decoded == GeFromBytesNeg(GeToBytes(point))
    IN  decoded.ok /\ Becomes(decoded.ge, AffineNeg(affine))

WalkNext == Add \/ Sub \/ Madd \/ Msub \/ Double \/ EncodeDecode

-----------------------------------------------------------------------------
(* Properties *)

\* The coordinates are those of the point, T included, whatever was computed
\* before; no sum of two points is an exception (monocypher.c:1777-1859).
CoordinatesArePoint ==
    /\ point.Z.v # 0
    /\ FeMul(point.Z, Fe(affine[1])).v = point.X.v
    /\ FeMul(point.Z, Fe(affine[2])).v = point.Y.v
    /\ FeMul(point.Z, point.T).v = FeMul(point.X, point.Y).v

\* No product is given more than its limbs hold: a point is carried after each
\* operation, whose own sums are short enough (monocypher.c:1203-1228).
SumsFit == \A k \in {"X", "Y", "Z", "T"} : point[k].size <= 1

\* Every point decodes from its encoding, to its negation; no number without a
\* point on the curve does (monocypher.c:1705-1765).
EncodingDecodes ==
    LET s == GeToBytes(point)
        back == GeFromBytesNeg(s)
    IN  /\ back.ok /\ back.ge.X.v = -affine[1] % P /\ back.ge.Y.v = affine[2]
        /\ s = [y |-> affine[2], sign |-> affine[1] % 2]
        /\ affine = <<0, 1>> /\ steps = 0 =>
            \A y \in Numbers :
                GeFromBytesNeg([y |-> y, sign |-> 0]).ok = (\E x \in 0 .. P - 1 : OnCurve(<<x, y>>))
=============================================================================
