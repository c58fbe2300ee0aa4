----------------------------- MODULE AffineCurve -----------------------------
(***************************************************************************)
(* What the points of module Edwards stand for: pairs on the curve         *)
(* -x^2 + y^2 = 1 + d x^2 y^2, under the affine law of the curve.          *)
(***************************************************************************)
EXTENDS Edwards

Plane == (0 .. P - 1) \X (0 .. P - 1)

OnCurve(q) ==
    LET x2 == (q[1] * q[1]) % P
        y2 == (q[2] * q[2]) % P
    IN  (y2 - x2) % P = (1 + D.v * ((x2 * y2) % P)) % P

AffineSum(p, q) ==
    LET xx == (p[1] * q[1]) % P
        yy == (p[2] * q[2]) % P
        k == (D.v * ((xx * yy) % P)) % P
    IN  <<((((p[1] * q[2]) % P) + ((q[1] * p[2]) % P)) * Inverse(1 + k)) % P,
          (((yy + xx) % P) * Inverse(1 - k)) % P>>

AffineNeg(p) == <<-p[1] % P, p[2]>>

AffineMultiple(n, p) ==
    LET times[k \in Nat, square \in Plane, sum \in Plane] ==
            IF k = 0 THEN sum
            ELSE times[k \div 2, AffineSum(square, square),
                       IF k % 2 = 1 THEN AffineSum(sum, square) ELSE sum]
    IN  times[n, p, <<0, 1>>]

AffineBase == <<BaseX, BaseY>>
AffineLop == <<LopX.v, LopY.v>>

Encoded(p) == [y |-> p[2], sign |-> p[1] % 2]
=============================================================================
