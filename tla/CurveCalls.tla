----------------------------- MODULE CurveCalls ------------------------------
(***************************************************************************)
(* Single calls of monocypher.c: the base point times a scalar, the        *)
(* equation of a signature for keys and nonce points of every order, and   *)
(* the two ways of Elligator.  A point is named by its logarithms: n times *)
(* the base point and k times the point of order 8.                        *)
(***************************************************************************)
EXTENDS X25519

CONSTANTS
    BaseScalars, \* of crypto_eddsa_scalarbase and the windows
    Logs,        \* of the base point, of keys and nonce points
    Torsions,    \* of the point of order 8
    Hashes,      \* of signatures
    Lifts,       \* what s is off by
    Strings,     \* numbers of 254 bits to map,
    Keys         \* and keys to hide

CallsAssumption ==
    /\ BaseScalars \subseteq 0 .. 2 ^ (8 * Spacing) - 1
    /\ Logs \subseteq 0 .. Order - 1 /\ Torsions \subseteq 0 .. 7
    /\ Hashes \subseteq 0 .. Order - 1 /\ Lifts \subseteq Int
    /\ Strings \subseteq Nat /\ Keys \subseteq 0 .. P - 1
ASSUME CallsAssumption

VARIABLES call, ret

callVars == <<call, ret>>

PointOf == [n \in Logs, k \in Torsions |->
    AffineSum(AffineMultiple(n, AffineBase), AffineMultiple(k, AffineLop))]

\* The encodings of a point that decode: the number y or, where it still fits
\* the bytes, y + P, and either sign if x is zero.
Encodings(p) ==
    {[y |-> p[2], sign |-> s] : s \in IF p[1] = 0 THEN {0, 1} ELSE {p[1] % 2}}
    \cup {[y |-> p[2] + P, sign |-> p[1] % 2] : y \in {p[2]} \cap 0 .. 18}

NoLog == 2 * Order

\* A number that is the y of no point.
OffCurve == [y |-> CHOOSE y \in 2 .. P - 1 :
                 ~GeFromBytesNeg([y |-> y, sign |-> 0]).ok, sign |-> 0]

Signs == {0, 1}
Free == call = <<"none">>

CallsInit == call = <<"none">> /\ ret = <<>>

Multiply ==
    Free /\ \E s \in BaseScalars : call' = <<"scalarbase", s>> /\ ret' = ScalarBase(s)

\* The digits of a scalar, from the lowest.
Slide ==
    /\ Free
    /\ \E s \in BaseScalars, width \in {PWidth, BWidth} :
        LET first == SlideInit(s).next_check
            digits[i \in Int, c \in Slides, d \in Seq(Int)] ==
                IF i < 0 THEN d
                ELSE LET c1 == SlideStep(c, width, i, s)
                     IN  digits[i - 1, c1, <<SlideDigit(c1, i)>> \o d]
        IN  /\ s < Order
            /\ call' = <<"slide", s, width>>
            /\ ret' = digits[first, SlideInit(s), <<>>]

\* A signature whose s is what the key needs, or is off by one, or by the order;
\* and one with a number that is no point in the place of the key or of R.
Check ==
    /\ Free
    /\ \E a, r \in Logs, i, j \in Torsions, h \in Hashes, lift \in Lifts :
        \E public_key \in {OffCurve} \cup Encodings(PointOf[a, i]),
           R \in {OffCurve} \cup Encodings(PointOf[r, j]) :
            LET s == ((h * a + r) % Order) + lift
            IN  /\ s >= 0
                /\ call' = <<"check", IF OffCurve \in {public_key, R} THEN NoLog ELSE lift>>
                /\ ret' = CheckEquation([R |-> R, s |-> s], public_key, h)

\* crypto_elligator_map and crypto_elligator_rev.
Map ==
    /\ Free
    /\ \E r \in Strings :
        call' = <<"map", r>> /\ ret' = <<ElligatorMap([r |-> r, pad |-> 0])>>

Rev ==
    /\ Free
    /\ \E public_key \in Keys, sign \in Signs :
        LET found == ElligatorRev(public_key, [sign |-> sign, pad |-> 3])
        IN  /\ call' = <<"rev", public_key, sign>>
            /\ ret' = IF found.ok THEN <<found.hidden.r>> ELSE <<>>

Return == ~Free /\ call' = <<"none">> /\ ret' = <<>>

CallsNext == Multiply \/ Slide \/ Check \/ Map \/ Rev \/ Return

-----------------------------------------------------------------------------
(* Properties *)

\* Every scalar of 256 bits gives its multiple, those above the order and the
\* untrimmed ones included (monocypher.c:2164-2210).
CombsMultiply ==
    call[1] = "scalarbase" => ret = Encoded(AffineMultiple(call[2], AffineBase))

\* Converted to an X25519 key and back, an encoded point keeps its y, but for
\* the neutral one, whose u is 0 as that of the point of order 2
\* (monocypher.c:2346-2374).
KeysConvert ==
    call[1] = "scalarbase" /\ ret.y # 1 => ToEddsa(ToX25519(ret.y)) = ret.y

\* The digits sum to the scalar; each is zero or odd and below half its window,
\* so that the tables have it (monocypher.c:1915-1966).
DigitsAreScalar ==
    call[1] = "slide" =>
        LET value[i \in 0 .. Len(ret)] ==
                IF i = 0 THEN 0 ELSE 2 * value[i - 1] + ret[Len(ret) + 1 - i]
            half == 2 ^ (call[3] - 1)
        IN  /\ value[Len(ret)] = call[2]
            /\ \A i \in DOMAIN ret :
                ret[i] # 0 => ret[i] % 2 = 1 /\ ret[i] < half /\ ret[i] > -half

\* The equation holds for the s that key and hash give, whatever part of small
\* order the points have, and for no other s, however it is encoded; it fails
\* for numbers that are no point (monocypher.c:1972-2037).
EquationDecides == call[1] = "check" => ret = (call[2] = 0)

MapOf(r) == ElligatorMap([r |-> r, pad |-> 0])

\* u is on the Montgomery curve v^2 = u^3 + A u^2 + u.
Squares == {(v * v) % P : v \in 0 .. P \div 2}
OnMontgomery(u) == (u * ((((u * u) % P) + ((CurveA * u) % P) + 1) % P)) % P \in Squares

\* All that strings map to; a string and its negation map to one key.
Images == {MapOf(r) : r \in 0 .. P \div 2}

\* Every string maps to a key on the curve, and is the representative of that
\* key for one of the two signs, so that keys hidden are as likely as strings;
\* strings that are not below P / 2 map as their negation (monocypher.c:2627-2654).
StringsAreRepresentatives ==
    call[1] = "map" =>
        LET r == call[2] % P
            least == IF r <= P \div 2 THEN r ELSE P - r
        IN  /\ OnMontgomery(ret[1])
            /\ \E sign \in Signs :
                ElligatorRev(ret[1], [sign |-> sign, pad |-> 0])
                    = [ok |-> TRUE, hidden |-> [r |-> least, pad |-> 0]]

\* A key on the curve is hidden as a string of 254 bits that maps to it; it has
\* none exactly if no string maps to it, whatever the sign (monocypher.c:2687-2716).
HiddenMapsBack ==
    call[1] = "rev" /\ OnMontgomery(call[2]) =>
        /\ ret # <<>> => ret[1] <= P \div 2 /\ MapOf(ret[1]) = call[2]
        /\ ret = <<>> => call[2] \notin Images
=============================================================================
