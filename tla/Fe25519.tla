------------------------------- MODULE Fe25519 -------------------------------
(***************************************************************************)
(* Field elements of monocypher.c: ten signed limbs, of B + 1 bits where   *)
(* the index is even and B bits where it is odd, of a number modulo        *)
(* 2^(10 B + 5) - 19.  B is 25 in the code.  The tables are those of     *)
(* the unrolled code.                                                      *)
(***************************************************************************)
EXTENDS Integers, Sequences, FiniteSets, FiniteSetsExt

CONSTANTS
    B,
    Operands,  \* limbs that products and sums are taken with
    Smalls,    \* factors of fe_mul_small
    Buffers,   \* 32 bytes that callers decode
    Tight,     \* limbs that callers encode
    MaxSteps   \* bound of the model on a computation

I == 0 .. 9
Limbs == [I -> Int]
Bits(i) == IF i % 2 = 0 THEN B + 1 ELSE B
Weight(i) == B * i + (i + 1) \div 2  \* the exponent of limb i

FeAssumption ==
    /\ B \in Nat \ {0} /\ MaxSteps \in Nat
    /\ Operands \subseteq Limbs /\ Tight \subseteq Limbs /\ Smalls \subseteq Int
    /\ Buffers \subseteq [0 .. 31 -> 0 .. 255]

-----------------------------------------------------------------------------
(* The functions *)

Add(f, g) == [i \in I |-> f[i] + g[i]]
Minus(f, g) == [i \in I |-> f[i] - g[i]]

\* One line of FE_CARRY.
CarryLimb(t, i) ==
    LET c == (t[i] + 2 ^ (Bits(i) - 1)) \div 2 ^ Bits(i)
        next == IF i = 9 THEN 0 ELSE i + 1
    IN  [t EXCEPT ![i] = @ - c * 2 ^ Bits(i), ![next] = @ + (IF i = 9 THEN 19 * c ELSE c)]

CarryOrder == <<0, 4, 1, 5, 2, 6, 3, 7, 4, 8, 9, 0>>

Carry(t) ==
    LET line[k \in Nat, u \in Limbs] ==
            IF k > Len(CarryOrder) THEN u ELSE line[k + 1, CarryLimb(u, CarryOrder[k])]
    IN  line[1, t]

MulSmall(f, n) == Carry([i \in I |-> f[i] * n])

\* Term i of line k of fe_mul: the other limb and what it is multiplied by.  A
\* capital F is doubled, a capital G is times 19.
MulTerm(k, i) ==
    [g |-> (k - i) % 10,
     times |-> (IF k % 2 = 0 /\ i % 2 = 1 THEN 2 ELSE 1) * (IF i > k THEN 19 ELSE 1)]

Mul(f, g) ==
    Carry([k \in I |-> MapThenSumSet(LAMBDA i : f[i] * g[MulTerm(k, i).g] * MulTerm(k, i).times, I)])

\* A line of fe_sq: two limbs, and the product of what each is multiplied by.
SqTerms0 ==
    << <<0, 0, 1>>, <<1, 9, 76>>, <<2, 8, 38>>, <<3, 7, 76>>, <<4, 6, 38>>, <<5, 5, 38>> >>

SqTerms == <<
    SqTerms0,
    << <<0, 1, 2>>, <<2, 9, 38>>, <<3, 8, 38>>, <<4, 7, 38>>, <<5, 6, 38>> >>,
    << <<0, 2, 2>>, <<1, 1, 2>>, <<3, 9, 76>>, <<4, 8, 38>>, <<5, 7, 76>>, <<6, 6, 19>> >>,
    << <<0, 3, 2>>, <<1, 2, 2>>, <<4, 9, 38>>, <<5, 8, 38>>, <<6, 7, 38>> >>,
    << <<0, 4, 2>>, <<1, 3, 4>>, <<2, 2, 1>>, <<5, 9, 76>>, <<6, 8, 38>>, <<7, 7, 38>> >>,
    << <<0, 5, 2>>, <<1, 4, 2>>, <<2, 3, 2>>, <<6, 9, 38>>, <<7, 8, 38>> >>,
    << <<0, 6, 2>>, <<1, 5, 4>>, <<2, 4, 2>>, <<3, 3, 2>>, <<7, 9, 76>>, <<8, 8, 19>> >>,
    << <<0, 7, 2>>, <<1, 6, 2>>, <<2, 5, 2>>, <<3, 4, 2>>, <<8, 9, 38>> >>,
    << <<0, 8, 2>>, <<1, 7, 4>>, <<2, 6, 2>>, <<3, 5, 4>>, <<4, 4, 1>>, <<9, 9, 38>> >>,
    << <<0, 9, 2>>, <<1, 8, 2>>, <<2, 7, 2>>, <<3, 6, 2>>, <<4, 5, 2>> >> >>

Sq(f) ==
    Carry([k \in I |->
        LET line == SqTerms[k + 1]
        IN  MapThenSumSet(LAMBDA n : f[line[n][1]] * f[line[n][2]] * line[n][3], DOMAIN line)])

\* The loads of fe_frombytes: first byte, number of bytes, shift to the left.
Loads == << <<0, 4, 0>>, <<4, 3, 6>>, <<7, 3, 5>>, <<10, 3, 3>>, <<13, 3, 2>>,
            <<16, 4, 0>>, <<20, 3, 7>>, <<23, 3, 5>>, <<26, 3, 4>>, <<29, 3, 2>> >>

FromBytesMask(s, nbMask) ==
    LET load(at, n) == IF n = 4 THEN s[at] + 256 * s[at + 1] + 65536 * s[at + 2] + 16777216 * s[at + 3]
                       ELSE s[at] + 256 * s[at + 1] + 65536 * s[at + 2]
    IN  Carry([i \in I |->
            LET l == Loads[i + 1]
                v == load(l[1], l[2])
            IN  (IF i = 9 THEN v % 2 ^ (24 - nbMask) ELSE v) * 2 ^ l[3]])

\* Fault: the number is taken for non-negative.
NegativeNever(h) == 0

\* q of fe_tobytes: 0 if h is not negative, -1 if it is.
Negative(h) ==
    LET q[i \in 0 .. 10] ==
            IF i = 0 THEN (19 * h[9] + 2 ^ (B - 1)) \div 2 ^ B
            ELSE (q[i - 1] + h[i - 1]) \div 2 ^ Bits(i - 1)
    IN  q[10]

\* The limbs of fe_tobytes, each in its range from 0.
Reduced(h) ==
    LET sum[i \in I] ==
            h[i] + (IF i = 0 THEN 19 * Negative(h) ELSE sum[i - 1] \div 2 ^ Bits(i - 1))
    IN  [i \in I |-> sum[i] % 2 ^ Bits(i)]

\* The stores of fe_tobytes: a limb shifted right, and one shifted left.
Stores == << <<0, 0, 1, 26>>, <<1, 6, 2, 19>>, <<2, 13, 3, 13>>, <<3, 19, 4, 6>>,
             <<5, 0, 6, 25>>, <<6, 7, 7, 19>>, <<7, 13, 8, 12>>, <<8, 20, 9, 6>> >>

ToBytes(h) ==
    LET t == Reduced(h)
        bit(v, n) == IF n < 0 \/ n > B THEN 0 ELSE (v \div 2 ^ n) % 2
        stored(n) == LET s == Stores[(n \div 32) + 1]
                         right == bit(t[s[1]], (n % 32) + s[2])
                         left == bit(t[s[3]], (n % 32) - s[4])
                     IN  IF right = 1 \/ left = 1 THEN 1 ELSE 0
    IN  [j \in 0 .. 31 |-> MapThenSumSet(LAMBDA k : stored(8 * j + k) * 2 ^ k, 0 .. 7)]

IsOdd(f) == ToBytes(f)[0] % 2
IsEqual(f, g) == IF ToBytes(f) = ToBytes(g) THEN 1 ELSE 0

-----------------------------------------------------------------------------
(* The exponent of invsqrt: a power of x is the bits of its exponent, least first *)

Twice(e) == <<0>> \o e

Plus(a, b) ==
    LET bit(s, j) == IF j <= Len(s) THEN s[j] ELSE 0
        add[j \in Nat, c \in Nat, s \in Seq(Nat)] ==
            IF j > Len(a) /\ j > Len(b) THEN IF c = 0 THEN s ELSE Append(s, c)
            ELSE LET sum == bit(a, j) + bit(b, j) + c
                 IN  add[j + 1, sum \div 2, Append(s, sum % 2)]
    IN  add[1, 0, <<>>]

\* Squared n times, then times g.
Raised(e, n, g) == Plus([j \in 1 .. n |-> 0] \o e, g)

Exponent ==
    LET x == <<1>>
        sq == Twice(x)
        e9 == Raised(Twice(sq), 1, x)
        e31 == Raised(Plus(sq, e9), 1, e9)
        e10 == Raised(e31, 5, e31)
        e20 == Raised(e10, 10, e10)
        e40 == Raised(e20, 20, e20)
        e50 == Raised(e40, 10, e10)
        e100 == Raised(e50, 50, e50)
        e200 == Raised(e100, 100, e100)
        e250 == Raised(e200, 50, e50)
    IN  Raised(e250, 2, x)

-----------------------------------------------------------------------------
(* A computation on one element *)

VARIABLES
    f,       \* the element,
    value,   \* and the number it should be
    source,  \* the buffer it was decoded from
    left

vars == <<f, value, source, left>>

Modulus == 2 ^ (10 * B + 5) - 19
Value(h) == MapThenSumSet(LAMBDA i : h[i] * 2 ^ Weight(i), I)

Init ==
    /\ left = MaxSteps
    /\ \/ f \in Operands /\ value = Value(f) % Modulus /\ source = <<>>
       \/ source \in Buffers /\ f = FromBytesMask(source, 1) /\ value = 0
       \/ f \in Tight /\ source = <<>> /\ value = 0

Becomes(h, v) == f' = h /\ value' = v % Modulus /\ left' = left - 1 /\ UNCHANGED source

Multiply == \E g \in Operands : Becomes(Mul(f, g), value * (Value(g) % Modulus))
Square == Becomes(Sq(f), value * value)
Scale == \E n \in Smalls : Becomes(MulSmall(f, n), value * n)

\* Sums are not carried: the next operation is a product.
SumThenSquare ==
    \E g \in Operands :
        \/ Becomes(Sq(Add(f, g)), ((value + Value(g)) % Modulus) * ((value + Value(g)) % Modulus))
        \/ Becomes(Sq(Minus(f, g)), ((value - Value(g)) % Modulus) * ((value - Value(g)) % Modulus))

Next == left > 0 /\ (Multiply \/ Square \/ Scale \/ SumThenSquare)
Spec == Init /\ [][Next]_vars

-----------------------------------------------------------------------------
(* Properties *)

\* The limbs stand for the number, whatever was computed (monocypher.c:1109-1329).
LimbsHaveValue == Value(f) % Modulus = value

\* The exact carries of h + q times the modulus: what its sign is, and its limbs.
Exact(h, q) ==
    LET p(i) == q * (2 ^ Bits(i) - (IF i = 0 THEN 19 ELSE 1))
        sum[i \in I] ==
            h[i] + p(i) + (IF i = 0 THEN 0 ELSE sum[i - 1] \div 2 ^ Bits(i - 1))
    IN  [carry |-> sum[9] \div 2 ^ Bits(9), limbs |-> [i \in I |-> sum[i] % 2 ^ Bits(i)]]

\* Encoding is canonical: an element below zero is encoded as its sum with the modulus,
\* and each element has one encoding, which sign and comparison go by
\* (monocypher.c:1154-1188, 1332-1352).
EncodingIsCanonical ==
    LET least == Exact(f, IF Exact(f, 0).carry < 0 THEN 1 ELSE 0).limbs
    IN  /\ Reduced(f) = least
        /\ IsOdd(f) = least[0] % 2 /\ IsEqual(f, least) = 1

\* Decoding and encoding take every bit but the masked one to its place
\* (monocypher.c:1135-1144, 1190-1197).
BytesRoundTrip ==
    source # <<>> => ToBytes(f) = [source EXCEPT ![31] = @ % 128]

\* The chain of invsqrt raises to (p - 5) / 8 = 2^252 - 3 (monocypher.c:1418-1429).
ExponentIsRight ==
    left = MaxSteps => Exponent = [j \in 1 .. 252 |-> IF j = 2 THEN 0 ELSE 1]
=============================================================================
