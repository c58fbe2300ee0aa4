---------------------------- MODULE CryptoProofs ----------------------------
(***************************************************************************)
(* The properties of three functions of monocypher.c among the parts, for  *)
(* every value of the constants of their instances: Poly1305 with limbs of *)
(* any width and any keys and pieces, Argon2 with any calls, and Eddsa     *)
(* with any callers, in a memory of any size.  As in PartsProofs, a part   *)
(* is proved on its own and then found in the run of all.                  *)
(***************************************************************************)
EXTENDS MCParts, NumberLemmas, SequenceTheorems

LEMMA CryptoPartInit ==
    ASSUME PartsInit
    PROVE  /\ part = "poly1305" => Poly!Init
           /\ part = "argon2" => Argon!Init
           /\ part = "eddsa" => Sig!Init
<1> USE DEF PartsInit, ShaInit, TimerInit, ChachaInit, SessionInit, HalInit, EfuseInit,
        SandboxInit, GateInit, PolyInit, ArgonInit, SigInit
<1>1. part = "poly1305" => Poly!Init
  BY Zenon
<1>2. part = "argon2" => Argon!Init
  BY Zenon
<1>3. part = "eddsa" => Sig!Init
  BY Zenon
<1> QED
  BY <1>1, <1>2, <1>3

LEMMA CryptoPartNext ==
    ASSUME PartsNext
    PROVE  /\ part' = part
           /\ part = "poly1305" => Poly!Next
           /\ part = "argon2" => Argon!Next
           /\ part = "eddsa" => Sig!Next
<1> USE DEF PartsNext, ShaNext, TimerNext, ChachaNext, SessionNext, HalNext, EfuseNext,
        SandboxNext, GateNext, PolyNext, ArgonNext, SigNext
<1>1. part' = part
  BY Zenon DEF RestUnchanged
<1>2. part = "poly1305" => Poly!Next
  BY Zenon
<1>3. part = "argon2" => Argon!Next
  BY Zenon
<1>4. part = "eddsa" => Sig!Next
  BY Zenon
<1> QED
  BY <1>1, <1>2, <1>3, <1>4

\* Stuttering of all is stuttering of each.
LEMMA CryptoPartStep ==
    ASSUME [PartsNext]_partsVars
    PROVE  /\ part' = part
           /\ part = "poly1305" => [Poly!Next]_Poly!vars
           /\ part = "argon2" => [Argon!Next]_Argon!vars
           /\ part = "eddsa" => [Sig!Next]_Sig!vars
<1>1. CASE PartsNext
  BY <1>1, CryptoPartNext
<1>2. CASE UNCHANGED partsVars
  BY <1>2 DEF partsVars, Poly!vars, Argon!vars, Sig!vars
<1> QED
  BY <1>1, <1>2

-----------------------------------------------------------------------------
(* More of numbers: products, and functions defined by recursion. *)

LEMMA ProductInNat ==
    ASSUME NEW a \in Nat, NEW b \in Nat
    PROVE  a * b \in Nat
  OBVIOUS

\* f is the recursion from b by the steps of g.
Iterates(f, n, b, g) == f[0] = b /\ \A i \in 1 .. n : f[i] = g[i][f[i - 1]]

\* A function defined by recursion from 0 to n exists.
LEMMA Iterated ==
    ASSUME NEW n \in Nat, NEW V, NEW b \in V, NEW g \in [1 .. n -> [V -> V]]
    PROVE  \E f \in [0 .. n -> V] : Iterates(f, n, b, g)
<1> DEFINE Upto(k, f) == f[0] = b /\ \A i \in 1 .. k : f[i] = g[i][f[i - 1]]
           S == {k \in Nat : k <= n => \E f \in [0 .. k -> V] : Upto(k, f)}
<1>1. 0 \in S
  <2>1. [i \in 0 .. 0 |-> b] \in [0 .. 0 -> V] /\ Upto(0, [i \in 0 .. 0 |-> b])
    OBVIOUS
  <2> QED
    BY <2>1
<1>2. ASSUME NEW k \in Nat, k \in S
      PROVE  k + 1 \in S
  <2> SUFFICES ASSUME k + 1 <= n
               PROVE  \E f \in [0 .. k + 1 -> V] : Upto(k + 1, f)
    OBVIOUS
  <2>1. PICK f \in [0 .. k -> V] : Upto(k, f)
    BY <1>2
  <2> DEFINE h == [i \in 0 .. k + 1 |-> IF i = k + 1 THEN g[k + 1][f[k]] ELSE f[i]]
  <2>2. g[k + 1] \in [V -> V] /\ f[k] \in V
    OBVIOUS
  <2>3. h \in [0 .. k + 1 -> V]
    BY <2>2
  <2>4. h[0] = b
    BY <2>1
  <2>5. ASSUME NEW i \in 1 .. k + 1
        PROVE  h[i] = g[i][h[i - 1]]
    <3>1. CASE i = k + 1
      BY <3>1
    <3>2. CASE i # k + 1
      <4>1. i \in 1 .. k /\ i - 1 \in 0 .. k /\ i - 1 # k + 1
        BY <3>2
      <4> QED
        BY <2>1, <4>1
    <3> QED
      BY <3>1, <3>2
  <2> HIDE DEF h
  <2> QED
    BY <2>3, <2>4, <2>5
<1> HIDE DEF S
<1>3. n \in S
  BY <1>1, <1>2, Induction
<1>4. \E f \in [0 .. n -> V] : Upto(n, f)
  BY <1>3 DEF S
<1> QED
  BY <1>4 DEF Iterates
LEMMA Distributes ==
    ASSUME NEW a \in Int, NEW b \in Int, NEW c \in Int
    PROVE  a * (b + c) = a * b + a * c /\ (b + c) * a = b * a + c * a
  BY Z3

LEMMA ProductAssociates ==
    ASSUME NEW a \in Int, NEW b \in Int, NEW c \in Int
    PROVE  a * (b * c) = (a * b) * c /\ a * b = b * a
  BY Z3

\* A quotient by a product is taken in two steps.
LEMMA QuotientOfQuotient ==
    ASSUME NEW x \in Nat, NEW a \in Nat \ {0}, NEW b \in Nat \ {0}
    PROVE  (x \div a) \div b = x \div (a * b)
<1>1. PICK k \in Int, r \in 0 .. a - 1 : x = a * k + r /\ x \div a = k
  BY Quotient
<1>2. PICK l \in Int, s \in 0 .. b - 1 : k = b * l + s /\ k \div b = l
  BY Quotient
<1>3. x = (a * b) * l + (a * s + r)
  <2>1. a * (b * l + s) = (a * b) * l + a * s
    BY Z3
  <2> QED
    BY <1>1, <1>2, <2>1
<1>4. a * s + r \in 0 .. a * b - 1
  <2>1. a * (b - 1) = a * b - a /\ a * s \in Nat
    BY Z3
  <2>2. a * s <= a * (b - 1)
    BY Z3
  <2>3. a * b \in Nat
    BY Z3
  <2> QED
    BY <2>1, <2>2, <2>3
<1>5. a * b \in Nat \ {0}
  BY Z3
<1>6. x \div (a * b) = l
  BY <1>3, <1>4, <1>5, Remainder
<1> QED
  BY <1>1, <1>2, <1>6

\* A number in the radix.
LEMMA SplitNat ==
    ASSUME NEW R \in Nat \ {0}, NEW a \in Nat
    PROVE  \E k \in Nat, r \in 0 .. R - 1 : a = R * k + r /\ a \div R = k /\ a % R = r
<1>1. PICK k \in Int, r \in 0 .. R - 1 : a = R * k + r /\ a \div R = k /\ a % R = r
  BY Quotient
<1>2. k <= -1 => R * k <= -R
  BY Z3
<1>3. k \in Nat
  BY <1>1, <1>2
<1> QED
  BY <1>1, <1>3

LEMMA SplitByFour ==
    ASSUME NEW a \in Nat
    PROVE  \E k \in Nat, t \in 0 .. 3 : a = 4 * k + t /\ a \div 4 = k /\ a % 4 = t
<1> DEFINE four == 4
<1>1. four \in Nat \ {0} /\ four - 1 = 3
  OBVIOUS
<1> HIDE DEF four
<1>2. PICK k \in Nat, r \in 0 .. four - 1 : a = four * k + r /\ a \div four = k /\ a % four = r
  BY <1>1, SplitNat
<1>3. r \in 0 .. 3
  BY <1>1
<1> QED
  BY <1>2, <1>3, Zenon DEF four

\* A number below n times the radix carries less than n.
LEMMA CarryBelow ==
    ASSUME NEW R \in Nat \ {0}, NEW k \in Nat, NEW r \in 0 .. R - 1, NEW n \in Nat,
           R * k + r < n * R
    PROVE  k < n
<1>1. k >= n => R * k >= n * R
  BY Z3
<1> QED
  BY <1>1

LEMMA ProductBound ==
    ASSUME NEW a \in Nat, NEW b \in Nat, NEW c \in Nat, NEW d \in Nat, a <= c, b <= d
    PROVE  a * b \in Nat /\ c * d \in Nat /\ a * b <= c * d
<1>1. a * b <= c * b
  BY Z3
<1>2. c * b <= c * d
  BY Z3
<1>3. a * b \in Nat /\ c * b \in Nat /\ c * d \in Nat
  BY Z3
<1> QED
  BY <1>1, <1>2, <1>3

-----------------------------------------------------------------------------
(* Poly1305: powers of two, and the numbers that limbs stand for. *)

PolyBits == 4 * LimbBits + 2

LEMMA PowersMultiply ==
    ASSUME NEW a \in Nat, NEW b \in Nat, a + b <= PolyBits
    PROVE  2 ^ a \in Nat \ {0} /\ 2 ^ (a + b) = 2 ^ a * 2 ^ b
<1>1. LimbBits \in Nat /\ \A n \in 0 .. 4 * LimbBits + 1 : 2 ^ n \in Nat /\ 2 ^ (n + 1) = 2 * 2 ^ n
  BY PolyOk DEF Poly!PolyAssumption
<1> DEFINE T == {n \in Nat : n <= PolyBits => 2 ^ n \in Nat \ {0}}
<1>2. \A n \in Nat : n \in T
  <2>1. 2 ^ 0 = 1
    OBVIOUS
  <2>2. ASSUME NEW n \in Nat, n \in T
        PROVE  n + 1 \in T
    <3> SUFFICES ASSUME n + 1 <= PolyBits
                 PROVE  2 ^ (n + 1) \in Nat \ {0}
      OBVIOUS
    <3>1. n \in 0 .. 4 * LimbBits + 1 /\ n <= PolyBits
      BY <1>1 DEF PolyBits
    <3>2. 2 ^ n \in Nat \ {0} /\ 2 ^ (n + 1) = 2 * 2 ^ n
      BY <1>1, <2>2, <3>1
    <3> QED
      BY <3>2
  <2>3. 0 \in T
    BY <2>1
  <2> HIDE DEF T
  <2> QED
    BY <2>2, <2>3, Induction
<1>3. ASSUME NEW n \in Nat, n <= PolyBits
      PROVE  2 ^ n \in Nat \ {0}
  BY <1>2, <1>3
<1> HIDE DEF T
<1> DEFINE S == {n \in Nat : a + n <= PolyBits => 2 ^ (a + n) = 2 ^ a * 2 ^ n}
<1>4. 0 \in S
  <2>1. 2 ^ a \in Nat /\ 2 ^ 0 = 1 /\ a + 0 = a
    BY <1>1, <1>3 DEF PolyBits
  <2> QED
    BY <2>1
<1>5. ASSUME NEW n \in Nat, n \in S
      PROVE  n + 1 \in S
  <2> SUFFICES ASSUME a + (n + 1) <= PolyBits
               PROVE  2 ^ (a + (n + 1)) = 2 ^ a * 2 ^ (n + 1)
    OBVIOUS
  <2>1. /\ n \in 0 .. 4 * LimbBits + 1 /\ a + n \in 0 .. 4 * LimbBits + 1 /\ a + n <= PolyBits
        /\ n <= PolyBits /\ a <= PolyBits
    BY <1>1 DEF PolyBits
  <2>2. 2 ^ (n + 1) = 2 * 2 ^ n /\ 2 ^ ((a + n) + 1) = 2 * 2 ^ (a + n)
    BY <1>1, <2>1
  <2>3. 2 ^ (a + n) = 2 ^ a * 2 ^ n
    BY <1>5, <2>1
  <2>4. 2 ^ a \in Nat /\ 2 ^ n \in Nat
    BY <1>3, <2>1
  <2> DEFINE x == 2 ^ a
             y == 2 ^ n
  <2>5. 2 * (x * y) = x * (2 * y)
    <3>1. x \in Nat /\ y \in Nat
      BY <2>4
    <3> HIDE DEF x, y
    <3> QED
      BY <3>1, Z3
  <2>6. a + (n + 1) = (a + n) + 1
    OBVIOUS
  <2> QED
    BY <2>2, <2>3, <2>5, <2>6
<1> HIDE DEF S
<1>6. b \in S
  BY <1>4, <1>5, Induction
<1>7. a <= PolyBits
  BY <1>1 DEF PolyBits
<1> QED
  BY <1>3, <1>6, <1>7 DEF S

\* The radix of a limb, and what else is a power of two.
LEMMA PolySizes ==
    /\ Poly!L \in Nat /\ Poly!L >= 128
    /\ Poly!LL = Poly!L * Poly!L /\ 2 ^ (4 * LimbBits) = Poly!LL * Poly!LL
    /\ 2 ^ PolyBits = 4 * (Poly!LL * Poly!LL) /\ Poly!Modulus = 4 * (Poly!LL * Poly!LL) - 5
<1>1. LimbBits \in Nat /\ LimbBits >= 7
  BY PolyOk DEF Poly!PolyAssumption
<1> DEFINE W == LimbBits
<1>2. 2 ^ (7 + (W - 7)) = 2 ^ 7 * 2 ^ (W - 7) /\ 2 ^ (W - 7) \in Nat \ {0}
  <2>1. 7 \in Nat /\ W - 7 \in Nat /\ 7 + (W - 7) <= PolyBits /\ W - 7 + 0 <= PolyBits
    BY <1>1 DEF PolyBits
  <2> QED
    BY <2>1, PowersMultiply
<1>3. 2 ^ 7 = 128 /\ 7 + (W - 7) = W /\ 2 ^ 2 = 4
  BY <1>1
<1>4. Poly!L \in Nat /\ Poly!L >= 128
  BY <1>2, <1>3 DEF Poly!L
<1>5. 2 ^ (W + W) = 2 ^ W * 2 ^ W /\ 2 ^ (2 * W + 2 * W) = 2 ^ (2 * W) * 2 ^ (2 * W)
  <2>1. W \in Nat /\ W + W <= PolyBits /\ 2 * W \in Nat /\ 2 * W + 2 * W <= PolyBits
    BY <1>1 DEF PolyBits
  <2> QED
    BY <2>1, PowersMultiply
<1>6. 2 ^ (4 * W + 2) = 2 ^ (4 * W) * 2 ^ 2
  <2>1. 4 * W \in Nat /\ 2 \in Nat /\ 4 * W + 2 <= PolyBits
    BY <1>1 DEF PolyBits
  <2> QED
    BY <2>1, PowersMultiply
<1>7. W + W = 2 * W /\ 2 * W + 2 * W = 4 * W
  BY <1>1
<1>8. Poly!LL = Poly!L * Poly!L /\ 2 ^ (4 * W) = Poly!LL * Poly!LL
  BY <1>5, <1>7 DEF Poly!L, Poly!LL
<1> DEFINE q == Poly!LL * Poly!LL
<1>9. q \in Nat
  BY <1>4, <1>8, Z3
<1>10. 2 ^ PolyBits = 4 * q
  BY <1>3, <1>6, <1>8, <1>9 DEF PolyBits
<1>11. Poly!Modulus = 2 ^ PolyBits - 5
  BY DEF Poly!Modulus, PolyBits
<1> HIDE DEF q
<1>12. Poly!Modulus = 4 * q - 5
  BY <1>10, <1>11
<1> QED
  BY <1>4, <1>8, <1>10, <1>12 DEF q

\* The limbs from the highest down.
LEMMA ValueByLimbs ==
    ASSUME NEW s \in Seq(Int)
    PROVE  \E f \in [0 .. Len(s) -> Int] :
              /\ f[0] = 0 /\ Poly!Value(s) = f[Len(s)]
              /\ \A i \in 1 .. Len(s) : f[i] = f[i - 1] * Poly!L + s[Len(s) + 1 - i]
<1> DEFINE n == Len(s)
           value == CHOOSE value : value = [i \in 0 .. Len(s) |->
                        IF i = 0 THEN 0 ELSE value[i - 1] * Poly!L + s[Len(s) + 1 - i]]
           g == [i \in 1 .. n |-> [v \in Int |-> v * Poly!L + s[n + 1 - i]]]
<1>1. n \in Nat /\ \A i \in 1 .. n : s[n + 1 - i] \in Int
  OBVIOUS
<1>2. PICK f \in [0 .. n -> Int] : Iterates(f, n, 0, g)
  <2>1. Poly!L \in Int
    BY PolySizes
  <2>2. g \in [1 .. n -> [Int -> Int]]
    <3>1. \A i \in 1 .. n, v \in Int : v * Poly!L + s[n + 1 - i] \in Int
      BY <1>1, <2>1, Z3
    <3> QED
      BY <3>1
  <2>3. n \in Nat /\ 0 \in Int
    BY <1>1
  <2> HIDE DEF n, g, value
  <2> QED
    BY <2>2, <2>3, Iterated, Zenon
<1>3. \A i \in 1 .. n : f[i] = f[i - 1] * Poly!L + s[n + 1 - i]
  <2> SUFFICES ASSUME NEW i \in 1 .. n
               PROVE  f[i] = f[i - 1] * Poly!L + s[n + 1 - i]
    OBVIOUS
  <2>1. f[i - 1] \in Int
    OBVIOUS
  <2> QED
    BY <1>2, <2>1 DEF Iterates
<1>4. f = [i \in 0 .. Len(s) |-> IF i = 0 THEN 0 ELSE f[i - 1] * Poly!L + s[Len(s) + 1 - i]]
  <2>1. \A i \in 0 .. n : i # 0 => i \in 1 .. n
    OBVIOUS
  <2> QED
    BY <1>2, <1>3, <2>1 DEF Iterates
<1>5. value = [i \in 0 .. Len(s) |-> IF i = 0 THEN 0 ELSE value[i - 1] * Poly!L + s[Len(s) + 1 - i]]
  BY <1>4, Zenon
<1>6. Poly!Value(s) = value[n]
  BY Zenon DEF Poly!Value
<1>7. value \in [0 .. n -> Int] /\ value[0] = 0
      /\ \A i \in 1 .. n : value[i] = value[i - 1] * Poly!L + s[n + 1 - i]
  <2> DEFINE S == {i \in Nat : i <= n => value[i] = f[i]}
  <2>1. value[0] = 0 /\ \A i \in 1 .. n : value[i] = value[i - 1] * Poly!L + s[n + 1 - i]
    <3> HIDE DEF value
    <3> QED
      BY <1>1, <1>5
  <2> HIDE DEF value
  <2>2. 0 \in S
    BY <1>2, <2>1 DEF Iterates
  <2>3. ASSUME NEW i \in Nat, i \in S
        PROVE  i + 1 \in S
    <3> SUFFICES ASSUME i + 1 <= n
                 PROVE  value[i + 1] = f[i + 1]
      OBVIOUS
    <3>1. i + 1 \in 1 .. n /\ (i + 1) - 1 = i /\ value[i] = f[i]
      BY <2>3
    <3> QED
      BY <1>3, <2>1, <3>1
  <2> HIDE DEF S
  <2>4. \A i \in Nat : i \in S
    BY <2>2, <2>3, Induction
  <2>5. \A i \in 0 .. n : value[i] = f[i]
    BY <2>4 DEF S
  <2>6. value = f
    BY <1>5, <2>5
  <2> QED
    BY <2>1, <2>6
<1> HIDE DEF value
<1> QED
  BY <1>6, <1>7

\* The sequences of the code are of three to five limbs.
LEMMA ValueOf ==
    ASSUME NEW s \in Seq(Int), Len(s) \in 1 .. 5
    PROVE  /\ Poly!Value(s) \in Int
           /\ Len(s) = 1 => Poly!Value(s) = s[1]
           /\ Len(s) = 2 => Poly!Value(s) = s[2] * Poly!L + s[1]
           /\ Len(s) = 3 => Poly!Value(s) = (s[3] * Poly!L + s[2]) * Poly!L + s[1]
           /\ Len(s) = 4 =>
                Poly!Value(s) = ((s[4] * Poly!L + s[3]) * Poly!L + s[2]) * Poly!L + s[1]
           /\ Len(s) = 5 =>
                Poly!Value(s) = (((s[5] * Poly!L + s[4]) * Poly!L + s[3]) * Poly!L + s[2]) * Poly!L + s[1]
<1>1. PICK f \in [0 .. Len(s) -> Int] :
              /\ f[0] = 0 /\ Poly!Value(s) = f[Len(s)]
              /\ \A i \in 1 .. Len(s) : f[i] = f[i - 1] * Poly!L + s[Len(s) + 1 - i]
  BY ValueByLimbs
<1> DEFINE n == Len(s)
           R == Poly!L
<1>2. R \in Int /\ n \in 1 .. 5 /\ \A i \in 1 .. n : s[i] \in Int
  BY PolySizes
<1>3. f[1] = s[n]
  <2>1. 1 \in 1 .. n /\ 1 - 1 = 0 /\ n + 1 - 1 = n
    BY <1>2
  <2>2. f[1] = f[1 - 1] * R + s[n + 1 - 1]
    BY <1>1, <2>1
  <2>3. f[1] = 0 * R + s[n]
    BY <1>1, <2>1, <2>2
  <2>4. s[n] \in Int
    BY <1>2
  <2> HIDE DEF n, R
  <2> QED
    BY <1>2, <2>3, <2>4
<1>4. n >= 2 => f[2] = f[1] * R + s[n - 1]
  BY <1>1, <1>2
<1>5. n >= 3 => f[3] = f[2] * R + s[n - 2]
  BY <1>1, <1>2
<1>6. n >= 4 => f[4] = f[3] * R + s[n - 3]
  BY <1>1, <1>2
<1>7. n >= 5 => f[5] = f[4] * R + s[n - 4]
  BY <1>1, <1>2
<1>8. Poly!Value(s) = f[n] /\ f[n] \in Int
  BY <1>1
<1> HIDE DEF n, R
<1>9. /\ n = 1 => f[n] = s[1]
      /\ n = 2 => f[n] = s[2] * R + s[1]
      /\ n = 3 => f[n] = (s[3] * R + s[2]) * R + s[1]
  BY <1>3, <1>4, <1>5
<1>10. n = 4 => f[n] = ((s[4] * R + s[3]) * R + s[2]) * R + s[1]
  BY <1>3, <1>4, <1>5, <1>6
<1>11. n = 5 => f[n] = (((s[5] * R + s[4]) * R + s[3]) * R + s[2]) * R + s[1]
  BY <1>3, <1>4, <1>5, <1>6, <1>7
<1> QED
  BY <1>8, <1>9, <1>10, <1>11 DEF n, R

\* What a bound on a product with the radix says of a carry.
LEMMA CarryIsSmall ==
    ASSUME NEW R \in Nat, R >= 128, NEW k \in Int, NEW r \in 0 .. R - 1, NEW p \in Nat,
           p = R * k + r, 16 * p <= 10 * (R * R)
    PROVE  k \in Nat /\ 16 * k <= 10 * R /\ p < R * R
<1>1. k >= 0
  <2>1. k <= -1 => R * k <= -R
    BY Z3
  <2> QED
    BY <2>1
<1>2. 16 * k <= 10 * R
  <2>1. 16 * k > 10 * R => R * (16 * k) > R * (10 * R)
    BY Z3
  <2>2. R * (16 * k) = 16 * (R * k) /\ R * (10 * R) = 10 * (R * R)
    BY Z3
  <2>3. R * k \in Int /\ R * R \in Int
    BY Z3
  <2> QED
    BY <2>1, <2>2, <2>3
<1>3. p < R * R
  <2>1. R * R \in Nat /\ R * R > 0
    BY Z3
  <2> QED
    BY <2>1
<1> QED
  BY <1>1, <1>2, <1>3

\* Powers of the radix gathered, in the order of the carries.
LEMMA CarriedSum ==
    ASSUME NEW R \in Int,
           NEW r1 \in Int, NEW r2 \in Int, NEW r3 \in Int, NEW r4 \in Int,
           NEW k1 \in Int, NEW k2 \in Int, NEW k3 \in Int, NEW k4 \in Int,
           NEW p5 \in Int, NEW q \in Int, NEW t \in Int, p5 + k4 = 4 * q + t,
           NEW m0 \in Int, NEW m1 \in Int, NEW m2 \in Int, NEW m3 \in Int,
           NEW h0 \in Int, NEW h1 \in Int, NEW h2 \in Int, NEW h3 \in Int,
           5 * q + r1 = R * m0 + h0, m0 + r2 + k1 = R * m1 + h1, m1 + r3 + k2 = R * m2 + h2,
           m2 + r4 + k3 = R * m3 + h3
    PROVE  ((((m3 + t) * R + h3) * R + h2) * R + h1) * R + h0
               = ((((p5 * R + (R * k4 + r4)) * R + (R * k3 + r3)) * R + (R * k2 + r2)) * R
                     + (R * k1 + r1)) - q * (4 * ((R * R) * (R * R)) - 5)
<1>1. (m3 + t) * R + h3 = t * R + (m2 + r4 + k3)
  BY Z3
<1>2. (t * R + (m2 + r4 + k3)) * R + h2 = (t * R + (r4 + k3)) * R + (m1 + r3 + k2)
  BY Z3
<1>3. ((t * R + (r4 + k3)) * R + (m1 + r3 + k2)) * R + h1
         = ((t * R + (r4 + k3)) * R + (r3 + k2)) * R + (m0 + r2 + k1)
  BY Z3
<1>4. (((t * R + (r4 + k3)) * R + (r3 + k2)) * R + (m0 + r2 + k1)) * R + h0
         = (((t * R + (r4 + k3)) * R + (r3 + k2)) * R + (r2 + k1)) * R + (5 * q + r1)
  BY Z3
<1>5. t = p5 + k4 - 4 * q
  OBVIOUS
<1>6. ((((p5 + k4 - 4 * q) * R + (r4 + k3)) * R + (r3 + k2)) * R + (r2 + k1)) * R + (5 * q + r1)
         = ((((p5 * R + (R * k4 + r4)) * R + (R * k3 + r3)) * R + (R * k2 + r2)) * R
               + (R * k1 + r1)) - q * (4 * ((R * R) * (R * R)) - 5)
  BY Z3
<1>7. ((((m3 + t) * R + h3) * R + h2) * R + h1) * R + h0
         = (((t * R + (r4 + k3)) * R + (r3 + k2)) * R + (r2 + k1)) * R + (5 * q + r1)
  BY <1>1, <1>2, <1>3, <1>4, Zenon
<1> QED
  BY <1>5, <1>6, <1>7, Zenon

\* The limbs of a hash: all below the radix but the highest, which is partly reduced.
HashLimbs == {s \in Seq(Nat) : Len(s) = 5 /\ s[5] <= 4 /\ \A i \in 1 .. 4 : s[i] < Poly!L}

LEMMA FiveLimbs ==
    ASSUME NEW p \in Seq(Nat), Len(p) = 5
    PROVE  /\ p[1] \in Nat /\ p[2] \in Nat /\ p[3] \in Nat /\ p[4] \in Nat /\ p[5] \in Nat
           /\ p[5] <= 15 => p[5] \in 0 .. 15
<1>1. p \in [1 .. 5 -> Nat]
  BY LenProperties
<1> QED
  BY <1>1

\* The carries leave the number as it is, but for a multiple of the modulus.
LEMMA CarryBlockIs ==
    ASSUME NEW p \in Seq(Nat), Len(p) = 5, p[5] <= 15,
           \A i \in 1 .. 4 : 16 * p[i] <= 10 * Poly!LL
    PROVE  /\ Poly!CarryBlock(p) \in HashLimbs
           /\ \E q \in Nat : Poly!Value(Poly!CarryBlock(p)) = Poly!Value(p) - q * Poly!Modulus
           /\ \A i \in 1 .. 4 : p[i] < Poly!LL
           /\ p[5] + p[4] \div Poly!L < Poly!L
           /\ ((p[5] + p[4] \div Poly!L) \div 4) * 5 < Poly!L
<1> DEFINE R == Poly!L
           a1 == p[1]
           a2 == p[2]
           a3 == p[3]
           a4 == p[4]
           a5 == p[5]
<1>1. /\ R \in Nat \ {0} /\ R >= 128 /\ Poly!LL = R * R
      /\ Poly!Modulus = 4 * ((R * R) * (R * R)) - 5
  BY PolySizes
<1>2. a1 \in Nat /\ a2 \in Nat /\ a3 \in Nat /\ a4 \in Nat /\ a5 \in 0 .. 15
  BY FiveLimbs
<1>3. /\ 16 * a1 <= 10 * Poly!LL /\ 16 * a2 <= 10 * Poly!LL
      /\ 16 * a3 <= 10 * Poly!LL /\ 16 * a4 <= 10 * Poly!LL
  OBVIOUS
<1> HIDE DEF R, a1, a2, a3, a4, a5
<1>4. PICK k1 \in Nat, r1 \in 0 .. R - 1 :
          a1 = R * k1 + r1 /\ a1 \div R = k1 /\ a1 % R = r1
  BY <1>1, <1>2, SplitNat
<1>5. PICK k2 \in Nat, r2 \in 0 .. R - 1 :
          a2 = R * k2 + r2 /\ a2 \div R = k2 /\ a2 % R = r2
  BY <1>1, <1>2, SplitNat
<1>6. PICK k3 \in Nat, r3 \in 0 .. R - 1 :
          a3 = R * k3 + r3 /\ a3 \div R = k3 /\ a3 % R = r3
  BY <1>1, <1>2, SplitNat
<1>7. PICK k4 \in Nat, r4 \in 0 .. R - 1 :
          a4 = R * k4 + r4 /\ a4 \div R = k4 /\ a4 % R = r4
  BY <1>1, <1>2, SplitNat
<1>8. /\ 16 * k1 <= 10 * R /\ a1 < R * R
      /\ 16 * k2 <= 10 * R /\ a2 < R * R
      /\ 16 * k3 <= 10 * R /\ a3 < R * R
      /\ 16 * k4 <= 10 * R /\ a4 < R * R
  <2>1. 16 * k1 <= 10 * R /\ a1 < R * R
    <3>1. R \in Nat /\ R >= 128 /\ k1 \in Int /\ a1 = R * k1 + r1 /\ 16 * a1 <= 10 * (R * R)
      BY <1>1, <1>3, <1>4
    <3> QED
      BY <1>2, <3>1, CarryIsSmall
  <2>2. 16 * k2 <= 10 * R /\ a2 < R * R
    <3>1. R \in Nat /\ R >= 128 /\ k2 \in Int /\ a2 = R * k2 + r2 /\ 16 * a2 <= 10 * (R * R)
      BY <1>1, <1>3, <1>5
    <3> QED
      BY <1>2, <3>1, CarryIsSmall
  <2>3. 16 * k3 <= 10 * R /\ a3 < R * R
    <3>1. R \in Nat /\ R >= 128 /\ k3 \in Int /\ a3 = R * k3 + r3 /\ 16 * a3 <= 10 * (R * R)
      BY <1>1, <1>3, <1>6
    <3> QED
      BY <1>2, <3>1, CarryIsSmall
  <2>4. 16 * k4 <= 10 * R /\ a4 < R * R
    <3>1. R \in Nat /\ R >= 128 /\ k4 \in Int /\ a4 = R * k4 + r4 /\ 16 * a4 <= 10 * (R * R)
      BY <1>1, <1>3, <1>7
    <3> QED
      BY <1>2, <3>1, CarryIsSmall
  <2> QED
    BY <2>1, <2>2, <2>3, <2>4
<1> DEFINE u5 == a5 + k4
<1>9. u5 \in Nat /\ u5 < R /\ 5 * u5 < 4 * R
  <2>1. 16 * k4 <= 10 * R
    BY <1>8
  <2> QED
    BY <1>1, <1>2, <2>1
<1> HIDE DEF u5
<1>10. PICK q \in Nat, t \in 0 .. 3 : u5 = 4 * q + t /\ u5 \div 4 = q /\ u5 % 4 = t
  BY <1>9, SplitByFour
<1>five. q * 5 = 5 * q /\ 5 * q \in Nat /\ 5 * q < R
  <2>1. u5 = 4 * q + t /\ 5 * u5 < 4 * R /\ R \in Nat /\ q \in Nat /\ t \in Nat
    BY <1>1, <1>9, <1>10
  <2> QED
    BY <2>1
<1> DEFINE u0 == 5 * q + r1
<1>11. u0 \in Nat /\ u0 < 3 * R
  <2>1. 4 * q < R
    <3>1. u5 = 4 * q + t /\ u5 < R /\ R \in Nat
      BY <1>1, <1>9, <1>10
    <3> QED
      BY <3>1
  <2> QED
    BY <1>1, <2>1
<1> HIDE DEF u0
<1>12. PICK m0 \in Nat, h0 \in 0 .. R - 1 :
          u0 = R * m0 + h0 /\ u0 \div R = m0 /\ u0 % R = h0
  BY <1>1, <1>11, SplitNat
<1>13. m0 < 3
  BY <1>1, <1>11, <1>12, CarryBelow
<1> DEFINE u1 == m0 + r2 + k1
<1>14. u1 \in Nat /\ u1 < 2 * R
  <2>1. 16 * k1 <= 10 * R
    BY <1>8
  <2> QED
    BY <1>1, <1>13, <2>1
<1> HIDE DEF u1
<1>15. PICK m1 \in Nat, h1 \in 0 .. R - 1 :
          u1 = R * m1 + h1 /\ u1 \div R = m1 /\ u1 % R = h1
  BY <1>1, <1>14, SplitNat
<1>16. m1 < 2
  BY <1>1, <1>14, <1>15, CarryBelow
<1> DEFINE u2 == m1 + r3 + k2
<1>17. u2 \in Nat /\ u2 < 2 * R
  <2>1. 16 * k2 <= 10 * R
    BY <1>8
  <2> QED
    BY <1>1, <1>16, <2>1
<1> HIDE DEF u2
<1>18. PICK m2 \in Nat, h2 \in 0 .. R - 1 :
          u2 = R * m2 + h2 /\ u2 \div R = m2 /\ u2 % R = h2
  BY <1>1, <1>17, SplitNat
<1>19. m2 < 2
  BY <1>1, <1>17, <1>18, CarryBelow
<1> DEFINE u3 == m2 + r4 + k3
<1>20. u3 \in Nat /\ u3 < 2 * R
  <2>1. 16 * k3 <= 10 * R
    BY <1>8
  <2> QED
    BY <1>1, <1>19, <2>1
<1> HIDE DEF u3
<1>21. PICK m3 \in Nat, h3 \in 0 .. R - 1 :
          u3 = R * m3 + h3 /\ u3 \div R = m3 /\ u3 % R = h3
  BY <1>1, <1>20, SplitNat
<1>22. m3 < 2
  BY <1>1, <1>20, <1>21, CarryBelow
<1>23. R * R \in Nat \ {0} /\ 3 * R < R * R
  BY <1>1, Z3
\* What the code cuts to a word has its size.
<1>24. ASSUME NEW a \in Nat, a < R * R
       PROVE  Poly!U64(a) = a
  <2> DEFINE RR == R * R
  <2>1. RR \in Nat \ {0} /\ a < RR /\ Poly!LL = RR
    BY <1>1, <1>23, <1>24
  <2> HIDE DEF RR
  <2>2. a \in 0 .. RR - 1
    BY <2>1
  <2>3. a % RR = a
    BY <2>1, <2>2, RemainderOfSmall
  <2> QED
    BY <2>1, <2>3 DEF Poly!U64
<1>25. ASSUME NEW a \in Nat, a < R
       PROVE  Poly!U32(a) = a
  <2>1. a \in 0 .. R - 1
    BY <1>1, <1>25
  <2>2. a % R = a
    BY <1>1, <2>1, RemainderOfSmall
  <2> QED
    BY <2>2 DEF Poly!U32, R
<1>26. /\ Poly!U64(a1) = a1 /\ Poly!U64(a2) = a2 /\ Poly!U64(a3) = a3 /\ Poly!U64(a4) = a4
  BY <1>2, <1>8, <1>24
<1>27. Poly!U64(u0) = u0 /\ Poly!U64(u1) = u1 /\ Poly!U64(u2) = u2 /\ Poly!U64(u3) = u3
  <2> DEFINE RR == R * R
  <2>1. RR \in Nat /\ 3 * R < RR
    BY <1>23
  <2> HIDE DEF RR
  <2>2. u0 < RR /\ u1 < RR /\ u2 < RR /\ u3 < RR
    BY <1>1, <1>11, <1>14, <1>17, <1>20, <2>1
  <2>3. u0 < R * R /\ u1 < R * R /\ u2 < R * R /\ u3 < R * R
    BY <2>2, Zenon DEF RR
  <2> QED
    BY <1>11, <1>14, <1>17, <1>20, <1>24, <2>3
<1>28. /\ Poly!U32(5 * q) = 5 * q /\ Poly!U32(u5) = u5 /\ Poly!U32(m3 + t) = m3 + t
  BY <1>1, <1>2, <1>9, <1>22, <1>25, <1>five
<1>29. Poly!CarryBlock(p) = <<h0, h1, h2, h3, m3 + t>>
  <2> DEFINE x == [i \in 1 .. 4 |-> Poly!U64(p[i])]
             y5 == Poly!U32(p[5] + x[4] \div Poly!L)
             y0 == Poly!U64(Poly!U32((y5 \div 4) * 5) + (x[1] % Poly!L))
             y1 == Poly!U64(y0 \div Poly!L + (x[2] % Poly!L) + x[1] \div Poly!L)
             y2 == Poly!U64(y1 \div Poly!L + (x[3] % Poly!L) + x[2] \div Poly!L)
             y3 == Poly!U64(y2 \div Poly!L + (x[4] % Poly!L) + x[3] \div Poly!L)
  <2>1. x[1] = a1 /\ x[2] = a2 /\ x[3] = a3 /\ x[4] = a4
    BY <1>26 DEF a1, a2, a3, a4
  <2>2. Poly!CarryBlock(p) = <<Poly!U32(y0), Poly!U32(y1), Poly!U32(y2), Poly!U32(y3),
                               Poly!U32(y3 \div Poly!L + (y5 % 4))>>
    BY Zenon DEF Poly!CarryBlock
  <2> HIDE DEF x
  <2>3. y5 = u5
    BY <1>7, <1>28, <2>1, Zenon DEF R, u5, a5
  <2> HIDE DEF y5
  <2>4. y0 = u0
    <3>1. Poly!U32((u5 \div 4) * 5) + (x[1] % R) = u0
      <4>1. u5 \div 4 = q /\ x[1] % R = r1
        BY <1>4, <1>10, <2>1
      <4>2. Poly!U32((u5 \div 4) * 5) = 5 * q
        BY <1>28, <1>five, <4>1, Zenon
      <4> QED
        BY <4>1, <4>2, Zenon DEF u0
    <3> QED
      BY <1>27, <2>3, <3>1, Zenon DEF R
  <2> HIDE DEF y0
  <2>5. y1 = u1
    BY <1>4, <1>5, <1>12, <1>27, <2>1, <2>4, Zenon DEF R, u1
  <2> HIDE DEF y1
  <2>6. y2 = u2
    BY <1>5, <1>6, <1>15, <1>27, <2>1, <2>5, Zenon DEF R, u2
  <2> HIDE DEF y2
  <2>7. y3 = u3
    BY <1>6, <1>7, <1>18, <1>27, <2>1, <2>6, Zenon DEF R, u3
  <2> HIDE DEF y3
  <2>8. Poly!U32(y0) = h0 /\ Poly!U32(y1) = h1 /\ Poly!U32(y2) = h2 /\ Poly!U32(y3) = h3
    BY <1>12, <1>15, <1>18, <1>21, <2>4, <2>5, <2>6, <2>7, Zenon DEF Poly!U32, R
  <2>9. Poly!U32(y3 \div Poly!L + (y5 % 4)) = m3 + t
    BY <1>10, <1>21, <1>28, <2>3, <2>7, Zenon DEF R
  <2> QED
    BY <2>2, <2>8, <2>9, Zenon
<1> DEFINE h == <<h0, h1, h2, h3, m3 + t>>
<1>30. h \in Seq(Nat) /\ Len(h) = 5
       /\ h[1] = h0 /\ h[2] = h1 /\ h[3] = h2 /\ h[4] = h3 /\ h[5] = m3 + t
  BY <1>1
<1> HIDE DEF h
<1>31. h \in HashLimbs
  <2>1. h[5] <= 4 /\ h[1] < R /\ h[2] < R /\ h[3] < R /\ h[4] < R
    BY <1>1, <1>22, <1>30
  <2> QED
    BY <1>30, <2>1 DEF HashLimbs, R
<1>32. Poly!Value(h) = ((((m3 + t) * R + h3) * R + h2) * R + h1) * R + h0
  <2>1. h \in Seq(Int) /\ Len(h) \in 1 .. 5 /\ Len(h) = 5
    BY <1>30
  <2>2. Poly!Value(h) = (((h[5] * R + h[4]) * R + h[3]) * R + h[2]) * R + h[1]
    BY <2>1, ValueOf DEF R
  <2> QED
    BY <1>30, <2>2, Zenon
<1>33. Poly!Value(p) = (((a5 * R + (R * k4 + r4)) * R + (R * k3 + r3)) * R + (R * k2 + r2)) * R
                     + (R * k1 + r1)
  <2>1. p \in Seq(Int) /\ Len(p) \in 1 .. 5
    OBVIOUS
  <2>2. Poly!Value(p) = (((a5 * R + a4) * R + a3) * R + a2) * R + a1
    BY <2>1, ValueOf DEF R, a1, a2, a3, a4, a5
  <2> QED
    BY <1>4, <1>5, <1>6, <1>7, <2>2, Zenon
<1>34. Poly!Value(h) = Poly!Value(p) - q * Poly!Modulus
  <2>1. /\ a5 + k4 = 4 * q + t /\ 5 * q + r1 = R * m0 + h0 /\ m0 + r2 + k1 = R * m1 + h1
        /\ m1 + r3 + k2 = R * m2 + h2 /\ m2 + r4 + k3 = R * m3 + h3
    BY <1>10, <1>12, <1>15, <1>18, <1>21, Zenon DEF u0, u1, u2, u3, u5
  <2>2. /\ R \in Int /\ r1 \in Int /\ r2 \in Int /\ r3 \in Int /\ r4 \in Int /\ a5 \in Int
        /\ t \in Int /\ h0 \in Int /\ h1 \in Int /\ h2 \in Int /\ h3 \in Int /\ q \in Int
        /\ k1 \in Int /\ k2 \in Int /\ k3 \in Int /\ k4 \in Int
        /\ m0 \in Int /\ m1 \in Int /\ m2 \in Int /\ m3 \in Int
    BY <1>1, <1>2
  <2>3. ((((m3 + t) * R + h3) * R + h2) * R + h1) * R + h0
               = ((((a5 * R + (R * k4 + r4)) * R + (R * k3 + r3)) * R + (R * k2 + r2)) * R
                     + (R * k1 + r1)) - q * (4 * ((R * R) * (R * R)) - 5)
    <3> HIDE DEF h
    <3> QED
      BY <2>1, <2>2, CarriedSum, SMTT(30)
  <2>4. Poly!Modulus = 4 * ((R * R) * (R * R)) - 5
    BY <1>1, Zenon
  <2> HIDE DEF h
  <2> QED
    BY <1>32, <1>33, <2>3, <2>4, Zenon
<1>35. \A i \in 1 .. 4 : p[i] < Poly!LL
  <2>1. a1 < Poly!LL /\ a2 < Poly!LL /\ a3 < Poly!LL /\ a4 < Poly!LL
    BY <1>1, <1>8, Zenon
  <2> QED
    BY <2>1 DEF a1, a2, a3, a4
<1>36. p[5] + p[4] \div Poly!L < Poly!L
  BY <1>7, <1>9, Zenon DEF R, u5, a4, a5
<1>37. ((p[5] + p[4] \div Poly!L) \div 4) * 5 < Poly!L
  BY <1>7, <1>10, <1>five, Zenon DEF R, u5, a4, a5
<1> QED
  BY <1>29, <1>31, <1>34, <1>35, <1>36, <1>37, Zenon DEF h

\* The limbs of a clamped r: small, and but for the lowest multiples of four.
ClampedLimbs == {r \in Seq(Nat) : Len(r) = 4 /\ \A i \in 1 .. 4 : 16 * r[i] <= Poly!L /\ (i > 1 => r[i] % 4 = 0)}

MessageLimbs == {s \in Seq(Nat) : Len(s) = 4 /\ \A i \in 1 .. 4 : s[i] < Poly!L}

\* A limb of a sum and one of the key.
LEMMA LimbProduct ==
    ASSUME NEW R \in Nat, NEW a \in Nat, NEW b \in Nat, a <= 2 * R, 64 * b <= 5 * R
    PROVE  a * b \in Nat /\ 64 * (a * b) <= 10 * (R * R) /\ (16 * b <= R => 16 * (a * b) <= 2 * (R * R))
<1>1. a * (64 * b) <= (2 * R) * (5 * R)
  BY ProductBound
<1>2. a * (64 * b) = 64 * (a * b) /\ (2 * R) * (5 * R) = 10 * (R * R) /\ a * b \in Nat
  BY Z3
<1>3. 16 * b <= R => a * (16 * b) <= (2 * R) * R
  BY ProductBound
<1>4. a * (16 * b) = 16 * (a * b) /\ (2 * R) * R = 2 * (R * R)
  BY Z3
<1> QED
  BY <1>1, <1>2, <1>3, <1>4

\* ... and the limb above them.
LEMMA TopProduct ==
    ASSUME NEW R \in Nat, R >= 128, NEW a \in Nat, NEW b \in Nat, a <= 5, 64 * b <= 5 * R
    PROVE  a * b \in Nat /\ 64 * (a * b) <= R * R /\ b < R /\ a * b < R
<1>1. a * (64 * b) <= 5 * (5 * R)
  BY ProductBound
<1>2. a * (64 * b) = 64 * (a * b) /\ a * b \in Nat /\ R * R >= 128 * R /\ R * R \in Nat
  BY Z3
<1> QED
  BY <1>1, <1>2

\* The product of two numbers by limbs, with what is above the modulus folded down.
LEMMA FoldedProduct ==
    ASSUME NEW R \in Int, NEW s1 \in Int, NEW s2 \in Int, NEW s3 \in Int, NEW s4 \in Int, NEW s5 \in Int,
           NEW d1 \in Int, NEW d2 \in Int, NEW d3 \in Int, NEW d4 \in Int, NEW e \in Int
    PROVE  ((((s5 * e) * R + (s1 * (4 * d4) + s2 * (4 * d3) + s3 * (4 * d2) + s4 * (4 * d1 + e) + s5 * (5 * d4))) * R
               + (s1 * (4 * d3) + s2 * (4 * d2) + s3 * (4 * d1 + e) + s4 * (5 * d4) + s5 * (5 * d3))) * R
               + (s1 * (4 * d2) + s2 * (4 * d1 + e) + s3 * (5 * d4) + s4 * (5 * d3) + s5 * (5 * d2))) * R
               + (s1 * (4 * d1 + e) + s2 * (5 * d4) + s3 * (5 * d3) + s4 * (5 * d2) + s5 * (5 * d1))
           = ((((s5 * R + s4) * R + s3) * R + s2) * R + s1)
                 * ((((4 * d4) * R + 4 * d3) * R + 4 * d2) * R + (4 * d1 + e))
             - ((((s5 * d4) * R + (s4 * d4 + s5 * d3)) * R + (s3 * d4 + s4 * d3 + s5 * d2)) * R
                  + (s2 * d4 + s3 * d3 + s4 * d2 + s5 * d1)) * (4 * ((R * R) * (R * R)) - 5)
  BY Z3
LEMMA FourLimbs ==
    ASSUME NEW p \in Seq(Nat), Len(p) = 4
    PROVE  p \in [1 .. 4 -> Nat] /\ p[1] \in Nat /\ p[2] \in Nat /\ p[3] \in Nat /\ p[4] \in Nat
<1>1. p \in [1 .. 4 -> Nat]
  BY LenProperties
<1> QED
  BY <1>1

\* Five fourths of a limb of the key.
LEMMA QuarterOf ==
    ASSUME NEW a \in Nat, NEW R \in Nat, 16 * a <= R
    PROVE  \E d \in Nat, e \in 0 .. 3 :
              /\ a = 4 * d + e /\ a \div 4 = d /\ a % 4 = e /\ 64 * (5 * d) <= 5 * R
<1>1. PICK d \in Nat, e \in 0 .. 3 : a = 4 * d + e /\ a \div 4 = d /\ a % 4 = e
  BY SplitByFour
<1>2. 64 * (5 * d) <= 5 * R
  <2>1. a = 4 * d + e
    BY <1>1
  <2> QED
    BY <2>1
<1> QED
  BY <1>1, <1>2

\* The products are (h + block) * r but for a multiple of the modulus, and leave
\* room for the carries.
LEMMA ProductsAre ==
    ASSUME NEW h \in HashLimbs, NEW r \in ClampedLimbs, NEW in \in MessageLimbs, NEW end \in 0 .. 1
    PROVE  /\ Poly!Products(h, r, in, end) \in Seq(Nat)
           /\ Len(Poly!Products(h, r, in, end)) = 5
           /\ Poly!Products(h, r, in, end)[5] <= 15
           /\ \A i \in 1 .. 4 : 16 * Poly!Products(h, r, in, end)[i] <= 10 * Poly!LL
           /\ \A i \in 1 .. 5 : /\ Poly!FiveFourths(r)[i] < Poly!L
                               /\ (h[5] + end) * Poly!FiveFourths(r)[i] < Poly!L
           /\ \E q \in Nat : Poly!Value(Poly!Products(h, r, in, end))
                = (Poly!Value(h) + Poly!Value(in) + end * (Poly!LL * Poly!LL)) * Poly!Value(r)
                    - q * Poly!Modulus
<1> DEFINE R == Poly!L
           s1 == h[1] + in[1]
           s2 == h[2] + in[2]
           s3 == h[3] + in[3]
           s4 == h[4] + in[4]
           s5 == h[5] + end
           r1 == r[1]
           r2 == r[2]
           r3 == r[3]
           r4 == r[4]
<1>1. /\ R \in Nat /\ R >= 128 /\ Poly!LL = R * R
      /\ Poly!Modulus = 4 * ((R * R) * (R * R)) - 5
  BY PolySizes
<1>2. /\ h \in Seq(Nat) /\ Len(h) = 5 /\ h[5] <= 4
      /\ h[1] < R /\ h[2] < R /\ h[3] < R /\ h[4] < R
  BY DEF HashLimbs
<1>3. in \in Seq(Nat) /\ Len(in) = 4 /\ in[1] < R /\ in[2] < R /\ in[3] < R /\ in[4] < R
  BY DEF MessageLimbs
<1>4. /\ r \in Seq(Nat) /\ Len(r) = 4
      /\ 16 * r1 <= R /\ 16 * r2 <= R /\ 16 * r3 <= R /\ 16 * r4 <= R
      /\ r2 % 4 = 0 /\ r3 % 4 = 0 /\ r4 % 4 = 0
  BY DEF ClampedLimbs
<1>5. /\ h[1] \in Nat /\ h[2] \in Nat /\ h[3] \in Nat /\ h[4] \in Nat /\ h[5] \in Nat
      /\ in[1] \in Nat /\ in[2] \in Nat /\ in[3] \in Nat /\ in[4] \in Nat
      /\ r1 \in Nat /\ r2 \in Nat /\ r3 \in Nat /\ r4 \in Nat
  BY <1>2, <1>3, <1>4, FiveLimbs, FourLimbs
<1>6. /\ s1 \in Nat /\ s2 \in Nat /\ s3 \in Nat /\ s4 \in Nat /\ s5 \in Nat
      /\ s1 <= 2 * R /\ s2 <= 2 * R /\ s3 <= 2 * R /\ s4 <= 2 * R /\ s5 <= 5
  <2>1. ASSUME NEW a \in Nat, NEW b \in Nat, a < R, b < R
        PROVE  a + b \in Nat /\ a + b <= 2 * R
    BY <1>1, <2>1
  <2>2. s5 \in Nat /\ s5 <= 5
    BY <1>2, <1>5
  <2> HIDE DEF R
  <2>3. s1 \in Nat /\ s1 <= 2 * R /\ s2 \in Nat /\ s2 <= 2 * R
    BY <1>2, <1>3, <1>5, <2>1
  <2>4. s3 \in Nat /\ s3 <= 2 * R /\ s4 \in Nat /\ s4 <= 2 * R
    BY <1>2, <1>3, <1>5, <2>1
  <2> QED
    BY <2>2, <2>3, <2>4
<1>7. /\ Poly!Value(h) = (((h[5] * R + h[4]) * R + h[3]) * R + h[2]) * R + h[1]
      /\ Poly!Value(in) = ((in[4] * R + in[3]) * R + in[2]) * R + in[1]
      /\ Poly!Value(r) = ((r4 * R + r3) * R + r2) * R + r1
  <2>1. h \in Seq(Int) /\ in \in Seq(Int) /\ r \in Seq(Int)
    BY <1>2, <1>3, <1>4
  <2>2. Len(h) \in 1 .. 5 /\ Len(in) \in 1 .. 5 /\ Len(r) \in 1 .. 5
    BY <1>2, <1>3, <1>4
  <2> QED
    BY <1>2, <1>3, <1>4, <2>1, <2>2, ValueOf
<1>8. Poly!Value(h) + Poly!Value(in) + end * (Poly!LL * Poly!LL)
         = (((s5 * R + s4) * R + s3) * R + s2) * R + s1
  <2> DEFINE H1 == h[1]
             H2 == h[2]
             H3 == h[3]
             H4 == h[4]
             H5 == h[5]
             I1 == in[1]
             I2 == in[2]
             I3 == in[3]
             I4 == in[4]
  <2>1. /\ H1 \in Int /\ H2 \in Int /\ H3 \in Int /\ H4 \in Int /\ H5 \in Int
        /\ I1 \in Int /\ I2 \in Int /\ I3 \in Int /\ I4 \in Int /\ end \in Int /\ R \in Int
    BY <1>1, <1>5
  <2> HIDE DEF H1, H2, H3, H4, H5, I1, I2, I3, I4, R
  <2>2. ((((H5 * R + H4) * R + H3) * R + H2) * R + H1) + (((I4 * R + I3) * R + I2) * R + I1)
            + end * ((R * R) * (R * R))
         = ((((H5 + end) * R + (H4 + I4)) * R + (H3 + I3)) * R + (H2 + I2)) * R + (H1 + I1)
    BY <2>1, Z3
  <2> QED
    BY <1>1, <1>7, <2>2, Zenon DEF H1, H2, H3, H4, H5, I1, I2, I3, I4
<1> HIDE DEF R, s1, s2, s3, s4, s5, r1, r2, r3, r4
<1>9. PICK d1 \in Nat, e1 \in 0 .. 3 :
          r1 = 4 * d1 + e1 /\ r1 \div 4 = d1 /\ r1 % 4 = e1 /\ 64 * (5 * d1) <= 5 * R
  BY <1>1, <1>4, <1>5, QuarterOf
<1>10. PICK d2 \in Nat, e2 \in 0 .. 3 :
          r2 = 4 * d2 + e2 /\ r2 \div 4 = d2 /\ r2 % 4 = e2 /\ 64 * (5 * d2) <= 5 * R
  BY <1>1, <1>4, <1>5, QuarterOf
<1>11. PICK d3 \in Nat, e3 \in 0 .. 3 :
          r3 = 4 * d3 + e3 /\ r3 \div 4 = d3 /\ r3 % 4 = e3 /\ 64 * (5 * d3) <= 5 * R
  BY <1>1, <1>4, <1>5, QuarterOf
<1>12. PICK d4 \in Nat, e4 \in 0 .. 3 :
          r4 = 4 * d4 + e4 /\ r4 \div 4 = d4 /\ r4 % 4 = e4 /\ 64 * (5 * d4) <= 5 * R
  BY <1>1, <1>4, <1>5, QuarterOf
<1>13. r2 = 4 * d2 /\ r3 = 4 * d3 /\ r4 = 4 * d4
  BY <1>4, <1>10, <1>11, <1>12
<1> DEFINE f1 == 5 * d1
           f2 == 5 * d2
           f3 == 5 * d3
           f4 == 5 * d4
<1>14. /\ f1 \in Nat /\ f2 \in Nat /\ f3 \in Nat /\ f4 \in Nat
       /\ 64 * f1 <= 5 * R /\ 64 * f2 <= 5 * R /\ 64 * f3 <= 5 * R /\ 64 * f4 <= 5 * R
  BY <1>9, <1>10, <1>11, <1>12
<1>15. d2 + r2 = f2 /\ d3 + r3 = f3 /\ d4 + r4 = f4
  BY <1>13
<1> HIDE DEF f1, f2, f3, f4
<1> DEFINE x1 == s1*r1 + s2*f4 + s3*f3 + s4*f2 + s5*f1
           x2 == s1*r2 + s2*r1 + s3*f4 + s4*f3 + s5*f2
           x3 == s1*r3 + s2*r2 + s3*r1 + s4*f4 + s5*f3
           x4 == s1*r4 + s2*r3 + s3*r2 + s4*r1 + s5*f4
           x5 == s5 * e1
<1>fives. LET f == Poly!FiveFourths(r)
          IN  f[1] = f1 /\ f[2] = f2 /\ f[3] = f3 /\ f[4] = f4 /\ f[5] = e1
  <2> DEFINE f == <<(r[1] \div 4) * 5, (r[2] \div 4) + r[2], (r[3] \div 4) + r[3],
                    (r[4] \div 4) + r[4], r[1] % 4>>
  <2>1. f[1] = d1 * 5 /\ f[5] = e1
    BY <1>9 DEF r1
  <2>2. f[2] = d2 + r2 /\ f[3] = d3 + r3 /\ f[4] = d4 + r4
    BY <1>10, <1>11, <1>12 DEF r2, r3, r4
  <2>3. d1 * 5 = f1
    BY DEF f1
  <2>4. Poly!FiveFourths(r) = f
    BY Zenon DEF Poly!FiveFourths
  <2> HIDE DEF f
  <2> QED
    BY <1>15, <2>1, <2>2, <2>3, <2>4, Zenon
\* What the code cuts to a word has its size.
<1>small. /\ f1 < R /\ f2 < R /\ f3 < R /\ f4 < R /\ e1 < R
          /\ s5*f1 \in Nat /\ s5*f2 \in Nat /\ s5*f3 \in Nat /\ s5*f4 \in Nat /\ x5 \in Nat
          /\ s5*f1 < R /\ s5*f2 < R /\ s5*f3 < R /\ s5*f4 < R /\ x5 < R
  <2>1. s5 * e1 <= 5 * 3 /\ s5 * e1 \in Nat
    BY <1>6, ProductBound
  <2> DEFINE y == s5 * e1
  <2>2. y \in Nat /\ y < R /\ e1 < R
    <3>1. y \in Nat /\ y <= 15
      BY <2>1
    <3> HIDE DEF y
    <3> QED
      BY <1>1, <3>1
  <2>3. s5*f1 \in Nat /\ f1 < R /\ s5*f1 < R /\ s5*f2 \in Nat /\ f2 < R /\ s5*f2 < R
    BY <1>1, <1>6, <1>14, TopProduct
  <2>4. s5*f3 \in Nat /\ f3 < R /\ s5*f3 < R /\ s5*f4 \in Nat /\ f4 < R /\ s5*f4 < R
    BY <1>1, <1>6, <1>14, TopProduct
  <2> QED
    BY <2>2, <2>3, <2>4, Zenon
<1>cut. \A a \in Nat : a < R => Poly!U32(a) = a
  <2> SUFFICES ASSUME NEW a \in Nat, a < R
               PROVE  Poly!U32(a) = a
    BY Zenon
  <2>1. a \in 0 .. R - 1 /\ R \in Nat \ {0}
    BY <1>1
  <2> QED
    BY <2>1, RemainderOfSmall, Zenon DEF Poly!U32, R
<1>16. Poly!Products(h, r, in, end) = <<x1, x2, x3, x4, x5>>
  <2> DEFINE s == [i \in 1 .. 4 |-> h[i] + in[i]]
             t5 == Poly!U32(h[5] + end)
             rr == [i \in 1 .. 5 |-> Poly!U32(Poly!FiveFourths(r)[i])]
             top == [i \in 1 .. 5 |-> Poly!U32(t5 * rr[i])]
  <2>1. s[1] = s1 /\ s[2] = s2 /\ s[3] = s3 /\ s[4] = s4
    BY DEF s1, s2, s3, s4
  <2>2. t5 = s5
    <3>1. s5 < R
      BY <1>1, <1>6
    <3> QED
      BY <1>6, <1>cut, <3>1, Zenon DEF s5
  <2>3. \A i \in 1 .. 5 : rr[i] = Poly!U32(Poly!FiveFourths(r)[i])
    BY Zenon
  <2> HIDE DEF rr
  <2>4. \A i \in 1 .. 5 : top[i] = Poly!U32(t5 * rr[i])
    BY Zenon
  <2>5. Poly!Products(h, r, in, end)
          = <<s[1]*r[1] + s[2]*rr[4] + s[3]*rr[3] + s[4]*rr[2] + top[1],
              s[1]*r[2] + s[2]*r[1]  + s[3]*rr[4] + s[4]*rr[3] + top[2],
              s[1]*r[3] + s[2]*r[2]  + s[3]*r[1]  + s[4]*rr[4] + top[3],
              s[1]*r[4] + s[2]*r[3]  + s[3]*r[2]  + s[4]*r[1]  + top[4],
              top[5]>>
    BY Zenon DEF Poly!Products, rr
  <2> HIDE DEF s, t5, top
  <2>6. 1 \in 1 .. 5 /\ 2 \in 1 .. 5 /\ 3 \in 1 .. 5 /\ 4 \in 1 .. 5 /\ 5 \in 1 .. 5 /\ e1 \in Nat
    OBVIOUS
  <2> HIDE DEF x5
  <2>7. rr[1] = f1 /\ rr[2] = f2 /\ rr[3] = f3 /\ rr[4] = f4 /\ rr[5] = e1
    BY <1>14, <1>cut, <1>fives, <1>small, <2>3, <2>6, Zenon
  <2>8. /\ top[1] = s5*f1 /\ top[2] = s5*f2 /\ top[3] = s5*f3 /\ top[4] = s5*f4
        /\ top[5] = x5
    BY <1>cut, <1>small, <2>2, <2>4, <2>6, <2>7, Zenon DEF x5
  <2> QED
    BY <2>1, <2>5, <2>7, <2>8, Zenon DEF r1, r2, r3, r4
<1> DEFINE p == Poly!Products(h, r, in, end)
<1>17. /\ s1*r1 \in Nat /\ 16 * (s1*r1) <= 2 * (R * R) /\ s1*r2 \in Nat /\ 16 * (s1*r2) <= 2 * (R * R)
       /\ s1*r3 \in Nat /\ 16 * (s1*r3) <= 2 * (R * R) /\ s1*r4 \in Nat /\ 16 * (s1*r4) <= 2 * (R * R)
       /\ s2*r1 \in Nat /\ 16 * (s2*r1) <= 2 * (R * R) /\ s2*r2 \in Nat /\ 16 * (s2*r2) <= 2 * (R * R)
       /\ s2*r3 \in Nat /\ 16 * (s2*r3) <= 2 * (R * R)
       /\ s3*r1 \in Nat /\ 16 * (s3*r1) <= 2 * (R * R) /\ s3*r2 \in Nat /\ 16 * (s3*r2) <= 2 * (R * R)
       /\ s4*r1 \in Nat /\ 16 * (s4*r1) <= 2 * (R * R)
  <2>1. 64 * r1 <= 5 * R /\ 64 * r2 <= 5 * R /\ 64 * r3 <= 5 * R /\ 64 * r4 <= 5 * R
    BY <1>1, <1>4, <1>5
  <2> QED
    BY <1>1, <1>4, <1>5, <1>6, <2>1, LimbProduct
<1>18. /\ s2*f4 \in Nat /\ 64 * (s2*f4) <= 10 * (R * R)
       /\ s3*f3 \in Nat /\ 64 * (s3*f3) <= 10 * (R * R) /\ s3*f4 \in Nat /\ 64 * (s3*f4) <= 10 * (R * R)
       /\ s4*f2 \in Nat /\ 64 * (s4*f2) <= 10 * (R * R) /\ s4*f3 \in Nat /\ 64 * (s4*f3) <= 10 * (R * R)
       /\ s4*f4 \in Nat /\ 64 * (s4*f4) <= 10 * (R * R)
  BY <1>1, <1>6, <1>14, LimbProduct
<1>19. /\ s5*f1 \in Nat /\ 64 * (s5*f1) <= R * R /\ s5*f2 \in Nat /\ 64 * (s5*f2) <= R * R
       /\ s5*f3 \in Nat /\ 64 * (s5*f3) <= R * R /\ s5*f4 \in Nat /\ 64 * (s5*f4) <= R * R
  BY <1>1, <1>6, <1>14, TopProduct
<1>20. R * R \in Nat
  BY <1>1, Z3
<1>21. /\ x1 \in Nat /\ 16 * x1 <= 10 * Poly!LL /\ x2 \in Nat /\ 16 * x2 <= 10 * Poly!LL
       /\ x3 \in Nat /\ 16 * x3 <= 10 * Poly!LL /\ x4 \in Nat /\ 16 * x4 <= 10 * Poly!LL
  <2> DEFINE S == R * R
  <2>1. S \in Nat /\ Poly!LL = S
    BY <1>1, <1>20
  <2> HIDE DEF S
  <2>2. x1 \in Nat /\ 16 * x1 <= 10 * S
    BY <1>17, <1>18, <1>19, <2>1 DEF S
  <2>3. x2 \in Nat /\ 16 * x2 <= 10 * S
    BY <1>17, <1>18, <1>19, <2>1 DEF S
  <2>4. x3 \in Nat /\ 16 * x3 <= 10 * S
    BY <1>17, <1>18, <1>19, <2>1 DEF S
  <2>5. x4 \in Nat /\ 16 * x4 <= 10 * S
    BY <1>17, <1>18, <1>19, <2>1 DEF S
  <2> HIDE DEF x1, x2, x3, x4
  <2> QED
    BY <2>1, <2>2, <2>3, <2>4, <2>5
<1>22. x5 \in Nat /\ x5 <= 15
  <2>1. s5 * e1 <= 5 * 3 /\ s5 * e1 \in Nat
    BY <1>6, ProductBound
  <2> QED
    BY <2>1
<1>23. /\ p \in Seq(Nat) /\ Len(p) = 5
       /\ p[1] = x1 /\ p[2] = x2 /\ p[3] = x3 /\ p[4] = x4 /\ p[5] = x5
  <2> HIDE DEF x1, x2, x3, x4, x5
  <2> QED
    BY <1>16, <1>21, <1>22
<1> HIDE DEF p
<1>24. Poly!Value(p) = (((x5 * R + x4) * R + x3) * R + x2) * R + x1
  <2>1. p \in Seq(Int) /\ Len(p) \in 1 .. 5
    BY <1>23
  <2>2. Poly!Value(p) = (((p[5] * R + p[4]) * R + p[3]) * R + p[2]) * R + p[1]
    BY <1>23, <2>1, ValueOf DEF R
  <2> QED
    BY <1>23, <2>2, Zenon
<1> DEFINE q == ((((s5 * d4) * R + (s4 * d4 + s5 * d3)) * R + (s3 * d4 + s4 * d3 + s5 * d2)) * R
                  + (s2 * d4 + s3 * d3 + s4 * d2 + s5 * d1))
<1>25. (((x5 * R + x4) * R + x3) * R + x2) * R + x1
         = ((((s5 * R + s4) * R + s3) * R + s2) * R + s1) * (((r4 * R + r3) * R + r2) * R + r1)
             - q * (4 * ((R * R) * (R * R)) - 5)
  <2>1. /\ R \in Int /\ s1 \in Int /\ s2 \in Int /\ s3 \in Int /\ s4 \in Int /\ s5 \in Int
        /\ d1 \in Int /\ d2 \in Int /\ d3 \in Int /\ d4 \in Int /\ e1 \in Int
    BY <1>1, <1>6
  <2>2. ((((s5 * e1) * R + (s1 * (4 * d4) + s2 * (4 * d3) + s3 * (4 * d2) + s4 * (4 * d1 + e1) + s5 * (5 * d4))) * R
               + (s1 * (4 * d3) + s2 * (4 * d2) + s3 * (4 * d1 + e1) + s4 * (5 * d4) + s5 * (5 * d3))) * R
               + (s1 * (4 * d2) + s2 * (4 * d1 + e1) + s3 * (5 * d4) + s4 * (5 * d3) + s5 * (5 * d2))) * R
               + (s1 * (4 * d1 + e1) + s2 * (5 * d4) + s3 * (5 * d3) + s4 * (5 * d2) + s5 * (5 * d1))
           = ((((s5 * R + s4) * R + s3) * R + s2) * R + s1)
                 * ((((4 * d4) * R + 4 * d3) * R + 4 * d2) * R + (4 * d1 + e1))
             - q * (4 * ((R * R) * (R * R)) - 5)
    <3> HIDE DEF x1, x2, x3, x4, x5
    <3> QED
      BY <2>1, FoldedProduct
  <2>3. r1 = 4 * d1 + e1
    BY <1>9
  <2> QED
    BY <1>13, <2>2, <2>3, Zenon DEF f1, f2, f3, f4
<1>26. q \in Nat
  <2>1. /\ s5 * d4 \in Nat /\ s4 * d4 \in Nat /\ s5 * d3 \in Nat /\ s3 * d4 \in Nat /\ s4 * d3 \in Nat
        /\ s5 * d2 \in Nat /\ s2 * d4 \in Nat /\ s3 * d3 \in Nat /\ s4 * d2 \in Nat /\ s5 * d1 \in Nat
    BY <1>6, ProductInNat
  <2>2. (s5 * d4) * R \in Nat
    BY <1>1, <2>1, ProductInNat
  <2>3. (s5 * d4) * R + (s4 * d4 + s5 * d3) \in Nat
    BY <2>1, <2>2
  <2>4. ((s5 * d4) * R + (s4 * d4 + s5 * d3)) * R \in Nat
    BY <1>1, <2>3, ProductInNat
  <2>5. ((s5 * d4) * R + (s4 * d4 + s5 * d3)) * R + (s3 * d4 + s4 * d3 + s5 * d2) \in Nat
    BY <2>1, <2>4
  <2>6. (((s5 * d4) * R + (s4 * d4 + s5 * d3)) * R + (s3 * d4 + s4 * d3 + s5 * d2)) * R \in Nat
    BY <1>1, <2>5, ProductInNat
  <2> QED
    BY <2>1, <2>6
<1> HIDE DEF q, x1, x2, x3, x4, x5
<1>27. Poly!Value(p) = (Poly!Value(h) + Poly!Value(in) + end * (Poly!LL * Poly!LL)) * Poly!Value(r)
                         - q * Poly!Modulus
  BY <1>1, <1>7, <1>8, <1>24, <1>25, Zenon
<1>28. \A i \in 1 .. 4 : 16 * p[i] <= 10 * Poly!LL
  BY <1>21, <1>23
<1>29. \A i \in 1 .. 5 : Poly!FiveFourths(r)[i] < R /\ (h[5] + end) * Poly!FiveFourths(r)[i] < R
  <2>1. \A i \in 1 .. 5 : i = 1 \/ i = 2 \/ i = 3 \/ i = 4 \/ i = 5
    OBVIOUS
  <2> QED
    BY <1>fives, <1>small, <2>1, Zenon DEF s5, x5
<1> QED
  BY <1>22, <1>23, <1>26, <1>27, <1>28, <1>29, Zenon DEF p, R
-----------------------------------------------------------------------------
(* Poly1305: products modulo the modulus. *)

LEMMA PolyModulus == Poly!Modulus \in Nat \ {0} /\ Poly!LL \in Nat \ {0} /\ Poly!LL * Poly!LL \in Nat \ {0}
<1>1. /\ Poly!L \in Nat /\ Poly!L >= 128 /\ Poly!LL = Poly!L * Poly!L
      /\ Poly!Modulus = 4 * (Poly!LL * Poly!LL) - 5
  BY PolySizes
<1> DEFINE R == Poly!L
           S == R * R
           Q == S * S
<1>2. R \in Nat /\ R >= 128
  BY <1>1
<1> HIDE DEF R
<1>3. S \in Nat /\ S >= 128
  BY <1>2, Z3
<1> HIDE DEF S
<1>4. Q \in Nat /\ Q >= 128
  BY <1>3, Z3
<1>5. Poly!LL = S /\ Poly!Modulus = 4 * Q - 5
  BY <1>1 DEF R, S
<1> HIDE DEF Q
<1>6. Poly!Modulus \in Nat \ {0}
  BY <1>4, <1>5
<1>7. Poly!LL * Poly!LL = Q
  BY <1>5, Zenon DEF Q
<1> QED
  BY <1>3, <1>4, <1>5, <1>6, <1>7

LEMMA RemainderOfProduct ==
    ASSUME NEW a \in Int, NEW b \in Int, NEW p \in Nat \ {0}
    PROVE  ((a % p) * b) % p = (a * b) % p
<1>1. PICK k \in Int, s \in 0 .. p - 1 : a = p * k + s /\ a % p = s
  BY Quotient
<1>2. a * b = p * (k * b) + s * b
  BY <1>1, Z3
<1>3. s * b \in Int /\ k * b \in Int
  BY Z3
<1>4. (p * (k * b) + s * b) % p = (s * b) % p
  BY <1>3, RemainderWithout
<1> QED
  BY <1>1, <1>2, <1>4, Zenon

\* A remainder by twice as much has one bit more.
LEMMA NextBit ==
    ASSUME NEW b \in Nat, NEW Pw \in Nat \ {0}
    PROVE  b % (2 * Pw) = (b % Pw) + Pw * ((b \div Pw) % 2)
<1>1. PICK k \in Nat, r \in 0 .. Pw - 1 : b = Pw * k + r /\ b \div Pw = k /\ b % Pw = r
  BY SplitNat
<1>2. PICK l \in Nat, t \in 0 .. 1 : k = 2 * l + t /\ k % 2 = t
  <2> DEFINE two == 2
  <2>1. two \in Nat \ {0} /\ two - 1 = 1
    OBVIOUS
  <2> HIDE DEF two
  <2>2. PICK l \in Nat, t \in 0 .. two - 1 : k = two * l + t /\ k \div two = l /\ k % two = t
    BY <2>1, SplitNat
  <2>3. t \in 0 .. 1
    BY <2>1
  <2> QED
    BY <2>2, <2>3, Zenon DEF two
<1> DEFINE Dg == 2 * Pw
           s == Pw * t + r
<1>3. b = Dg * l + s
  <2>1. Pw * (2 * l + t) = (2 * Pw) * l + Pw * t
    BY Z3
  <2>2. Pw * t \in Int /\ (2 * Pw) * l \in Int
    BY Z3
  <2> QED
    BY <1>1, <1>2, <2>1, <2>2
<1>4. s \in 0 .. Dg - 1
  <2>1. t = 0 \/ t = 1
    OBVIOUS
  <2>2. Pw * 0 = 0 /\ Pw * 1 = Pw
    OBVIOUS
  <2> QED
    BY <2>1, <2>2
<1>5. Dg \in Nat \ {0}
  OBVIOUS
<1> HIDE DEF Dg, s
<1>6. b % Dg = s
  BY <1>3, <1>4, <1>5, Remainder
<1>7. s = r + Pw * t
  <2>1. Pw * t \in Int
    BY Z3
  <2> QED
    BY <2>1 DEF s
<1> QED
  BY <1>1, <1>2, <1>6, <1>7, Zenon DEF Dg

\* Doubling and adding gives the product.
LEMMA TimesModPIs ==
    ASSUME NEW a \in Nat, NEW b \in Nat, b < 2 ^ PolyBits
    PROVE  Poly!TimesModP(a, b) = (a * b) % Poly!Modulus
<1> DEFINE M == Poly!Modulus
           n == 4 * LimbBits + 1
           power == CHOOSE power : power = [k \in 0 .. 4 * LimbBits + 1 |->
                        IF k = 0 THEN a % Poly!Modulus ELSE (2 * power[k - 1]) % Poly!Modulus]
           sum == CHOOSE sum : sum = [k \in 0 .. 4 * LimbBits + 2 |->
                        IF k = 0 THEN 0
                        ELSE (sum[k - 1] + power[k - 1] * ((b \div 2 ^ (k - 1)) % 2)) % Poly!Modulus]
<1>1. Poly!TimesModP(a, b) = sum[4 * LimbBits + 2]
  BY Zenon DEF Poly!TimesModP
<1>2. M \in Nat \ {0} /\ n \in Nat /\ n + 1 = PolyBits
  BY PolyModulus, PolyOk DEF Poly!PolyAssumption, PolyBits
<1>3. \A k \in 0 .. PolyBits : 2 ^ k \in Nat \ {0}
  <2> SUFFICES ASSUME NEW k \in 0 .. PolyBits
               PROVE  2 ^ k \in Nat \ {0}
    OBVIOUS
  <2>1. k \in Nat /\ 0 \in Nat /\ k + 0 <= PolyBits
    BY <1>2
  <2> QED
    BY <2>1, PowersMultiply
<1>4. \A k \in 0 .. n : 2 ^ (k + 1) = 2 * 2 ^ k
  BY PolyOk DEF Poly!PolyAssumption
<1>5. power \in [0 .. n -> Int] /\ power[0] = a % M
      /\ \A k \in 1 .. n : power[k] = (2 * power[k - 1]) % M
  <2> DEFINE g == [i \in 1 .. n |-> [v \in Int |-> (2 * v) % M]]
             b0 == a % M
  <2>1. b0 \in Int /\ g \in [1 .. n -> [Int -> Int]]
    <3> HIDE DEF n, M
    <3> QED
      BY <1>2
  <2> HIDE DEF g, b0, n, power
  <2>2. PICK f \in [0 .. n -> Int] : Iterates(f, n, b0, g)
    BY <1>2, <2>1, Iterated, Zenon
  <2>3. f = [k \in 0 .. n |-> IF k = 0 THEN a % M ELSE (2 * f[k - 1]) % M]
    <3>1. \A k \in 1 .. n : f[k] = (2 * f[k - 1]) % M
      <4> HIDE DEF M
      <4> SUFFICES ASSUME NEW k \in 1 .. n
                   PROVE  f[k] = (2 * f[k - 1]) % M
        OBVIOUS
      <4>1. f[k] = g[k][f[k - 1]]
        BY <2>2 DEF Iterates
      <4>2. f[k - 1] \in Int
        BY <1>2
      <4> QED
        BY <4>1, <4>2 DEF g
    <3>2. f[0] = a % M
      BY <2>2 DEF Iterates, b0
    <3>3. \A k \in 0 .. n : k # 0 => k \in 1 .. n
      BY <1>2
    <3> QED
      BY <3>1, <3>2, <3>3
  <2>4. power = [k \in 0 .. n |-> IF k = 0 THEN a % M ELSE (2 * power[k - 1]) % M]
    BY <2>3, Zenon DEF power, n
  <2>5. power[0] = a % M /\ \A k \in 1 .. n : power[k] = (2 * power[k - 1]) % M
    BY <1>2, <2>4
  <2>6. \A k \in 0 .. n : power[k] \in Int
    <3> DEFINE S == {k \in Nat : k <= n => power[k] \in Int}
    <3>1. 0 \in S
      BY <1>2, <2>5
    <3>2. ASSUME NEW k \in Nat, k \in S
          PROVE  k + 1 \in S
      <4> SUFFICES ASSUME k + 1 <= n
                   PROVE  power[k + 1] \in Int
        OBVIOUS
      <4>1. k + 1 \in 1 .. n /\ (k + 1) - 1 = k /\ power[k] \in Int
        BY <1>2, <3>2
      <4>2. power[k + 1] = (2 * power[k]) % M
        BY <2>5, <4>1
      <4> QED
        BY <1>2, <4>1, <4>2
    <3> HIDE DEF S
    <3>3. \A k \in Nat : k \in S
      BY <3>1, <3>2, Induction
    <3> QED
      BY <3>3, <1>2 DEF S
  <2> QED
    BY <2>4, <2>5, <2>6
<1> HIDE DEF power
<1>6. \A k \in Nat : k <= n => power[k] = (a * 2 ^ k) % M
  <2> DEFINE S == {k \in Nat : k <= n => power[k] = (a * 2 ^ k) % M}
  <2>1. 0 \in S
    <3>1. a * 2 ^ 0 = a
      OBVIOUS
    <3> HIDE DEF M
    <3> QED
      BY <1>5, <3>1
  <2>2. ASSUME NEW k \in Nat, k \in S
        PROVE  k + 1 \in S
    <3> SUFFICES ASSUME k + 1 <= n
                 PROVE  power[k + 1] = (a * 2 ^ (k + 1)) % M
      OBVIOUS
    <3>1. k + 1 \in 1 .. n /\ (k + 1) - 1 = k /\ k \in 0 .. n /\ k \in 0 .. PolyBits
      BY <1>2
    <3>2. power[k + 1] = (2 * power[k]) % M /\ power[k] = (a * 2 ^ k) % M
      BY <1>5, <2>2, <3>1
    <3> DEFINE x == 2 ^ k
    <3>3. x \in Nat
      BY <1>3, <3>1
    <3> HIDE DEF x, M
    <3>4. a * x \in Int /\ 2 \in Int
      BY <3>3, Z3
    <3>5. (((a * x) % M) * 2) % M = ((a * x) * 2) % M
      BY <1>2, <3>4, RemainderOfProduct
    <3>6. (a * x) * 2 = a * (2 * x)
      BY <3>3, Z3
    <3>7. ((a * x) % M) * 2 = 2 * ((a * x) % M)
      BY <1>2, <3>4
    <3>8. 2 ^ (k + 1) = 2 * x
      BY <1>4, <3>1 DEF x
    <3> QED
      BY <3>2, <3>5, <3>6, <3>7, <3>8, Zenon DEF x
  <2>3. \A k \in Nat : k \in S
    <3> HIDE DEF S
    <3> QED
      BY <2>1, <2>2, Induction
  <2> QED
    BY <2>3
<1>7. sum[0] = 0 /\ \A k \in 1 .. n + 1 :
          sum[k] = (sum[k - 1] + power[k - 1] * ((b \div 2 ^ (k - 1)) % 2)) % M
  <2> DEFINE g == [i \in 1 .. n + 1 |-> [v \in Int |->
                      (v + power[i - 1] * ((b \div 2 ^ (i - 1)) % 2)) % M]]
  <2>1. n + 1 \in Nat /\ 0 \in Int /\ g \in [1 .. n + 1 -> [Int -> Int]]
    <3>1. ASSUME NEW i \in 1 .. n + 1, NEW v \in Int
          PROVE  (v + power[i - 1] * ((b \div 2 ^ (i - 1)) % 2)) % M \in Int
      <4>1. i - 1 \in 0 .. n /\ i - 1 \in 0 .. PolyBits
        BY <1>2
      <4> DEFINE Pw == 2 ^ (i - 1)
                 w == power[i - 1]
                 t == (b \div Pw) % 2
      <4>2. Pw \in Nat \ {0} /\ w \in Int
        BY <1>3, <1>5, <4>1
      <4> HIDE DEF Pw, w
      <4>3. b \div Pw \in Int
        BY <4>2
      <4>4. t \in Int
        BY <4>3
      <4> HIDE DEF t, M
      <4>5. v + w * t \in Int
        BY <4>2, <4>4, Z3
      <4>6. (v + w * t) % M \in Int
        BY <1>2, <4>5
      <4> QED
        BY <4>6 DEF Pw, w, t
    <3> HIDE DEF M, n
    <3> QED
      BY <1>2, <3>1
  <2> HIDE DEF g, n, sum
  <2>2. PICK f \in [0 .. n + 1 -> Int] : Iterates(f, n + 1, 0, g)
    BY <2>1, Iterated, Zenon
  <2>3. f = [k \in 0 .. n + 1 |->
                IF k = 0 THEN 0 ELSE (f[k - 1] + power[k - 1] * ((b \div 2 ^ (k - 1)) % 2)) % M]
    <3>1. \A k \in 1 .. n + 1 : f[k] = (f[k - 1] + power[k - 1] * ((b \div 2 ^ (k - 1)) % 2)) % M
      <4> HIDE DEF M
      <4> SUFFICES ASSUME NEW k \in 1 .. n + 1
                   PROVE  f[k] = (f[k - 1] + power[k - 1] * ((b \div 2 ^ (k - 1)) % 2)) % M
        OBVIOUS
      <4>1. f[k] = g[k][f[k - 1]]
        BY <2>2 DEF Iterates
      <4>2. f[k - 1] \in Int
        BY <1>2
      <4> QED
        BY <4>1, <4>2 DEF g
    <3>2. f[0] = 0
      BY <2>2 DEF Iterates
    <3>3. \A k \in 0 .. n + 1 : k # 0 => k \in 1 .. n + 1
      BY <1>2
    <3> HIDE DEF M
    <3> QED
      BY <3>1, <3>2, <3>3
  <2>4. n + 1 = 4 * LimbBits + 2
    BY <1>2 DEF PolyBits
  <2>5. sum = [k \in 0 .. n + 1 |->
                IF k = 0 THEN 0 ELSE (sum[k - 1] + power[k - 1] * ((b \div 2 ^ (k - 1)) % 2)) % M]
    BY <2>3, <2>4, Zenon DEF sum
  <2> HIDE DEF M
  <2> QED
    BY <1>2, <2>5
<1> HIDE DEF sum
<1>8. \A k \in Nat : k <= n + 1 => sum[k] = (a * (b % 2 ^ k)) % M
  <2> DEFINE S == {k \in Nat : k <= n + 1 => sum[k] = (a * (b % 2 ^ k)) % M}
  <2>1. 0 \in S
    <3>1. 2 ^ 0 = 1 /\ b % 1 = 0 /\ a * 0 = 0
      OBVIOUS
    <3>2. 0 % M = 0
      BY <1>2, RemainderOfSmall
    <3>3. sum[0] = (a * (b % 2 ^ 0)) % M
      BY <1>7, <3>1, <3>2
    <3> QED
      BY <3>3
  <2>2. ASSUME NEW k \in Nat, k \in S
        PROVE  k + 1 \in S
    <3> SUFFICES ASSUME k + 1 <= n + 1
                 PROVE  sum[k + 1] = (a * (b % 2 ^ (k + 1))) % M
      OBVIOUS
    <3>1. k + 1 \in 1 .. n + 1 /\ (k + 1) - 1 = k /\ k \in 0 .. n /\ k \in 0 .. PolyBits /\ k <= n
      BY <1>2
    <3> DEFINE Pw == 2 ^ k
               t == (b \div Pw) % 2
               c == b % Pw
    <3>2. Pw \in Nat \ {0} /\ 2 ^ (k + 1) = 2 * Pw
      BY <1>3, <1>4, <3>1
    <3>3. sum[k + 1] = (sum[k] + power[k] * t) % M
      <4> HIDE DEF M
      <4> QED
        BY <1>7, <3>1, Zenon
    <3>4. sum[k] = (a * c) % M /\ power[k] = (a * Pw) % M
      <4>1. k \in Nat /\ k <= n /\ k <= n + 1
        BY <1>2, <3>1
      <4>2. sum[k] = (a * (b % 2 ^ k)) % M
        <5> HIDE DEF M
        <5> QED
          BY <2>2, <4>1
      <4>3. power[k] = (a * 2 ^ k) % M
        BY <1>6, <4>1, Zenon
      <4> QED
        BY <4>2, <4>3, Zenon
    <3> HIDE DEF Pw
    <3>5. c \in Nat /\ b \div Pw \in Nat
      <4>1. PICK q \in Nat, r \in 0 .. Pw - 1 : b = Pw * q + r /\ b \div Pw = q /\ b % Pw = r
        BY <3>2, SplitNat
      <4> QED
        BY <4>1
    <3>6. t \in Nat
      BY <3>5
    <3>7. b % (2 * Pw) = c + Pw * t
      BY <3>2, NextBit
    <3> HIDE DEF M, c, t
    <3>8. a * c \in Int /\ a * Pw \in Int /\ (a * Pw) * t \in Int
      BY <3>2, <3>5, <3>6, Z3
    <3>9. (((a * c) % M) + ((a * Pw) % M) * t) % M = ((a * c) + ((a * Pw) % M) * t) % M
      <4>1. ((a * Pw) % M) \in Int
        BY <1>2, <3>8
      <4>2. ((a * Pw) % M) * t \in Int
        BY <3>6, <4>1, Z3
      <4> QED
        BY <1>2, <3>8, <4>2, RemainderOfSum
    <3>10. ((a * c) + ((a * Pw) % M) * t) % M = ((a * Pw) * t + (a * c)) % M
      <4> DEFINE y == (a * Pw) % M
      <4>1. y \in Int
        BY <1>2, <3>8
      <4>2. (y * t) % M = ((a * Pw) * t) % M
        BY <1>2, <3>6, <3>8, RemainderOfProduct
      <4> HIDE DEF y
      <4>3. y * t \in Int /\ t \in Int
        BY <3>6, <4>1, Z3
      <4>4. (((y * t) % M) + (a * c)) % M = ((y * t) + (a * c)) % M
        BY <1>2, <3>8, <4>3, RemainderOfSum
      <4>5. ((((a * Pw) * t) % M) + (a * c)) % M = ((a * Pw) * t + (a * c)) % M
        BY <1>2, <3>8, RemainderOfSum
      <4>6. (y * t) + (a * c) = (a * c) + y * t
        BY <3>8, <4>3
      <4> QED
        BY <4>2, <4>4, <4>5, <4>6, Zenon DEF y
    <3>11. (a * Pw) * t + (a * c) = a * (c + Pw * t)
      BY <3>2, <3>5, <3>6, Z3
    <3> QED
      BY <3>2, <3>3, <3>4, <3>7, <3>9, <3>10, <3>11, Zenon
  <2>3. \A k \in Nat : k \in S
    <3> HIDE DEF S
    <3> QED
      BY <2>1, <2>2, Induction
  <2> QED
    BY <2>3
<1>9. sum[PolyBits] = (a * (b % 2 ^ PolyBits)) % M
  <2>1. PolyBits \in Nat /\ PolyBits <= n + 1
    BY <1>2
  <2> QED
    BY <1>8, <2>1
<1>10. b % 2 ^ PolyBits = b
  <2> DEFINE Pw == 2 ^ PolyBits
  <2>1. PolyBits \in 0 .. PolyBits
    BY <1>2
  <2>2. Pw \in Nat \ {0}
    BY <1>3, <2>1
  <2> HIDE DEF Pw
  <2>3. b \in 0 .. Pw - 1
    BY <2>2 DEF Pw
  <2>4. b % Pw = b
    BY <2>2, <2>3, RemainderOfSmall
  <2> QED
    BY <2>4 DEF Pw
<1> QED
  BY <1>1, <1>9, <1>10, Zenon DEF PolyBits
-----------------------------------------------------------------------------
(* Poly1305: blocks of a message. *)

LEMMA LimbsInNat ==
    ASSUME NEW s \in Seq(Nat), Len(s) \in 1 .. 5
    PROVE  Poly!Value(s) \in Nat
<1> DEFINE R == Poly!L
<1>1. R \in Nat
  BY PolySizes
<1>2. s \in Seq(Int)
  OBVIOUS
<1>3. \A i \in 1 .. Len(s) : s[i] \in Nat
  OBVIOUS
<1> HIDE DEF R
<1>4. \A a \in Nat, b \in Nat : a * R + b \in Nat
  BY <1>1, Z3
<1>5. CASE Len(s) = 1
  BY <1>2, <1>3, <1>5, ValueOf
<1>6. CASE Len(s) = 2
  <2>1. Poly!Value(s) = s[2] * R + s[1]
    BY <1>2, <1>6, ValueOf DEF R
  <2>2. s[1] \in Nat /\ s[2] \in Nat
    BY <1>3, <1>6
  <2> QED
    BY <1>4, <2>1, <2>2, Zenon
<1>7. CASE Len(s) = 3
  <2>1. Poly!Value(s) = (s[3] * R + s[2]) * R + s[1]
    BY <1>2, <1>7, ValueOf DEF R
  <2>2. s[1] \in Nat /\ s[2] \in Nat /\ s[3] \in Nat
    BY <1>3, <1>7
  <2> QED
    BY <1>4, <2>1, <2>2, Zenon
<1>8. CASE Len(s) = 4
  <2>1. Poly!Value(s) = ((s[4] * R + s[3]) * R + s[2]) * R + s[1]
    BY <1>2, <1>8, ValueOf DEF R
  <2>2. s[1] \in Nat /\ s[2] \in Nat /\ s[3] \in Nat /\ s[4] \in Nat
    BY <1>3, <1>8
  <2> QED
    BY <1>4, <2>1, <2>2, Zenon
<1>9. CASE Len(s) = 5
  <2>1. Poly!Value(s) = (((s[5] * R + s[4]) * R + s[3]) * R + s[2]) * R + s[1]
    BY <1>2, <1>9, ValueOf DEF R
  <2>2. s[1] \in Nat /\ s[2] \in Nat /\ s[3] \in Nat /\ s[4] \in Nat /\ s[5] \in Nat
    BY <1>3, <1>9
  <2>3. (s[5] * R + s[4]) * R + s[3] \in Nat
    BY <1>4, <2>2, Zenon
  <2>4. ((s[5] * R + s[4]) * R + s[3]) * R + s[2] \in Nat
    BY <1>4, <2>2, <2>3, Zenon
  <2> QED
    BY <1>4, <2>1, <2>2, <2>4, Zenon
<1> QED
  BY <1>5, <1>6, <1>7, <1>8, <1>9

\* One block: the sum with it times the key, modulo the modulus.
LEMMA PolyBlockIs ==
    ASSUME NEW h \in HashLimbs, NEW r \in ClampedLimbs, NEW in \in MessageLimbs, NEW end \in 0 .. 1
    PROVE  /\ Poly!PolyBlock(h, r, in, end) \in HashLimbs
           /\ Poly!Value(Poly!PolyBlock(h, r, in, end)) % Poly!Modulus
                = ((Poly!Value(h) + Poly!Value(in) + end * (Poly!LL * Poly!LL)) * Poly!Value(r))
                      % Poly!Modulus
<1> DEFINE M == Poly!Modulus
           p == Poly!Products(h, r, in, end)
           x == Poly!Value(h) + Poly!Value(in) + end * (Poly!LL * Poly!LL)
           y == x * Poly!Value(r)
           b == Poly!CarryBlock(p)
<1>1. M \in Nat \ {0}
  BY PolyModulus
<1>2. /\ p \in Seq(Nat) /\ Len(p) = 5 /\ p[5] <= 15
      /\ \A i \in 1 .. 4 : 16 * p[i] <= 10 * Poly!LL
  BY ProductsAre
<1>3. PICK q \in Nat : Poly!Value(p) = y - q * M
  BY ProductsAre
<1>4. b \in HashLimbs /\ \E q2 \in Nat : Poly!Value(b) = Poly!Value(p) - q2 * M
  <2> HIDE DEF p, M
  <2> QED
    BY <1>2, CarryBlockIs DEF M
<1>5. PICK q2 \in Nat : Poly!Value(b) = Poly!Value(p) - q2 * M
  BY <1>4
<1>6. y \in Int
  <2>1. Poly!Value(h) \in Nat /\ Poly!Value(in) \in Nat /\ Poly!Value(r) \in Nat
    BY LimbsInNat DEF HashLimbs, MessageLimbs, ClampedLimbs
  <2>2. end * (Poly!LL * Poly!LL) \in Nat
    <3>1. Poly!LL * Poly!LL \in Nat
      BY PolyModulus
    <3> QED
      BY <3>1, ProductInNat
  <2>3. x \in Nat
    BY <2>1, <2>2
  <2> HIDE DEF x
  <2> QED
    BY <2>1, <2>3, Z3
<1> HIDE DEF M, p, x, y, b
<1>7. Poly!Value(b) = M * (-(q + q2)) + y
  <2> DEFINE v == Poly!Value(p)
             w == Poly!Value(b)
  <2>1. v = y - q * M /\ w = v - q2 * M
    BY <1>3, <1>5
  <2> HIDE DEF v, w
  <2>2. w = M * (-(q + q2)) + y
    BY <1>1, <1>6, <2>1, Z3
  <2> QED
    BY <2>2 DEF w
<1>8. (M * (-(q + q2)) + y) % M = y % M
  <2>1. -(q + q2) \in Int
    OBVIOUS
  <2> QED
    BY <1>1, <1>6, <2>1, RemainderWithout
<1>9. Poly!PolyBlock(h, r, in, end) = b
  BY Zenon DEF Poly!PolyBlock, b, p
<1>10. Poly!Value(b) % M = y % M
  BY <1>7, <1>8, Zenon
<1> QED
  BY <1>4, <1>9, <1>10, Zenon DEF M, x, y

\* The limbs of r are clamped.
KeyLimbs(k) == [i \in 1 .. 4 |-> Poly!Clamp(k[i], i)]
Keys8 == [1 .. 8 -> 0 .. Poly!L - 1]

LEMMA LimbSeq ==
    ASSUME NEW f \in [1 .. 4 -> Nat]
    PROVE  f \in Seq(Nat) /\ Len(f) = 4
<1>1. f = [i \in 1 .. 4 |-> f[i]] /\ \A i \in 1 .. 4 : f[i] \in Nat
  OBVIOUS
<1> QED
  BY <1>1

LEMMA KeyIsClamped ==
    ASSUME NEW k \in Keys8
    PROVE  KeyLimbs(k) \in ClampedLimbs /\ Poly!Value(KeyLimbs(k)) < 2 ^ PolyBits
<1> DEFINE T == 2 ^ (LimbBits - ClampTop)
           R == Poly!L
<1>1. LimbBits \in Nat /\ ClampTop \in Nat /\ ClampTop >= 4 /\ LimbBits > ClampTop + 2
  BY PolyOk DEF Poly!PolyAssumption
<1>2. T \in Nat \ {0} /\ 16 * T <= R
  <2>1. 2 ^ ((LimbBits - ClampTop) + ClampTop) = T * 2 ^ ClampTop /\ T \in Nat \ {0}
    <3>1. /\ LimbBits - ClampTop \in Nat /\ ClampTop \in Nat
          /\ (LimbBits - ClampTop) + ClampTop <= PolyBits
      BY <1>1 DEF PolyBits
    <3> QED
      BY <3>1, PowersMultiply
  <2>2. 2 ^ (4 + (ClampTop - 4)) = 2 ^ 4 * 2 ^ (ClampTop - 4) /\ 2 ^ (ClampTop - 4) \in Nat \ {0}
    <3>1. /\ 4 \in Nat /\ ClampTop - 4 \in Nat /\ 4 + (ClampTop - 4) <= PolyBits
          /\ (ClampTop - 4) + 0 <= PolyBits /\ 0 \in Nat
      BY <1>1 DEF PolyBits
    <3> QED
      BY <3>1, PowersMultiply
  <2>3. 2 ^ 4 = 16 /\ 4 + (ClampTop - 4) = ClampTop /\ (LimbBits - ClampTop) + ClampTop = LimbBits
    BY <1>1
  <2> DEFINE c == 2 ^ (ClampTop - 4)
  <2>4. c \in Nat \ {0} /\ 2 ^ ClampTop = 16 * c
    BY <2>2, <2>3
  <2>5. R = T * 2 ^ ClampTop
    BY <2>1, <2>3 DEF Poly!L
  <2>6. R = T * (16 * c)
    BY <2>4, <2>5
  <2> HIDE DEF T, c, R
  <2>7. T * (16 * c) >= 16 * T
    BY <2>1, <2>4, Z3
  <2> QED
    BY <2>1, <2>6, <2>7
<1> HIDE DEF T
<1>3. ASSUME NEW i \in 1 .. 4
      PROVE  /\ Poly!Clamp(k[i], i) \in Nat /\ 16 * Poly!Clamp(k[i], i) <= R
             /\ i > 1 => Poly!Clamp(k[i], i) % 4 = 0
  <2> DEFINE low == k[i] % T
  <2>1. k[i] \in Nat
    <3>1. R \in Nat
      BY PolySizes
    <3> HIDE DEF R
    <3> QED
      BY <3>1 DEF Keys8, R
  <2>2. low \in Nat /\ low < T
    BY <1>2, <2>1
  <2>3. Poly!Clamp(k[i], i) = IF i = 1 THEN low ELSE low - (low % 4)
    BY DEF Poly!Clamp, T
  <2> HIDE DEF low
  <2>4. PICK d \in Nat, e \in 0 .. 3 : low = 4 * d + e /\ low \div 4 = d /\ low % 4 = e
    BY <2>2, SplitByFour
  <2>5. low - (low % 4) = 4 * d
    BY <2>4
  <2>6. (4 * d) % 4 = 0
    OBVIOUS
  <2>7. 4 * d <= low
    BY <2>4
  <2>8. R \in Nat
    BY PolySizes
  <2> HIDE DEF R
  <2>9. CASE i = 1
    BY <1>2, <2>2, <2>3, <2>8, <2>9
  <2>10. CASE i # 1
    <3>1. Poly!Clamp(k[i], i) = 4 * d
      BY <2>3, <2>5, <2>10
    <3>2. 16 * (4 * d) <= R
      BY <1>2, <2>2, <2>7, <2>8
    <3> QED
      BY <2>6, <3>1, <3>2
  <2> QED
    BY <2>9, <2>10
<1> DEFINE r == KeyLimbs(k)
<1>4. \A i \in 1 .. 4 : r[i] = Poly!Clamp(k[i], i)
  BY DEF KeyLimbs
<1>5. r \in [1 .. 4 -> Nat]
  BY <1>3 DEF KeyLimbs
<1> HIDE DEF r
<1>6. r \in Seq(Nat) /\ Len(r) = 4
  BY <1>5, LimbSeq
<1>7. r \in ClampedLimbs
  BY <1>3, <1>4, <1>6 DEF ClampedLimbs
<1>8. Poly!Value(r) < 2 ^ PolyBits
  <2>1. r \in Seq(Int) /\ Len(r) \in 1 .. 5
    BY <1>6
  <2>2. Poly!Value(r) = ((r[4] * R + r[3]) * R + r[2]) * R + r[1]
    BY <1>6, <2>1, ValueOf
  <2>3. R \in Nat /\ R >= 128 /\ 2 ^ PolyBits = 4 * ((R * R) * (R * R))
    BY PolySizes
  <2> DEFINE a == r[1]
             b == r[2]
             c == r[3]
             d == r[4]
  <2>4. /\ a \in Nat /\ b \in Nat /\ c \in Nat /\ d \in Nat
        /\ 16 * a <= R /\ 16 * b <= R /\ 16 * c <= R /\ 16 * d <= R
    BY <1>3, <1>4, <1>5
  <2> HIDE DEF a, b, c, d, R
  <2>5. a <= R - 1 /\ b <= R - 1 /\ c <= R - 1 /\ d <= R - 1
    BY <2>3, <2>4
  <2>6. d * R + c <= R * R - 1
    BY <2>3, <2>4, <2>5, Z3
  <2> DEFINE y == d * R + c
  <2>7. y \in Nat /\ y <= R * R - 1
    BY <2>3, <2>4, <2>6, Z3
  <2> HIDE DEF y
  <2>8. y * R + b <= (R * R) * R - 1
    BY <2>3, <2>4, <2>5, <2>7, Z3
  <2> DEFINE z == y * R + b
  <2>9. z \in Nat /\ z <= (R * R) * R - 1
    BY <2>3, <2>4, <2>7, <2>8, Z3
  <2> HIDE DEF z
  <2>10. z * R + a <= ((R * R) * R) * R - 1
    BY <2>3, <2>4, <2>5, <2>9, Z3
  <2>11. ((R * R) * R) * R = (R * R) * (R * R) /\ (R * R) * (R * R) \in Nat
    BY <2>3, Z3
  <2>12. z * R + a < 4 * ((R * R) * (R * R))
    <3> DEFINE Q == (R * R) * (R * R)
               w == z * R + a
    <3>1. Q \in Nat /\ w \in Int /\ w <= Q - 1
      BY <2>3, <2>4, <2>9, <2>10, <2>11, Z3
    <3> HIDE DEF Q, w
    <3>2. w < 4 * Q
      BY <3>1
    <3> QED
      BY <3>2, Zenon DEF Q, w
  <2> QED
    BY <2>2, <2>3, <2>12, Zenon DEF y, z, a, b, c, d
<1> QED
  BY <1>7, <1>8 DEF r
\* The steps of Mac, for the first n blocks of a message, and a hash that took them.
Units == 0 .. Poly!L - 1
TheKey(k) == Poly!Value(KeyLimbs(k))
BlockOf(m, i) == SubSeq(m, 4 * i - 3, 4 * i)
NextSum(k, v, b) == Poly!TimesModP((v + Poly!Value(b \o <<1>>)) % Poly!Modulus, TheKey(k))
Sums(a, k, m, n) == a[0] = 0 /\ \A i \in 1 .. n : a[i] = NextSum(k, a[i - 1], BlockOf(m, i))
Hashed(h, k, m, n) ==
    h \in HashLimbs /\ \E a \in [0 .. n -> Int] : Sums(a, k, m, n) /\ a[n] = Poly!Value(h) % Poly!Modulus

LEMMA SeqOfUnits ==
    ASSUME NEW s \in Seq(Units)
    PROVE  s \in Seq(Nat) /\ s \in Seq(Int) /\ Len(s) \in Nat
           /\ \A i \in 1 .. Len(s) : s[i] \in Nat /\ s[i] < Poly!L
<1>1. Poly!L \in Nat
  BY PolySizes
<1> DEFINE R == Poly!L
<1>2. Units \subseteq Nat /\ Units \subseteq Int /\ \A u \in Units : u \in Nat /\ u < R
  BY <1>1 DEF Units
<1> HIDE DEF R
<1>3. s \in Seq(Nat) /\ s \in Seq(Int)
  BY <1>2, SeqMonotonic
<1>4. \A i \in 1 .. Len(s) : s[i] \in Units
  BY ElementOfSeq
<1> QED
  BY <1>2, <1>3, <1>4 DEF R

LEMMA BlockLimbs ==
    ASSUME NEW m \in Seq(Units), NEW i \in Nat \ {0}, 4 * i <= Len(m)
    PROVE  /\ BlockOf(m, i) \in MessageLimbs /\ BlockOf(m, i) \in Seq(Units)
           /\ \A j \in 1 .. 4 : BlockOf(m, i)[j] = m[4 * (i - 1) + j]
<1> DEFINE b == BlockOf(m, i)
<1>1. \A j \in 4 * i - 3 .. 4 * i : m[j] \in Units
  <2>1. \A j \in 4 * i - 3 .. 4 * i : j \in 1 .. Len(m)
    BY LenProperties
  <2> QED
    BY <2>1, ElementOfSeq
<1>2. 4 * i - 3 \in Int /\ 4 * i \in Int /\ 4 * i - 3 <= 4 * i /\ 4 * i - (4 * i - 3) + 1 = 4
  OBVIOUS
<1>3. b \in Seq(Units) /\ Len(b) = 4 /\ \A j \in 1 .. 4 : b[j] = m[(4 * i - 3) + j - 1]
  BY <1>1, <1>2, SubSeqProperties DEF BlockOf
<1>4. \A j \in 1 .. 4 : (4 * i - 3) + j - 1 = 4 * (i - 1) + j
  OBVIOUS
<1> HIDE DEF b
<1>5. b \in Seq(Nat) /\ \A j \in 1 .. 4 : b[j] < Poly!L
  BY <1>3, SeqOfUnits
<1> QED
  BY <1>3, <1>4, <1>5 DEF MessageLimbs, b

\* What a block adds to the sum, if it is the value of the unit with the one behind it.
LEMMA NextSumIs ==
    ASSUME NEW k \in Keys8, NEW h \in HashLimbs, NEW in \in MessageLimbs, NEW end \in 0 .. 1,
           NEW b, Poly!Value(b \o << 1 >>) = Poly!Value(in) + end * (Poly!LL * Poly!LL)
    PROVE  /\ Poly!PolyBlock(h, KeyLimbs(k), in, end) \in HashLimbs
           /\ NextSum(k, Poly!Value(h) % Poly!Modulus, b)
                 = Poly!Value(Poly!PolyBlock(h, KeyLimbs(k), in, end)) % Poly!Modulus
<1> DEFINE M == Poly!Modulus
           v == Poly!Value(h)
           w == Poly!Value(in) + end * (Poly!LL * Poly!LL)
           r == TheKey(k)
           y == ((v % M) + w) % M
<1>1. M \in Nat \ {0} /\ Poly!LL * Poly!LL \in Nat
  BY PolyModulus
<1>2. v \in Nat /\ Poly!Value(in) \in Nat
  BY LimbsInNat DEF HashLimbs, MessageLimbs
<1>3. w \in Nat
  <2>1. end * (Poly!LL * Poly!LL) \in Nat
    BY <1>1, ProductInNat
  <2> QED
    BY <1>2, <2>1
<1>4. KeyLimbs(k) \in ClampedLimbs /\ r < 2 ^ PolyBits /\ r \in Nat
  <2>1. KeyLimbs(k) \in ClampedLimbs
    BY KeyIsClamped
  <2> QED
    BY <2>1, KeyIsClamped, LimbsInNat DEF TheKey, ClampedLimbs
<1>5. /\ Poly!PolyBlock(h, KeyLimbs(k), in, end) \in HashLimbs
      /\ Poly!Value(Poly!PolyBlock(h, KeyLimbs(k), in, end)) % M
            = ((v + Poly!Value(in) + end * (Poly!LL * Poly!LL)) * r) % M
  BY <1>4, PolyBlockIs DEF TheKey
<1>6. v + Poly!Value(in) + end * (Poly!LL * Poly!LL) = v + w
  <2>1. end * (Poly!LL * Poly!LL) \in Nat
    BY <1>1, ProductInNat
  <2> QED
    BY <1>2, <2>1
<1> HIDE DEF M, v, w, r
<1>7. y = (v + w) % M /\ y \in Nat
  <2>1. ((v % M) + w) % M = (v + w) % M
    <3>1. v \in Int /\ w \in Int
      BY <1>2, <1>3
    <3> HIDE DEF y
    <3> QED
      BY <1>1, <3>1, RemainderOfSum
  <2>2. (v + w) % M \in Nat
    BY <1>1, <1>2, <1>3
  <2> QED
    BY <2>1, <2>2
<1>8. (y * r) % M = ((v + w) * r) % M
  <2>1. v + w \in Int
    BY <1>2, <1>3
  <2> QED
    BY <1>1, <1>4, <1>7, <2>1, RemainderOfProduct
<1>9. NextSum(k, v % M, b) = Poly!TimesModP(y, r)
  BY Zenon DEF NextSum, M, w, r
<1> HIDE DEF y
<1>10. Poly!TimesModP(y, r) = (y * r) % M
  BY <1>4, <1>7, TimesModPIs DEF M
<1> QED
  BY <1>5, <1>6, <1>8, <1>9, <1>10, Zenon DEF M, v

\* A number behind some numbers.
LEMMA Appended ==
    ASSUME NEW b \in Seq(Nat), NEW e \in Nat
    PROVE  /\ b \o <<e>> \in Seq(Nat) /\ Len(b \o <<e>>) = Len(b) + 1
           /\ \A i \in 1 .. Len(b) : (b \o <<e>>)[i] = b[i]
           /\ (b \o <<e>>)[Len(b) + 1] = e
<1>1. /\ Append(b, e) \in Seq(Nat) /\ Len(Append(b, e)) = Len(b) + 1
      /\ \A i \in 1 .. Len(b) : Append(b, e)[i] = b[i]
      /\ Append(b, e)[Len(b) + 1] = e
  BY AppendProperties
<1>2. b \o <<e>> = Append(b, e)
  BY AppendIsConcat
<1> QED
  BY <1>1, <1>2, Zenon

\* The one behind a whole block is above its limbs.
LEMMA OneBehindBlock ==
    ASSUME NEW b \in MessageLimbs
    PROVE  Poly!Value(b \o <<1>>) = Poly!Value(b) + 1 * (Poly!LL * Poly!LL)
<1> DEFINE s == b \o <<1>>
           R == Poly!L
<1>1. b \in Seq(Nat) /\ Len(b) = 4
  BY DEF MessageLimbs
<1>2. 1 \in Nat
  OBVIOUS
<1>3. s \in Seq(Nat) /\ Len(s) = 5
      /\ s[1] = b[1] /\ s[2] = b[2] /\ s[3] = b[3] /\ s[4] = b[4] /\ s[5] = 1
  <2>1. s \in Seq(Nat) /\ Len(s) = Len(b) + 1 /\ (\A i \in 1 .. Len(b) : s[i] = b[i])
        /\ s[Len(b) + 1] = 1
    BY <1>1, <1>2, Appended
  <2> HIDE DEF s
  <2> QED
    BY <1>1, <2>1
<1> HIDE DEF s
<1>4. b \in Seq(Int) /\ s \in Seq(Int) /\ Len(b) \in 1 .. 5 /\ Len(s) \in 1 .. 5
  BY <1>1, <1>3
<1>5. /\ Poly!Value(b) = ((b[4] * R + b[3]) * R + b[2]) * R + b[1]
      /\ Poly!Value(s) = (((s[5] * R + s[4]) * R + s[3]) * R + s[2]) * R + s[1]
  BY <1>1, <1>3, <1>4, ValueOf
<1>6. R \in Int /\ Poly!LL = R * R
  BY PolySizes
<1> DEFINE b1 == b[1]
           b2 == b[2]
           b3 == b[3]
           b4 == b[4]
<1>7. b1 \in Int /\ b2 \in Int /\ b3 \in Int /\ b4 \in Int
  BY <1>1, FourLimbs
<1> HIDE DEF b1, b2, b3, b4, R
<1>8. (((1 * R + b4) * R + b3) * R + b2) * R + b1
        = (((b4 * R + b3) * R + b2) * R + b1) + 1 * ((R * R) * (R * R))
  BY <1>6, <1>7, Z3
<1> QED
  BY <1>3, <1>5, <1>6, <1>8, Zenon DEF s, b1, b2, b3, b4

LEMMA HashedNext ==
    ASSUME NEW k \in Keys8, NEW m \in Seq(Units), NEW n \in Nat, 4 * (n + 1) <= Len(m),
           NEW h, Hashed(h, k, m, n), NEW b \in MessageLimbs, b = BlockOf(m, n + 1)
    PROVE  Hashed(Poly!PolyBlock(h, KeyLimbs(k), b, 1), k, m, n + 1)
<1> DEFINE g == Poly!PolyBlock(h, KeyLimbs(k), b, 1)
<1>1. h \in HashLimbs
  BY DEF Hashed
<1>2. PICK a \in [0 .. n -> Int] : Sums(a, k, m, n) /\ a[n] = Poly!Value(h) % Poly!Modulus
  BY DEF Hashed
<1>3. g \in HashLimbs /\ NextSum(k, a[n], b) = Poly!Value(g) % Poly!Modulus
  <2>1. Poly!Value(b \o <<1>>) = Poly!Value(b) + 1 * (Poly!LL * Poly!LL) /\ 1 \in 0 .. 1
    BY OneBehindBlock
  <2> QED
    BY <1>1, <1>2, <2>1, NextSumIs
<1>4. Poly!Value(g) % Poly!Modulus \in Int
  <2>1. Poly!Value(g) \in Nat
    BY <1>3, LimbsInNat DEF HashLimbs
  <2> DEFINE M == Poly!Modulus
  <2>2. M \in Nat \ {0}
    BY PolyModulus
  <2> HIDE DEF g, M
  <2> QED
    BY <2>1, <2>2 DEF M
<1> DEFINE e == [i \in 0 .. n + 1 |-> IF i = n + 1 THEN NextSum(k, a[n], b) ELSE a[i]]
<1> HIDE DEF g
<1>5. e \in [0 .. n + 1 -> Int]
  <2>1. \A i \in 0 .. n + 1 : i # n + 1 => a[i] \in Int
    OBVIOUS
  <2> QED
    BY <1>3, <1>4, <2>1, Zenon
<1>6. e[0] = 0 /\ e[n + 1] = NextSum(k, a[n], b) /\ \A i \in 0 .. n : e[i] = a[i]
  <2>1. e[0] = a[0] /\ a[0] = 0
    BY <1>2 DEF Sums
  <2>2. \A i \in 0 .. n : i \in 0 .. n + 1 /\ i # n + 1
    OBVIOUS
  <2>3. n + 1 \in 0 .. n + 1
    OBVIOUS
  <2> QED
    BY <2>1, <2>2, <2>3, Zenon
<1> HIDE DEF e
<1>7. Sums(e, k, m, n + 1)
  <2>1. ASSUME NEW i \in 1 .. n + 1
        PROVE  e[i] = NextSum(k, e[i - 1], BlockOf(m, i))
    <3>1. CASE i = n + 1
      <4>1. i - 1 = n /\ n \in 0 .. n
        BY <3>1
      <4> QED
        BY <1>6, <3>1, <4>1, Zenon
    <3>2. CASE i # n + 1
      <4>1. i \in 1 .. n /\ i \in 0 .. n /\ i - 1 \in 0 .. n
        BY <3>2
      <4> QED
        BY <1>2, <1>6, <4>1, Zenon DEF Sums
    <3> QED
      BY <3>1, <3>2
  <2> QED
    BY <1>6, <2>1 DEF Sums
<1>8. e[n + 1] = Poly!Value(g) % Poly!Modulus
  BY <1>3, <1>6, Zenon
<1> QED
  BY <1>3, <1>5, <1>7, <1>8, Zenon DEF Hashed, g

LEMMA HashedMore ==
    ASSUME NEW k, NEW m \in Seq(Units), NEW p \in Seq(Units), NEW n \in Nat, 4 * n <= Len(m),
           NEW h, Hashed(h, k, m, n)
    PROVE  Hashed(h, k, m \o p, n)
<1>1. \A i \in 1 .. n : BlockOf(m \o p, i) = BlockOf(m, i)
  <2> SUFFICES ASSUME NEW i \in 1 .. n
               PROVE  BlockOf(m \o p, i) = BlockOf(m, i)
    OBVIOUS
  <2>1. 4 * i - 3 \in 1 .. Len(m) /\ 4 * i \in 1 .. Len(m)
    BY LenProperties
  <2> QED
    BY <2>1, SubSeqOfConcat1 DEF BlockOf
<1>2. PICK a \in [0 .. n -> Int] : Sums(a, k, m, n) /\ a[n] = Poly!Value(h) % Poly!Modulus
  BY DEF Hashed
<1>3. Sums(a, k, m \o p, n)
  BY <1>1, <1>2, Zenon DEF Sums
<1> QED
  BY <1>2, <1>3, Zenon DEF Hashed
-----------------------------------------------------------------------------
(* Poly1305: a context holds the sum of the whole blocks, and the units behind them. *)

Contexts == [r : ClampedLimbs, pad : Seq(Nat), h : HashLimbs, c : MessageLimbs, idx : 0 .. 4]
Pending(c, m, n) == Len(m) = 4 * n + c.idx /\ \A j \in 1 .. c.idx : c.c[j] = m[4 * n + j]
Holds(c, k, m) ==
    /\ c \in Contexts /\ c.r = KeyLimbs(k) /\ c.pad = SubSeq(k, 5, 8)
    /\ \E n \in Nat : Pending(c, m, n) /\ Hashed(c.h, k, m, n)

LEMMA MoreUnits ==
    ASSUME NEW m \in Seq(Units), NEW p \in Seq(Units)
    PROVE  /\ m \o p \in Seq(Units) /\ Len(m \o p) = Len(m) + Len(p)
           /\ Len(m) \in Nat /\ Len(p) \in Nat
           /\ \A i \in 1 .. Len(m) : (m \o p)[i] = m[i]
           /\ \A i \in 1 .. Len(p) : (m \o p)[Len(m) + i] = p[i]
<1>1. /\ m \o p \in Seq(Units) /\ Len(m \o p) = Len(m) + Len(p)
      /\ \A i \in 1 .. Len(m) + Len(p) : (m \o p)[i] = IF i <= Len(m) THEN m[i] ELSE p[i - Len(m)]
  BY ConcatProperties
<1>2. Len(m) \in Nat /\ Len(p) \in Nat
  BY LenProperties
<1> DEFINE s == m \o p
           x == Len(m)
           y == Len(p)
<1> HIDE DEF s, x, y
<1>3. x \in Nat /\ y \in Nat /\ \A i \in 1 .. x + y : s[i] = IF i <= x THEN m[i] ELSE p[i - x]
  BY <1>1, <1>2 DEF s, x, y
<1>4. ASSUME NEW i \in 1 .. x PROVE s[i] = m[i]
  <2>1. i \in 1 .. x + y /\ i <= x
    BY <1>3
  <2> QED
    BY <1>3, <2>1
<1>5. ASSUME NEW i \in 1 .. y PROVE s[x + i] = p[i]
  <2>1. x + i \in 1 .. x + y /\ ~(x + i <= x) /\ (x + i) - x = i
    BY <1>3
  <2> QED
    BY <1>3, <2>1
<1> QED
  BY <1>1, <1>2, <1>4, <1>5 DEF s, x, y

LEMMA FillHolds ==
    ASSUME NEW k \in Keys8, NEW m \in Seq(Units), NEW p \in Seq(Units), NEW c, Holds(c, k, m),
           c.idx + Len(p) <= 4
    PROVE  Holds(Poly!Fill(c, p), k, m \o p) /\ Poly!Fill(c, p).idx = c.idx + Len(p)
           /\ Poly!Fill(c, p).h = c.h
<1> DEFINE f == Poly!Fill(c, p)
           x == c.idx
           y == Len(p)
           buf == [j \in 1 .. 4 |-> IF j \in x + 1 .. x + y THEN p[j - x] ELSE c.c[j]]
<1>1. PICK n \in Nat : Pending(c, m, n) /\ Hashed(c.h, k, m, n)
  BY DEF Holds
<1>2. c \in Contexts /\ c.r = KeyLimbs(k) /\ c.pad = SubSeq(k, 5, 8)
  BY DEF Holds
<1>3. x \in 0 .. 4 /\ y \in Nat /\ x + y <= 4
  BY <1>2, LenProperties DEF Contexts
<1>4. f = [c EXCEPT !.idx = x + y, !.c = buf]
  BY Zenon DEF Poly!Fill
<1>5. c.c \in MessageLimbs /\ c.c \in [1 .. 4 -> Nat] /\ \A j \in 1 .. 4 : c.c[j] < Poly!L
  BY <1>2, FourLimbs DEF Contexts, MessageLimbs
<1>6. \A j \in 1 .. y : p[j] \in Nat /\ p[j] < Poly!L
  BY SeqOfUnits
<1>7. \A j \in x + 1 .. x + y : j - x \in 1 .. y
  BY <1>3
<1> HIDE DEF x, y
<1>8. buf \in [1 .. 4 -> Nat] /\ \A j \in 1 .. 4 : buf[j] < Poly!L
  BY <1>5, <1>6, <1>7
<1>9. \A j \in x + 1 .. x + y : buf[j] = p[j - x]
  <2>1. \A j \in x + 1 .. x + y : j \in 1 .. 4
    BY <1>3
  <2> QED
    BY <2>1
<1>10. \A j \in 1 .. x : buf[j] = c.c[j]
  <2>1. \A j \in 1 .. x : j \in 1 .. 4 /\ j \notin x + 1 .. x + y
    BY <1>3
  <2> QED
    BY <2>1
<1> HIDE DEF buf
<1>11. buf \in MessageLimbs
  BY <1>8, LimbSeq DEF MessageLimbs
<1> HIDE DEF f
<1>12. f \in Contexts /\ f.r = c.r /\ f.pad = c.pad /\ f.h = c.h /\ f.c = buf /\ f.idx = x + y
  <2>1. x + y \in 0 .. 4
    BY <1>3
  <2> QED
    BY <1>2, <1>4, <1>11, <2>1 DEF Contexts
<1> DEFINE s == m \o p
<1>13. /\ Len(s) = Len(m) + y /\ Len(m) = 4 * n + x /\ Len(m) \in Nat
       /\ \A i \in 1 .. Len(m) : s[i] = m[i]
       /\ \A i \in 1 .. y : s[Len(m) + i] = p[i]
  BY <1>1, MoreUnits DEF Pending, x, y
<1> HIDE DEF s
<1>14. Pending(f, s, n)
  <2>1. Len(s) = 4 * n + f.idx
    BY <1>3, <1>12, <1>13
  <2>2. ASSUME NEW j \in 1 .. f.idx
        PROVE  f.c[j] = s[4 * n + j]
    <3>1. CASE j \in 1 .. x
      <4>1. 4 * n + j \in 1 .. Len(m)
        BY <1>3, <1>13, <3>1
      <4>2. c.c[j] = m[4 * n + j]
        BY <1>1, <3>1 DEF Pending, x
      <4>3. f.c[j] = c.c[j]
        BY <1>10, <1>12, <3>1, Zenon
      <4>4. s[4 * n + j] = m[4 * n + j]
        BY <1>13, <4>1, Zenon
      <4> QED
        BY <4>2, <4>3, <4>4, Zenon
    <3>2. CASE j \notin 1 .. x
      <4>1. j \in x + 1 .. x + y /\ j - x \in 1 .. y /\ 4 * n + j = Len(m) + (j - x)
        BY <1>3, <1>12, <1>13, <3>2
      <4> QED
        BY <1>9, <1>12, <1>13, <4>1
    <3> QED
      BY <3>1, <3>2
  <2> QED
    BY <2>1, <2>2 DEF Pending
<1>15. Hashed(f.h, k, s, n)
  <2>1. 4 * n <= Len(m)
    BY <1>3, <1>13
  <2> QED
    BY <1>1, <1>12, <2>1, HashedMore DEF s
<1>16. Holds(f, k, s)
  BY <1>2, <1>12, <1>14, <1>15, Zenon DEF Holds
<1> QED
  BY <1>12, <1>16 DEF f, s, x, y

LEMMA ContextExcept ==
    ASSUME NEW c \in Contexts, NEW g \in HashLimbs
    PROVE  /\ [c EXCEPT !.h = g] \in Contexts
           /\ [c EXCEPT !.h = g].r = c.r /\ [c EXCEPT !.h = g].pad = c.pad
           /\ [c EXCEPT !.h = g].h = g /\ [c EXCEPT !.h = g].c = c.c
           /\ [c EXCEPT !.h = g].idx = c.idx
           /\ [c EXCEPT !.h = g, !.idx = 0] \in Contexts
           /\ [c EXCEPT !.h = g, !.idx = 0].r = c.r /\ [c EXCEPT !.h = g, !.idx = 0].pad = c.pad
           /\ [c EXCEPT !.h = g, !.idx = 0].h = g /\ [c EXCEPT !.h = g, !.idx = 0].c = c.c
           /\ [c EXCEPT !.h = g, !.idx = 0].idx = 0
<1> DEFINE e == [c EXCEPT !.h = g]
           f == [c EXCEPT !.h = g, !.idx = 0]
<1>1. c = [r |-> c.r, pad |-> c.pad, h |-> c.h, c |-> c.c, idx |-> c.idx]
      /\ c.r \in ClampedLimbs /\ c.pad \in Seq(Nat) /\ c.c \in MessageLimbs /\ c.idx \in 0 .. 4
  BY DEF Contexts
<1>2. e = [r |-> c.r, pad |-> c.pad, h |-> g, c |-> c.c, idx |-> c.idx]
  BY <1>1
<1>3. f = [r |-> c.r, pad |-> c.pad, h |-> g, c |-> c.c, idx |-> 0]
  <2>1. f = [[c EXCEPT !.h = g] EXCEPT !.idx = 0]
    BY Zenon
  <2>2. f = [[r |-> c.r, pad |-> c.pad, h |-> g, c |-> c.c, idx |-> c.idx] EXCEPT !.idx = 0]
    BY <1>2, <2>1, Zenon
  <2> HIDE DEF f
  <2> QED
    BY <2>2
<1> HIDE DEF e, f
<1>4. 0 \in 0 .. 4
  OBVIOUS
<1>5. e \in Contexts /\ e.r = c.r /\ e.pad = c.pad /\ e.h = g /\ e.c = c.c /\ e.idx = c.idx
  BY <1>1, <1>2 DEF Contexts
<1>6. f \in Contexts /\ f.r = c.r /\ f.pad = c.pad /\ f.h = g /\ f.c = c.c /\ f.idx = 0
  BY <1>1, <1>3, <1>4 DEF Contexts
<1> QED
  BY <1>5, <1>6, Zenon DEF e, f

LEMMA CompleteHolds ==
    ASSUME NEW k \in Keys8, NEW m \in Seq(Units), NEW c, Holds(c, k, m)
    PROVE  /\ Holds(Poly!Complete(c), k, m)
           /\ Poly!Complete(c).idx = IF c.idx = 4 THEN 0 ELSE c.idx
<1>1. CASE c.idx # 4
  BY <1>1 DEF Poly!Complete
<1>2. CASE c.idx = 4
  <2> DEFINE g == Poly!PolyBlock(c.h, c.r, c.c, 1)
             f == [c EXCEPT !.h = g, !.idx = 0]
  <2>1. Poly!Complete(c) = f
    BY <1>2, Zenon DEF Poly!Complete
  <2>2. PICK n \in Nat : Pending(c, m, n) /\ Hashed(c.h, k, m, n)
    BY DEF Holds
  <2>3. c \in Contexts /\ c.r = KeyLimbs(k) /\ c.pad = SubSeq(k, 5, 8) /\ c.c \in MessageLimbs
    BY DEF Holds, Contexts
  <2>4. Len(m) = 4 * n + 4 /\ \A j \in 1 .. 4 : c.c[j] = m[4 * n + j]
    BY <1>2, <2>2 DEF Pending
  <2>5. 4 * (n + 1) = Len(m) /\ n + 1 \in Nat /\ n + 1 \in Nat \ {0} /\ (n + 1) - 1 = n
    BY <2>4
  <2>6. c.c = BlockOf(m, n + 1)
    <3> DEFINE b == BlockOf(m, n + 1)
               d == c.c
    <3>1. b \in MessageLimbs /\ \A j \in 1 .. 4 : b[j] = m[4 * n + j]
      <4>1. 4 * (n + 1) <= Len(m)
        BY <2>5
      <4> QED
        BY <2>5, <4>1, BlockLimbs
    <3> HIDE DEF b, d
    <3>2. b \in Seq(Nat) /\ d \in Seq(Nat) /\ Len(b) = 4 /\ Len(d) = 4
      BY <2>3, <3>1 DEF MessageLimbs, d
    <3>3. \A j \in 1 .. 4 : d[j] = b[j]
      BY <2>4, <3>1 DEF d
    <3>4. d = b
      BY <3>2, <3>3, SeqEqual
    <3> QED
      BY <3>4 DEF b, d
  <2>7. Hashed(g, k, m, n + 1)
    <3>1. 4 * (n + 1) <= Len(m)
      BY <2>5
    <3> QED
      BY <2>2, <2>3, <2>6, <3>1, HashedNext, Zenon
  <2>8. g \in HashLimbs
    BY <2>7 DEF Hashed
  <2> HIDE DEF g
  <2>9. f \in Contexts /\ f.r = c.r /\ f.pad = c.pad /\ f.h = g /\ f.idx = 0
    BY <2>3, <2>8, ContextExcept, Zenon
  <2> HIDE DEF f
  <2>10. Pending(f, m, n + 1)
    BY <2>5, <2>9 DEF Pending
  <2>11. Holds(f, k, m)
    BY <2>3, <2>5, <2>7, <2>9, <2>10, Zenon DEF Holds
  <2> QED
    BY <1>2, <2>1, <2>9, <2>11
<1> QED
  BY <1>1, <1>2
LEMMA BlocksHold ==
    ASSUME NEW k \in Keys8, NEW m \in Seq(Units), NEW p \in Seq(Units), NEW c, Holds(c, k, m),
           c.idx = 0, Len(p) % 4 = 0
    PROVE  /\ Holds([c EXCEPT !.h = Poly!Blocks(c.h, c.r, p)], k, m \o p)
           /\ [c EXCEPT !.h = Poly!Blocks(c.h, c.r, p)].idx = 0
<1> DEFINE q == Len(p) \div 4
           r == c.r
           h == c.h
           s == m \o p
           hash == CHOOSE hash : hash = [i \in 0 .. Len(p) \div 4 |->
                      IF i = 0 THEN h
                      ELSE Poly!PolyBlock(hash[i - 1], r, SubSeq(p, 4 * i - 3, 4 * i), 1)]
<1>1. PICK n \in Nat : Pending(c, m, n) /\ Hashed(h, k, m, n)
  BY DEF Holds
<1>2. /\ c \in Contexts /\ r = KeyLimbs(k) /\ c.pad = SubSeq(k, 5, 8)
      /\ r \in ClampedLimbs /\ h \in HashLimbs
  BY DEF Holds, Contexts
<1>3. q \in Nat /\ Len(p) = 4 * q /\ Len(m) = 4 * n /\ Len(m) \in Nat
      /\ Len(s) = Len(m) + Len(p) /\ s \in Seq(Units)
  <2>1. Len(p) \in Nat /\ Len(m) \in Nat /\ Len(s) = Len(m) + Len(p) /\ s \in Seq(Units)
    BY MoreUnits
  <2>2. Len(m) = 4 * n
    BY <1>1, <2>1 DEF Pending
  <2> DEFINE l == Len(p)
  <2>3. PICK a \in Nat, t \in 0 .. 3 : l = 4 * a + t /\ l \div 4 = a /\ l % 4 = t
    BY <2>1, SplitByFour
  <2>4. l % 4 = 0 /\ l \div 4 = q
    OBVIOUS
  <2> HIDE DEF l, q
  <2>5. q \in Nat /\ l = 4 * q
    BY <2>3, <2>4
  <2> QED
    BY <2>1, <2>2, <2>5 DEF l
<1>4. hash[0] = h /\ \A i \in 1 .. q : hash[i] = Poly!PolyBlock(hash[i - 1], r, BlockOf(p, i), 1)
  <2> DEFINE g == [i \in 1 .. q |-> [v \in HashLimbs |-> Poly!PolyBlock(v, r, BlockOf(p, i), 1)]]
  <2>1. g \in [1 .. q -> [HashLimbs -> HashLimbs]]
    <3>1. ASSUME NEW i \in 1 .. q, NEW v \in HashLimbs
          PROVE  Poly!PolyBlock(v, r, BlockOf(p, i), 1) \in HashLimbs
      <4>1. i \in Nat \ {0} /\ 4 * i <= Len(p) /\ 1 \in 0 .. 1
        <5> HIDE DEF q
        <5> QED
          BY <1>3
      <4>2. BlockOf(p, i) \in MessageLimbs
        BY <4>1, BlockLimbs
      <4> HIDE DEF r
      <4> QED
        BY <1>2, <4>1, <4>2, PolyBlockIs
    <3> HIDE DEF r, q
    <3> QED
      BY <3>1
  <2> HIDE DEF g, q, r, h, hash
  <2>2. PICK f \in [0 .. q -> HashLimbs] : Iterates(f, q, h, g)
    BY <1>2, <1>3, <2>1, Iterated, Zenon
  <2>3. f = [i \in 0 .. q |->
                IF i = 0 THEN h ELSE Poly!PolyBlock(f[i - 1], r, SubSeq(p, 4 * i - 3, 4 * i), 1)]
    <3>1. \A i \in 1 .. q : f[i] = Poly!PolyBlock(f[i - 1], r, SubSeq(p, 4 * i - 3, 4 * i), 1)
      <4> SUFFICES ASSUME NEW i \in 1 .. q
                   PROVE  f[i] = Poly!PolyBlock(f[i - 1], r, SubSeq(p, 4 * i - 3, 4 * i), 1)
        OBVIOUS
      <4>1. f[i] = g[i][f[i - 1]]
        BY <2>2 DEF Iterates
      <4>2. f[i - 1] \in HashLimbs
        BY <1>3
      <4> QED
        BY <4>1, <4>2 DEF g, BlockOf
    <3>2. f[0] = h
      BY <2>2 DEF Iterates
    <3>3. \A i \in 0 .. q : i # 0 => i \in 1 .. q
      BY <1>3
    <3> QED
      BY <3>1, <3>2, <3>3
  <2>4. hash = [i \in 0 .. q |->
                IF i = 0 THEN h ELSE Poly!PolyBlock(hash[i - 1], r, SubSeq(p, 4 * i - 3, 4 * i), 1)]
    BY <2>3, Zenon DEF hash, q
  <2> QED
    BY <1>3, <2>4 DEF BlockOf
<1>5. Poly!Blocks(h, r, p) = hash[q]
  BY Zenon DEF Poly!Blocks
<1> HIDE DEF hash, q, r, h, s
<1>6. \A i \in Nat : i <= q => Hashed(hash[i], k, s, n + i)
  <2> DEFINE S == {i \in Nat : i <= q => Hashed(hash[i], k, s, n + i)}
  <2>1. 0 \in S
    <3>1. Hashed(h, k, s, n)
      <4>1. 4 * n <= Len(m)
        BY <1>3
      <4> QED
        BY <1>1, <4>1, HashedMore DEF s
    <3>2. n + 0 = n
      OBVIOUS
    <3>3. Hashed(hash[0], k, s, n + 0)
      BY <1>4, <3>1, <3>2
    <3> QED
      BY <3>3
  <2>2. ASSUME NEW i \in Nat, i \in S
        PROVE  i + 1 \in S
    <3> SUFFICES ASSUME i + 1 <= q
                 PROVE  Hashed(hash[i + 1], k, s, n + (i + 1))
      OBVIOUS
    <3>1. /\ i + 1 \in 1 .. q /\ (i + 1) - 1 = i /\ i <= q /\ n + i \in Nat
          /\ (n + i) + 1 = n + (i + 1)
      BY <1>3
    <3>2. Hashed(hash[i], k, s, n + i)
      BY <2>2, <3>1
    <3>3. 4 * ((n + i) + 1) <= Len(s)
      BY <1>3
    <3>4. BlockOf(p, i + 1) = BlockOf(s, (n + i) + 1)
      <4>1. /\ 4 * ((n + i) + 1) - 3 \in Len(m) + 1 .. Len(m) + Len(p)
            /\ 4 * ((n + i) + 1) \in Len(m) + 1 .. Len(m) + Len(p)
            /\ 4 * ((n + i) + 1) - 3 - Len(m) = 4 * (i + 1) - 3
            /\ 4 * ((n + i) + 1) - Len(m) = 4 * (i + 1)
        BY <1>3
      <4>2. SubSeq(s, 4 * ((n + i) + 1) - 3, 4 * ((n + i) + 1))
              = SubSeq(p, 4 * ((n + i) + 1) - 3 - Len(m), 4 * ((n + i) + 1) - Len(m))
        <5> DEFINE u == 4 * ((n + i) + 1) - 3
                   w == 4 * ((n + i) + 1)
        <5>1. u \in Len(m) + 1 .. Len(m) + Len(p) /\ w \in Len(m) + 1 .. Len(m) + Len(p)
          BY <4>1
        <5> HIDE DEF u, w
        <5>2. SubSeq(s, u, w) = SubSeq(p, u - Len(m), w - Len(m))
          BY <5>1, SubSeqOfConcat2 DEF s
        <5> QED
          BY <5>2, Zenon DEF u, w
      <4> QED
        BY <4>1, <4>2, Zenon DEF BlockOf
    <3>5. BlockOf(p, i + 1) \in MessageLimbs
      <4>1. i + 1 \in Nat \ {0} /\ 4 * (i + 1) <= Len(p)
        BY <1>3
      <4> QED
        BY <4>1, BlockLimbs
    <3>6. hash[i + 1] = Poly!PolyBlock(hash[i], KeyLimbs(k), BlockOf(p, i + 1), 1)
      BY <1>2, <1>4, <3>1
    <3>7. Hashed(hash[i + 1], k, s, (n + i) + 1)
      BY <1>3, <3>1, <3>2, <3>3, <3>4, <3>5, <3>6, HashedNext
    <3> QED
      BY <3>1, <3>7
  <2> HIDE DEF S
  <2>3. \A i \in Nat : i \in S
    BY <2>1, <2>2, Induction
  <2> QED
    BY <2>3 DEF S
<1>7. Hashed(hash[q], k, s, n + q)
  BY <1>3, <1>6
<1> DEFINE f == [c EXCEPT !.h = hash[q]]
<1>8. hash[q] \in HashLimbs
  BY <1>7 DEF Hashed
<1>9. f \in Contexts /\ f.r = c.r /\ f.pad = c.pad /\ f.h = hash[q] /\ f.idx = c.idx
  BY <1>2, <1>8, ContextExcept, Zenon
<1> HIDE DEF f
<1>10. Pending(f, s, n + q)
  <2>1. Len(s) = 4 * (n + q) + f.idx /\ f.idx = 0
    BY <1>3, <1>9
  <2> QED
    BY <2>1 DEF Pending
<1>11. Holds(f, k, s)
  <2>1. n + q \in Nat
    BY <1>3
  <2> QED
    BY <1>2, <1>7, <1>9, <1>10, <2>1, Zenon DEF Holds, r
<1> QED
  BY <1>5, <1>9, <1>11 DEF f, s, r, h

LEMMA PartsOfUnits ==
    ASSUME NEW p \in Seq(Units), NEW a \in Nat, a <= Len(p)
    PROVE  /\ SubSeq(p, 1, a) \in Seq(Units) /\ Len(SubSeq(p, 1, a)) = a
           /\ SubSeq(p, a + 1, Len(p)) \in Seq(Units) /\ Len(SubSeq(p, a + 1, Len(p))) = Len(p) - a
           /\ SubSeq(p, 1, a) \o SubSeq(p, a + 1, Len(p)) = p
<1>1. Len(p) \in Nat
  BY LenProperties
<1> DEFINE l == Len(p)
<1>2. \A i \in 1 .. a : p[i] \in Units
  <2>1. \A i \in 1 .. a : i \in 1 .. Len(p)
    BY <1>1
  <2> QED
    BY <2>1, ElementOfSeq
<1>3. \A i \in a + 1 .. l : p[i] \in Units
  <2>1. \A i \in a + 1 .. l : i \in 1 .. Len(p)
    BY <1>1
  <2> QED
    BY <2>1, ElementOfSeq
<1> HIDE DEF l
<1>4. l \in Nat /\ a <= l
  BY <1>1 DEF l
<1>5. SubSeq(p, 1, a) \in Seq(Units) /\ Len(SubSeq(p, 1, a)) = a
  <2>1. Len(SubSeq(p, 1, a)) = IF 1 <= a THEN a - 1 + 1 ELSE 0
    BY <1>2, SubSeqProperties
  <2>2. SubSeq(p, 1, a) \in Seq(Units)
    BY <1>2, SubSeqProperties
  <2> QED
    BY <2>1, <2>2
<1>6. SubSeq(p, a + 1, l) \in Seq(Units) /\ Len(SubSeq(p, a + 1, l)) = l - a
  <2>1. /\ SubSeq(p, a + 1, l) \in Seq(Units)
        /\ Len(SubSeq(p, a + 1, l)) = IF a + 1 <= l THEN l - (a + 1) + 1 ELSE 0
    <3>1. a + 1 \in Int /\ l \in Int
      BY <1>4
    <3> QED
      BY <1>3, <3>1, SubSeqProperties
  <2> QED
    BY <1>4, <2>1
<1>7. SubSeq(p, 1, a) \o SubSeq(p, a + 1, l) = p
  <2>1. 1 \in 1 .. l + 1 /\ a \in 1 - 1 .. l /\ l \in a .. l
    BY <1>4
  <2>2. SubSeq(p, 1, a) \o SubSeq(p, a + 1, l) = SubSeq(p, 1, l)
    BY <2>1, ConcatAdjacentSubSeq DEF l
  <2> QED
    BY <2>2, SubSeqFull DEF l
<1> QED
  BY <1>5, <1>6, <1>7 DEF l

LEMMA UnitsAssociate ==
    ASSUME NEW a \in Seq(Units), NEW b \in Seq(Units), NEW c \in Seq(Units)
    PROVE  (a \o b) \o c = a \o (b \o c)
  BY ConcatAssociative

\* Whatever is in the buffer, and whatever the length of a piece.
LEMMA UpdateHolds ==
    ASSUME NEW k \in Keys8, NEW m \in Seq(Units), NEW p \in Seq(Units), NEW c, Holds(c, k, m),
           c.idx # 4
    PROVE  Holds(Poly!Update(c, p), k, m \o p) /\ Poly!Update(c, p).idx # 4
<1>1. CASE p = <<>>
  <2>1. Poly!Update(c, p) = c
    BY <1>1, Zenon DEF Poly!Update
  <2>2. m \o p = m
    BY <1>1, ConcatEmptySeq
  <2> QED
    BY <2>1, <2>2
<1>2. CASE p # <<>>
  <2> DEFINE x == c.idx
             gap == (4 - x) % 4
             aligned == IF gap <= Len(p) THEN gap ELSE Len(p)
             head == SubSeq(p, 1, aligned)
             filled == Poly!Fill(c, head)
             first == Poly!Complete(filled)
             rest == SubSeq(p, aligned + 1, Len(p))
             whole == Len(rest) - (Len(rest) % 4)
             middle == SubSeq(rest, 1, whole)
             tail == SubSeq(rest, whole + 1, Len(rest))
             run == [first EXCEPT !.h = Poly!Blocks(@, c.r, middle)]
  <2>1. Poly!Update(c, p) = Poly!Fill(run, tail)
    BY <1>2, Zenon DEF Poly!Update
  <2>2. x \in 0 .. 3 /\ Len(p) \in Nat
    BY LenProperties DEF Holds, Contexts
  <2>3. /\ gap \in 0 .. 3 /\ x + gap \in {0, 4}
        /\ (x = 0 => gap = 0)
    <3>1. x = 0 \/ x = 1 \/ x = 2 \/ x = 3
      BY <2>2
    <3> QED
      BY <3>1
  <2> HIDE DEF gap
  <2>4. aligned \in Nat /\ aligned <= Len(p) /\ x + aligned <= 4
        /\ (aligned < Len(p) => x + aligned \in {0, 4})
    BY <2>2, <2>3
  <2> HIDE DEF aligned
  <2>5. /\ head \in Seq(Units) /\ Len(head) = aligned
        /\ rest \in Seq(Units) /\ Len(rest) = Len(p) - aligned /\ head \o rest = p
    BY <2>4, PartsOfUnits
  <2> HIDE DEF head, rest
  <2>6. Holds(filled, k, m \o head) /\ filled.idx = x + aligned /\ filled.h = c.h
    BY <2>4, <2>5, FillHolds DEF x
  <2> HIDE DEF filled
  <2>7. m \o head \in Seq(Units)
    BY <2>5, MoreUnits
  <2>8. Holds(first, k, m \o head) /\ first.idx = IF x + aligned = 4 THEN 0 ELSE x + aligned
    BY <2>6, <2>7, CompleteHolds
  <2> HIDE DEF first
  <2>9. Len(rest) \in Nat /\ (Len(rest) > 0 => first.idx = 0) /\ first.idx \in 0 .. 3
    BY <2>2, <2>4, <2>5, <2>8
  <2>10. /\ whole \in Nat /\ whole <= Len(rest) /\ whole % 4 = 0 /\ Len(rest) - whole \in 0 .. 3
         /\ (Len(rest) = 0 => whole = 0)
    <3> DEFINE l == Len(rest)
    <3>1. PICK a \in Nat, t \in 0 .. 3 : l = 4 * a + t /\ l \div 4 = a /\ l % 4 = t
      BY <2>9, SplitByFour
    <3>2. whole = 4 * a
      BY <3>1
    <3> HIDE DEF l, whole
    <3>3. (4 * a) % 4 = 0
      OBVIOUS
    <3>4. l = 4 * a + t
      BY <3>1
    <3> QED
      BY <3>2, <3>3, <3>4 DEF l
  <2> HIDE DEF whole
  <2>11. /\ middle \in Seq(Units) /\ Len(middle) = whole
         /\ tail \in Seq(Units) /\ Len(tail) = Len(rest) - whole /\ middle \o tail = rest
    BY <2>5, <2>10, PartsOfUnits
  <2> HIDE DEF middle, tail
  <2>12. first.r = c.r
    BY <2>8 DEF Holds
  <2>13. Holds(run, k, (m \o head) \o middle) /\ run.idx = first.idx
    <3>1. run = [first EXCEPT !.h = Poly!Blocks(first.h, first.r, middle)]
      BY <2>12, Zenon
    <3>2. CASE first.idx = 0
      <4>1. Len(middle) % 4 = 0
        BY <2>10, <2>11
      <4> DEFINE mh == m \o head
      <4>2. mh \in Seq(Units) /\ Holds(first, k, mh)
        BY <2>7, <2>8
      <4> HIDE DEF mh, run
      <4>3. /\ Holds([first EXCEPT !.h = Poly!Blocks(first.h, first.r, middle)], k, mh \o middle)
            /\ [first EXCEPT !.h = Poly!Blocks(first.h, first.r, middle)].idx = 0
        BY <2>11, <3>2, <4>1, <4>2, BlocksHold
      <4> QED
        BY <3>1, <3>2, <4>3, Zenon DEF mh
    <3>3. CASE first.idx # 0
      <4>1. Len(rest) = 0
        BY <2>9, <3>3
      <4>2. middle = <<>>
        BY <2>10, <2>11, <4>1, EmptySeq
      <4>3. Poly!Blocks(first.h, c.r, <<>>) = first.h
        <5> DEFINE h == first.h
                   r == c.r
                   hash == CHOOSE hash : hash = [i \in 0 .. Len(<<>>) \div 4 |->
                              IF i = 0 THEN h
                              ELSE Poly!PolyBlock(hash[i - 1], r, SubSeq(<<>>, 4 * i - 3, 4 * i), 1)]
        <5>1. Poly!Blocks(h, r, <<>>) = hash[Len(<<>>) \div 4]
          BY Zenon DEF Poly!Blocks
        <5> HIDE DEF h, r
        <5>2. Len(<<>>) \div 4 = 0
          OBVIOUS
        <5>3. [i \in 0 .. 0 |-> h]
                = [i \in 0 .. Len(<<>>) \div 4 |->
                              IF i = 0 THEN h
                              ELSE Poly!PolyBlock([j \in 0 .. 0 |-> h][i - 1], r, SubSeq(<<>>, 4 * i - 3, 4 * i), 1)]
          <6>1. \A i \in 0 .. 0 : i = 0
            OBVIOUS
          <6> QED
            BY <5>2, <6>1
        <5>4. hash = [i \in 0 .. Len(<<>>) \div 4 |->
                              IF i = 0 THEN h
                              ELSE Poly!PolyBlock(hash[i - 1], r, SubSeq(<<>>, 4 * i - 3, 4 * i), 1)]
          BY <5>3, Zenon
        <5> HIDE DEF hash
        <5>5. hash[0] = h
          BY <5>2, <5>4
        <5> QED
          BY <5>1, <5>2, <5>5 DEF h, r
      <4>4. first \in Contexts
        BY <2>8 DEF Holds
      <4>5. [first EXCEPT !.h = first.h] = first
        BY <4>4 DEF Contexts
      <4>6. run = first
        BY <4>2, <4>3, <4>5, Zenon
      <4>7. (m \o head) \o middle = m \o head
        BY <2>7, <4>2, ConcatEmptySeq
      <4> QED
        BY <2>8, <4>6, <4>7, Zenon
    <3> QED
      BY <3>2, <3>3
  <2> HIDE DEF run
  <2>14. (m \o head) \o middle \in Seq(Units)
    BY <2>7, <2>11, MoreUnits
  <2>15. run.idx + Len(tail) <= 3 /\ run.idx + Len(tail) <= 4
    BY <2>9, <2>10, <2>11, <2>13
  <2>16. /\ Holds(Poly!Fill(run, tail), k, ((m \o head) \o middle) \o tail)
         /\ Poly!Fill(run, tail).idx = run.idx + Len(tail)
    <3> DEFINE mhm == (m \o head) \o middle
    <3>1. mhm \in Seq(Units) /\ Holds(run, k, mhm)
      BY <2>13, <2>14
    <3> HIDE DEF mhm
    <3>2. Holds(Poly!Fill(run, tail), k, mhm \o tail) /\ Poly!Fill(run, tail).idx = run.idx + Len(tail)
      BY <2>11, <2>15, <3>1, FillHolds
    <3> QED
      BY <3>2, Zenon DEF mhm
  <2>17. ((m \o head) \o middle) \o tail = m \o p
    <3>1. ((m \o head) \o middle) \o tail = (m \o head) \o (middle \o tail)
      <4> DEFINE mh == m \o head
      <4>1. mh \in Seq(Units)
        BY <2>7
      <4> HIDE DEF mh
      <4>2. (mh \o middle) \o tail = mh \o (middle \o tail)
        BY <2>11, <4>1, UnitsAssociate, Zenon
      <4> QED
        BY <4>2, Zenon DEF mh
    <3>2. (m \o head) \o rest = m \o (head \o rest)
      BY <2>5, UnitsAssociate, Zenon
    <3> QED
      BY <2>5, <2>11, <3>1, <3>2, Zenon
  <2>18. run.idx + Len(tail) # 4
    BY <2>9, <2>11, <2>10, <2>13, <2>15
  <2> QED
    BY <2>1, <2>16, <2>17, <2>18
<1> QED
  BY <1>1, <1>2
-----------------------------------------------------------------------------
(* Poly1305: the end. *)

Digits4(d1, d2, d3, d4) == [i \in 1 .. 4 |-> <<d1, d2, d3, d4>>[i]]

\* The limbs of a number with four digits are the digits.
LEMMA LimbsAre ==
    ASSUME NEW d1 \in Units, NEW d2 \in Units, NEW d3 \in Units, NEW d4 \in Units
    PROVE  /\ ((d4 * Poly!L + d3) * Poly!L + d2) * Poly!L + d1 \in 0 .. Poly!LL * Poly!LL - 1
           /\ Poly!Limbs(((d4 * Poly!L + d3) * Poly!L + d2) * Poly!L + d1)
                = Digits4(d1, d2, d3, d4)
<1> DEFINE R == Poly!L
           y3 == d4 * R + d3
           y2 == y3 * R + d2
           y1 == y2 * R + d1
           W == LimbBits
<1>1. R \in Nat \ {0} /\ Poly!LL = R * R
  BY PolySizes
<1>2. W \in Nat /\ W > 0
  BY PolyOk DEF Poly!PolyAssumption
<1>3. 2 ^ (W * (1 - 1)) = 1
  <2>1. W * (1 - 1) = 0
    BY <1>2
  <2>2. 2 ^ 0 = 1
    OBVIOUS
  <2> QED
    BY <2>1, <2>2
<1>4. 2 ^ (W * (2 - 1)) = R
  <2>1. W * (2 - 1) = W
    BY <1>2
  <2> QED
    BY <2>1 DEF Poly!L
<1>5. 2 ^ (W * (3 - 1)) = R * R
  <2>1. W * (3 - 1) = 2 * W
    BY <1>2
  <2> QED
    BY <1>1, <2>1 DEF Poly!LL
<1>6. 2 ^ (W * (4 - 1)) = R * (R * R)
  <2>1. W * (4 - 1) = W + 2 * W
    BY <1>2
  <2>2. 2 ^ (W + 2 * W) = 2 ^ W * 2 ^ (2 * W)
    <3>1. W \in Nat /\ 2 * W \in Nat /\ W + 2 * W <= PolyBits
      BY <1>2 DEF PolyBits
    <3> QED
      BY <3>1, PowersMultiply
  <2>3. 2 ^ W = R /\ 2 ^ (2 * W) = R * R
    BY <1>1 DEF Poly!LL, Poly!L
  <2> QED
    BY <2>1, <2>2, <2>3, Zenon
<1>7. d1 \in 0 .. R - 1 /\ d2 \in 0 .. R - 1 /\ d3 \in 0 .. R - 1 /\ d4 \in 0 .. R - 1
  BY DEF Units
<1> HIDE DEF R
<1>8. y3 \in Nat /\ y3 <= R * R - 1
  BY <1>1, <1>7, Z3
<1>9. y3 = R * d4 + d3
  BY <1>1, <1>7, Z3
<1>10. y3 % R = d3 /\ y3 \div R = d4
  <2> HIDE DEF y3
  <2>1. d4 \in Int /\ y3 \in Int
    BY <1>7, <1>8
  <2> QED
    BY <1>1, <1>7, <1>9, <2>1, Remainder
<1> HIDE DEF y3
<1>11. y2 \in Nat /\ y2 <= (R * R) * R - 1
  BY <1>1, <1>7, <1>8, Z3
<1>12. y2 = R * y3 + d2
  BY <1>1, <1>7, <1>8, Z3
<1>13. y2 % R = d2 /\ y2 \div R = y3
  <2> HIDE DEF y2
  <2>1. y3 \in Int /\ y2 \in Int
    BY <1>8, <1>11
  <2> QED
    BY <1>1, <1>7, <1>12, <2>1, Remainder
<1> HIDE DEF y2
<1>14. y1 \in Nat /\ y1 <= ((R * R) * R) * R - 1
  BY <1>1, <1>7, <1>11, Z3
<1>15. y1 = R * y2 + d1
  BY <1>1, <1>7, <1>11, Z3
<1>16. y1 % R = d1 /\ y1 \div R = y2
  <2> HIDE DEF y1
  <2>1. y2 \in Int /\ y1 \in Int
    BY <1>11, <1>14
  <2> QED
    BY <1>1, <1>7, <1>15, <2>1, Remainder
<1>17. ((R * R) * R) * R = (R * R) * (R * R)
  BY <1>1, Z3
<1> HIDE DEF y1
<1>18. R * R \in Nat \ {0}
  BY <1>1, Z3
<1>19. y1 \div (R * R) = y3
  BY <1>1, <1>13, <1>14, <1>16, QuotientOfQuotient
<1>20. y1 \div (R * (R * R)) = d4
  <2>1. (y1 \div R) \div (R * R) = y1 \div (R * (R * R))
    BY <1>1, <1>14, <1>18, QuotientOfQuotient
  <2>2. (y2 \div R) \div R = y2 \div (R * R)
    BY <1>1, <1>11, QuotientOfQuotient
  <2> QED
    BY <1>10, <1>13, <1>16, <2>1, <2>2, Zenon
<1>21. d4 % R = d4 /\ y1 \div 1 = y1
  BY <1>1, <1>7, <1>14, RemainderOfSmall
<1> DEFINE l == Poly!Limbs(y1)
<1>22. \A i \in 1 .. 4 : l[i] = (y1 \div 2 ^ (W * (i - 1))) % Poly!L
  BY Zenon DEF Poly!Limbs
<1>23. l = [i \in 1 .. 4 |-> l[i]]
  BY Zenon DEF Poly!Limbs
<1> HIDE DEF l, W
<1>24. l[1] = d1
  BY <1>3, <1>16, <1>21, <1>22 DEF R
<1>25. l[2] = d2
  BY <1>4, <1>13, <1>16, <1>22 DEF R
<1>26. l[3] = d3
  BY <1>5, <1>10, <1>19, <1>22 DEF R
<1>27. l[4] = d4
  BY <1>6, <1>20, <1>21, <1>22 DEF R
<1>28. l = Digits4(d1, d2, d3, d4)
  BY <1>23, <1>24, <1>25, <1>26, <1>27 DEF Digits4
<1>29. y1 \in 0 .. (R * R) * (R * R) - 1
  <2> DEFINE Q == (R * R) * (R * R)
  <2>1. y1 <= Q - 1 /\ Q \in Int
    BY <1>1, <1>14, <1>17, Z3
  <2> HIDE DEF Q
  <2>2. y1 \in 0 .. Q - 1
    BY <1>14, <2>1
  <2> QED
    BY <2>2 DEF Q
<1> QED
  BY <1>1, <1>28, <1>29, Zenon DEF l, y1, y2, y3, R

\* What a number of four limbs and a carry is.
LEMMA CarriedDigits ==
    ASSUME NEW R \in Int,
           NEW a1 \in Int, NEW a2 \in Int, NEW a3 \in Int, NEW a4 \in Int, NEW e \in Int,
           NEW k1 \in Int, NEW k2 \in Int, NEW k3 \in Int, NEW k4 \in Int,
           NEW r1 \in Int, NEW r2 \in Int, NEW r3 \in Int, NEW r4 \in Int,
           e + a1 = R * k1 + r1, k1 + a2 = R * k2 + r2, k2 + a3 = R * k3 + r3,
           k3 + a4 = R * k4 + r4
    PROVE  (((a4 * R + a3) * R + a2) * R + a1) + e
               = k4 * ((R * R) * (R * R)) + (((r4 * R + r3) * R + r2) * R + r1)
<1>1. a1 = R * k1 + r1 - e /\ a2 = R * k2 + r2 - k1 /\ a3 = R * k3 + r3 - k2 /\ a4 = R * k4 + r4 - k3
  OBVIOUS
<1>2. ((((R * k4 + r4 - k3) * R + (R * k3 + r3 - k2)) * R + (R * k2 + r2 - k1)) * R + (R * k1 + r1 - e)) + e
               = k4 * ((R * R) * (R * R)) + (((r4 * R + r3) * R + r2) * R + r1)
  BY Z3
<1> QED
  BY <1>1, <1>2, Zenon
\* How many times Final takes the modulus off.
LEMMA TimesToSubtractIs ==
    ASSUME NEW h \in HashLimbs
    PROVE  \E q \in 0 .. 1 : /\ Poly!TimesToSubtract(h) = q
                             /\ Poly!Value(h) % Poly!Modulus
                                  = Poly!Value(h) + 5 * q + (-(4 * q)) * (Poly!LL * Poly!LL)
<1> DEFINE R == Poly!L
           carry == CHOOSE carry : carry = [i \in 0 .. 4 |->
                        IF i = 0 THEN 5 ELSE (carry[i - 1] + h[i]) \div Poly!L]
           g == [i \in 1 .. 4 |-> [v \in Int |-> (v + h[i]) \div R]]
           a1 == h[1]
           a2 == h[2]
           a3 == h[3]
           a4 == h[4]
           a5 == h[5]
<1>1. Poly!TimesToSubtract(h) = (carry[4] + a5) \div 4
  BY Zenon DEF Poly!TimesToSubtract
<1>2. /\ h \in Seq(Nat) /\ h \in Seq(Int) /\ Len(h) = 5 /\ Len(h) \in 1 .. 5
      /\ a5 <= 4 /\ \A i \in 1 .. 4 : h[i] < R
  BY DEF HashLimbs
<1>3. /\ a1 \in 0 .. R - 1 /\ a2 \in 0 .. R - 1 /\ a3 \in 0 .. R - 1 /\ a4 \in 0 .. R - 1
      /\ a5 \in 0 .. 4 /\ R \in Nat \ {0} /\ R >= 128
      /\ \A i \in 1 .. 4 : h[i] \in Int
  <2>1. R \in Nat /\ R >= 128
    BY PolySizes
  <2>2. a1 \in Nat /\ a2 \in Nat /\ a3 \in Nat /\ a4 \in Nat /\ a5 \in Nat
    BY <1>2, FiveLimbs
  <2>3. a1 < R /\ a2 < R /\ a3 < R /\ a4 < R
    BY <1>2
  <2>4. \A i \in 1 .. 4 : h[i] \in Int
    <3>1. h \in [1 .. 5 -> Nat]
      BY <1>2, LenProperties
    <3> QED
      BY <3>1
  <2> HIDE DEF R, a1, a2, a3, a4, a5
  <2> QED
    BY <1>2, <2>1, <2>2, <2>3, <2>4
<1>4. carry[0] = 5 /\ \A i \in 1 .. 4 : carry[i] = (carry[i - 1] + h[i]) \div R
  <2>1. g \in [1 .. 4 -> [Int -> Int]]
    <3>1. ASSUME NEW i \in 1 .. 4, NEW v \in Int
          PROVE  (v + h[i]) \div R \in Int
      <4>1. v + h[i] \in Int
        BY <1>3
      <4> HIDE DEF R
      <4> QED
        BY <1>3, <4>1
    <3> HIDE DEF R
    <3> QED
      BY <3>1
  <2> DEFINE four == 4
             five == 5
  <2>2. four \in Nat /\ five \in Int /\ g \in [1 .. four -> [Int -> Int]]
    BY <2>1
  <2> HIDE DEF g, R, carry, four, five
  <2>3. PICK f \in [0 .. four -> Int] : Iterates(f, four, five, g)
    BY <2>2, Iterated
  <2>4. f \in [0 .. 4 -> Int] /\ f[0] = 5 /\ \A i \in 1 .. 4 : f[i] = g[i][f[i - 1]]
    BY <2>3, Zenon DEF Iterates, four, five
  <2>5. f = [i \in 0 .. 4 |-> IF i = 0 THEN 5 ELSE (f[i - 1] + h[i]) \div R]
    <3>1. \A i \in 1 .. 4 : f[i] = (f[i - 1] + h[i]) \div R
      <4> SUFFICES ASSUME NEW i \in 1 .. 4
                   PROVE  f[i] = (f[i - 1] + h[i]) \div R
        OBVIOUS
      <4>1. f[i - 1] \in Int
        <5>1. i - 1 \in 0 .. 4
          OBVIOUS
        <5> QED
          BY <2>4, <5>1
      <4> QED
        BY <2>4, <4>1 DEF g
    <3>2. \A i \in 0 .. 4 : i # 0 => i \in 1 .. 4
      OBVIOUS
    <3> QED
      BY <2>4, <3>1, <3>2
  <2>6. carry = [i \in 0 .. 4 |-> IF i = 0 THEN 5 ELSE (carry[i - 1] + h[i]) \div R]
    BY <2>5, Zenon DEF carry, R
  <2> QED
    BY <2>6
<1>5. Poly!Value(h) = (((a5 * R + a4) * R + a3) * R + a2) * R + a1
  BY <1>2, ValueOf
<1>6. /\ carry[1] = (5 + a1) \div R /\ carry[2] = (carry[1] + a2) \div R
      /\ carry[3] = (carry[2] + a3) \div R /\ carry[4] = (carry[3] + a4) \div R
  <2> HIDE DEF R, carry
  <2>1. 1 \in 1 .. 4 /\ 2 \in 1 .. 4 /\ 3 \in 1 .. 4 /\ 4 \in 1 .. 4
        /\ 1 - 1 = 0 /\ 2 - 1 = 1 /\ 3 - 1 = 2 /\ 4 - 1 = 3
    OBVIOUS
  <2> QED
    BY <1>4, <2>1
<1> HIDE DEF R, a1, a2, a3, a4, a5, carry
<1>7. PICK k1 \in Nat, r1 \in 0 .. R - 1 : 5 + a1 = R * k1 + r1 /\ (5 + a1) \div R = k1
  <2>1. 5 + a1 \in Nat
    BY <1>3
  <2> QED
    BY <1>3, <2>1, SplitNat
<1>8. PICK k2 \in Nat, r2 \in 0 .. R - 1 : k1 + a2 = R * k2 + r2 /\ (k1 + a2) \div R = k2
  <2>1. k1 + a2 \in Nat
    BY <1>3
  <2> QED
    BY <1>3, <2>1, SplitNat
<1>9. PICK k3 \in Nat, r3 \in 0 .. R - 1 : k2 + a3 = R * k3 + r3 /\ (k2 + a3) \div R = k3
  <2>1. k2 + a3 \in Nat
    BY <1>3
  <2> QED
    BY <1>3, <2>1, SplitNat
<1>10. PICK k4 \in Nat, r4 \in 0 .. R - 1 : k3 + a4 = R * k4 + r4 /\ (k3 + a4) \div R = k4
  <2>1. k3 + a4 \in Nat
    BY <1>3
  <2> QED
    BY <1>3, <2>1, SplitNat
<1>11. k1 < 2
  <2>1. R * k1 + r1 < 2 * R /\ 2 \in Nat
    BY <1>3, <1>7
  <2> QED
    BY <1>3, <2>1, CarryBelow
<1>12. k2 < 2
  <2>1. R * k2 + r2 < 2 * R /\ 2 \in Nat
    BY <1>3, <1>8, <1>11
  <2> QED
    BY <1>3, <2>1, CarryBelow
<1>13. k3 < 2
  <2>1. R * k3 + r3 < 2 * R /\ 2 \in Nat
    BY <1>3, <1>9, <1>12
  <2> QED
    BY <1>3, <2>1, CarryBelow
<1>14. k4 < 2
  <2>1. R * k4 + r4 < 2 * R /\ 2 \in Nat
    BY <1>3, <1>10, <1>13
  <2> QED
    BY <1>3, <2>1, CarryBelow
<1> DEFINE u == k4 + a5
<1>15. u \in 0 .. 5
  BY <1>3, <1>14
<1>16. carry[4] = k4
  BY <1>6, <1>7, <1>8, <1>9, <1>10
<1>17. Poly!TimesToSubtract(h) = u \div 4
  BY <1>1, <1>16
<1> HIDE DEF u
<1>18. PICK q \in Nat, t \in 0 .. 3 : u = 4 * q + t /\ u \div 4 = q /\ u % 4 = t
  BY <1>15, SplitByFour
<1>19. q \in 0 .. 1
  <2>1. u = 4 * q + t
    BY <1>18
  <2> QED
    BY <1>15, <2>1
<1> DEFINE Q == (R * R) * (R * R)
           Dg == ((r4 * R + r3) * R + r2) * R + r1
           V == (((a5 * R + a4) * R + a3) * R + a2) * R + a1
           X == ((a4 * R + a3) * R + a2) * R + a1
<1>20. X + 5 = k4 * Q + Dg
  <2>1. /\ R \in Int /\ a1 \in Int /\ a2 \in Int /\ a3 \in Int /\ a4 \in Int /\ 5 \in Int
        /\ 5 + a1 = R * k1 + r1 /\ k1 + a2 = R * k2 + r2 /\ k2 + a3 = R * k3 + r3
        /\ k3 + a4 = R * k4 + r4
    BY <1>3, <1>7, <1>8, <1>9, <1>10
  <2> QED
    BY <2>1, CarriedDigits
<1>21. V = a5 * Q + X
  BY <1>3, Z3
<1>22. Dg \in 0 .. Q - 1 /\ X \in 0 .. Q - 1 /\ Poly!LL * Poly!LL = Q
  <2>1. /\ r1 \in Units /\ r2 \in Units /\ r3 \in Units /\ r4 \in Units
        /\ a1 \in Units /\ a2 \in Units /\ a3 \in Units /\ a4 \in Units
    BY <1>3 DEF Units, R
  <2>2. Poly!LL = R * R
    BY PolySizes DEF R
  <2>3. Dg \in 0 .. Poly!LL * Poly!LL - 1
    BY <2>1, LimbsAre, Zenon DEF R
  <2>4. X \in 0 .. Poly!LL * Poly!LL - 1
    BY <2>1, LimbsAre, Zenon DEF R
  <2> QED
    BY <2>2, <2>3, <2>4, Zenon
<1>23. Poly!Modulus = 4 * Q - 5 /\ Q \in Nat /\ Q >= 128
  <2>1. Poly!Modulus = 4 * Q - 5
    BY PolySizes, <1>22
  <2>2. R * R >= 128 /\ R * R \in Nat
    BY <1>3, Z3
  <2> DEFINE S == R * R
  <2>3. S >= 128 /\ S \in Nat
    BY <2>2
  <2> HIDE DEF S
  <2>4. S * S \in Nat /\ S * S >= 128
    BY <2>3, Z3
  <2> QED
    BY <2>1, <2>4 DEF S
<1> HIDE DEF Q, Dg, X, V
<1>24. V + 5 = 4 * (q * Q) + (t * Q + Dg)
  <2>1. k4 + a5 = 4 * q + t
    BY <1>18 DEF u
  <2>2. (k4 + a5) * Q = k4 * Q + a5 * Q /\ (4 * q + t) * Q = 4 * (q * Q) + t * Q
    BY <1>3, <1>23, Z3
  <2>3. k4 * Q \in Int /\ a5 * Q \in Int /\ q * Q \in Int /\ t * Q \in Int /\ Dg \in Int /\ X \in Int
    BY <1>3, <1>22, <1>23, Z3
  <2> DEFINE z1 == k4 * Q
             z2 == a5 * Q
             z3 == q * Q
             z4 == t * Q
  <2>4. z1 + z2 = 4 * z3 + z4 /\ X + 5 = z1 + Dg /\ V = z2 + X
    BY <1>20, <1>21, <2>1, <2>2, Zenon
  <2>5. z1 \in Int /\ z2 \in Int /\ z3 \in Int /\ z4 \in Int /\ Dg \in Int /\ X \in Int
    BY <2>3
  <2> HIDE DEF z1, z2, z3, z4
  <2>6. V + 5 = 4 * z3 + (z4 + Dg)
    BY <2>4, <2>5
  <2> QED
    BY <2>6, Zenon DEF z3, z4
\* What is left is below the modulus.
<1> DEFINE Y == 5 * q + (t * Q + Dg) - 5
           M == 4 * Q - 5
<1>25. Y \in 0 .. M - 1 /\ V = M * q + Y
  <2>1. a5 * Q <= 4 * Q /\ a5 * Q \in Nat
    BY <1>3, <1>23, Z3
  <2> DEFINE z2 == a5 * Q
             z4 == t * Q
  <2>2. V = z2 + X /\ z2 \in Nat /\ z2 <= 4 * Q
    BY <1>21, <2>1
  <2>3. z4 \in Nat /\ z4 <= 3 * Q
    <3>1. t * Q <= 3 * Q /\ t * Q \in Nat
      BY <1>23, Z3
    <3> QED
      BY <3>1
  <2>4. CASE q = 0
    <3>1. 4 * (q * Q) = 0 /\ M * q = 0
      <4>1. 0 * Q = 0 /\ M \in Int /\ M * 0 = 0
        BY <1>23, Z3
      <4> QED
        BY <2>4, <4>1
    <3>2. V + 5 = z4 + Dg /\ Y = 5 * 0 + (z4 + Dg) - 5
      <4>1. V + 5 = 0 + (z4 + Dg)
        BY <1>24, <3>1
      <4> HIDE DEF z4
      <4>2. V + 5 = z4 + Dg
        BY <1>22, <2>3, <4>1
      <4> QED
        BY <2>4, <4>2 DEF z4
    <3> HIDE DEF z4, z2, Y
    <3>3. V \in Nat
      BY <1>22, <2>2
    <3>4. V = Y
      BY <1>22, <2>3, <3>2, <3>3
    <3>5. Y \in 0 .. (4 * Q - 5) - 1
      BY <1>22, <1>23, <2>3, <3>2, <3>3, <3>4
    <3>6. V = M * q + Y
      BY <3>1, <3>3, <3>4
    <3> QED
      BY <3>5, <3>6
  <2>5. CASE q = 1
    <3>1. 4 * (q * Q) = 4 * Q /\ M * q = 4 * Q - 5
      <4>1. 1 * Q = Q /\ M \in Int /\ M * 1 = M
        BY <1>23, Z3
      <4> QED
        BY <2>5, <4>1
    <3>2. V + 5 = 4 * Q + (z4 + Dg) /\ Y = 5 * 1 + (z4 + Dg) - 5
      BY <1>24, <2>5, <3>1
    <3> HIDE DEF z4, z2, Y
    <3>3. V <= 5 * Q - 1 /\ V \in Int
      BY <1>22, <1>23, <2>2
    <3>4. Y = z4 + Dg /\ z4 + Dg <= Q + 4 /\ z4 + Dg \in Nat
      BY <1>22, <1>23, <2>3, <3>2, <3>3
    <3>5. Y \in 0 .. (4 * Q - 5) - 1
      BY <1>23, <3>4
    <3>6. V = (4 * Q - 5) + Y
      BY <1>22, <1>23, <2>3, <3>2, <3>3, <3>4
    <3> QED
      BY <3>1, <3>5, <3>6
  <2> QED
    BY <1>19, <2>4, <2>5
<1>26. V % M = Y
  <2> HIDE DEF Y
  <2>1. M \in Nat \ {0}
    BY <1>23
  <2>2. M * q \in Int
    BY <2>1, Z3
  <2> HIDE DEF M
  <2>3. V \in Int /\ q \in Int
    BY <1>25, <2>2
  <2> QED
    BY <1>25, <2>1, <2>3, Remainder
<1>27. Y = V + 5 * q + (-(4 * q)) * Q
  <2>1. (-(4 * q)) * Q = -(4 * (q * Q)) /\ q * Q \in Int /\ t * Q \in Int
    BY <1>23, Z3
  <2> DEFINE z3 == q * Q
             z4 == t * Q
             z5 == (-(4 * q)) * Q
  <2>2. V + 5 = 4 * z3 + (z4 + Dg) /\ z5 = -(4 * z3) /\ z3 \in Int /\ z4 \in Int
    BY <1>24, <2>1, Zenon
  <2> HIDE DEF z3, z5
  <2>3. V \in Int
    BY <1>3, <1>21, <1>22, <1>23, Z3
  <2>4. Y = 5 * q + (z4 + Dg) - 5
    BY Zenon
  <2> HIDE DEF Y, z4
  <2>5. Y = V + 5 * q + z5
    BY <1>22, <2>2, <2>3, <2>4
  <2> QED
    BY <2>5 DEF z5
<1>28. Poly!TimesToSubtract(h) = q
  BY <1>17, <1>18
<1>29. Poly!Value(h) % Poly!Modulus = Poly!Value(h) + 5 * q + (-(4 * q)) * (Poly!LL * Poly!LL)
  <2> HIDE DEF Y
  <2>1. Poly!Value(h) = V /\ Poly!Modulus = M
    BY <1>5, <1>23 DEF V
  <2> HIDE DEF M
  <2> QED
    BY <1>22, <1>26, <1>27, <2>1, Zenon
<1> QED
  BY <1>19, <1>28, <1>29
\* The last sum of Final.
FinalSum(h, pad) ==
    LET sum[i \in 0 .. 4] ==
            IF i = 0 THEN Poly!TimesToSubtract(h) * 5 * Poly!L
            ELSE sum[i - 1] \div Poly!L + h[i] + pad[i]
    IN  [i \in 1 .. 4 |-> Poly!U32(sum[i])]

LEMMA FinalSumIs ==
    ASSUME NEW h \in HashLimbs, NEW pad \in MessageLimbs
    PROVE  FinalSum(h, pad)
             = Poly!Limbs(((Poly!Value(h) % Poly!Modulus) + Poly!Value(pad)) % 2 ^ (4 * LimbBits))
<1> DEFINE R == Poly!L
           sum == CHOOSE sum : sum = [i \in 0 .. 4 |->
                     IF i = 0 THEN Poly!TimesToSubtract(h) * 5 * Poly!L
                     ELSE sum[i - 1] \div Poly!L + h[i] + pad[i]]
           a1 == h[1] + pad[1]
           a2 == h[2] + pad[2]
           a3 == h[3] + pad[3]
           a4 == h[4] + pad[4]
           a5 == h[5]
<1>1. FinalSum(h, pad) = [i \in 1 .. 4 |-> Poly!U32(sum[i])]
  BY Zenon DEF FinalSum
<1>2. PICK q \in 0 .. 1 : /\ Poly!TimesToSubtract(h) = q
                          /\ Poly!Value(h) % Poly!Modulus
                               = Poly!Value(h) + 5 * q + (-(4 * q)) * (Poly!LL * Poly!LL)
  BY TimesToSubtractIs
<1>3. /\ h \in Seq(Nat) /\ h \in Seq(Int) /\ Len(h) = 5 /\ Len(h) \in 1 .. 5
      /\ h \in [1 .. 5 -> Nat]
  <2>1. h \in Seq(Nat) /\ Len(h) = 5
    BY DEF HashLimbs
  <2>2. h \in [1 .. 5 -> Nat]
    BY <2>1, LenProperties
  <2> QED
    BY <2>1, <2>2
<1>4. /\ pad \in Seq(Nat) /\ pad \in Seq(Int) /\ Len(pad) = 4 /\ Len(pad) \in 1 .. 5
      /\ pad \in [1 .. 4 -> Nat]
  BY FourLimbs DEF MessageLimbs
<1>5. /\ h[1] \in Nat /\ h[2] \in Nat /\ h[3] \in Nat /\ h[4] \in Nat /\ a5 \in Nat
      /\ pad[1] \in Nat /\ pad[2] \in Nat /\ pad[3] \in Nat /\ pad[4] \in Nat
  BY <1>3, <1>4
<1>6. R \in Nat \ {0} /\ R >= 128 /\ Poly!LL = R * R /\ 2 ^ (4 * LimbBits) = Poly!LL * Poly!LL
  BY PolySizes
<1>7. sum[0] = q * 5 * R /\ \A i \in 1 .. 4 : sum[i] = sum[i - 1] \div R + h[i] + pad[i]
  <2> DEFINE g == [i \in 1 .. 4 |-> [v \in Int |-> v \div R + h[i] + pad[i]]]
             four == 4
             first == Poly!TimesToSubtract(h) * 5 * R
  <2>1. g \in [1 .. 4 -> [Int -> Int]]
    <3>1. ASSUME NEW i \in 1 .. 4, NEW v \in Int
          PROVE  v \div R + h[i] + pad[i] \in Int
      <4>1. h[i] \in Nat /\ pad[i] \in Nat
        BY <1>3, <1>4
      <4> HIDE DEF R
      <4>2. v \div R \in Int
        BY <1>6
      <4> QED
        BY <4>1, <4>2
    <3> HIDE DEF R
    <3> QED
      BY <3>1
  <2>2. first \in Int
    <3> HIDE DEF R
    <3>1. q = 0 \/ q = 1
      OBVIOUS
    <3> QED
      BY <1>2, <1>6, <3>1
  <2>3. four \in Nat /\ g \in [1 .. four -> [Int -> Int]]
    BY <2>1
  <2> HIDE DEF g, sum, four, first, R
  <2>4. PICK f \in [0 .. four -> Int] : Iterates(f, four, first, g)
    BY <2>2, <2>3, Iterated
  <2>5. f \in [0 .. 4 -> Int] /\ f[0] = first /\ \A i \in 1 .. 4 : f[i] = g[i][f[i - 1]]
    BY <2>4, Zenon DEF Iterates, four
  <2>6. f = [i \in 0 .. 4 |-> IF i = 0 THEN first ELSE f[i - 1] \div R + h[i] + pad[i]]
    <3>1. \A i \in 1 .. 4 : f[i] = f[i - 1] \div R + h[i] + pad[i]
      <4> SUFFICES ASSUME NEW i \in 1 .. 4
                   PROVE  f[i] = f[i - 1] \div R + h[i] + pad[i]
        OBVIOUS
      <4>1. f[i - 1] \in Int
        <5>1. i - 1 \in 0 .. 4
          OBVIOUS
        <5> QED
          BY <2>5, <5>1
      <4> QED
        BY <2>5, <4>1 DEF g
    <3>2. \A i \in 0 .. 4 : i # 0 => i \in 1 .. 4
      OBVIOUS
    <3> QED
      BY <2>5, <3>1, <3>2
  <2>7. sum = [i \in 0 .. 4 |-> IF i = 0 THEN first ELSE sum[i - 1] \div R + h[i] + pad[i]]
    BY <2>6, Zenon DEF sum, first, R
  <2>8. sum[0] = first /\ \A i \in 1 .. 4 : sum[i] = sum[i - 1] \div R + h[i] + pad[i]
    BY <2>7
  <2>9. first = q * 5 * R
    BY <1>2, Zenon DEF first
  <2> QED
    BY <2>8, <2>9
<1> HIDE DEF sum
<1>8. /\ sum[1] = sum[0] \div R + h[1] + pad[1] /\ sum[2] = sum[1] \div R + h[2] + pad[2]
      /\ sum[3] = sum[2] \div R + h[3] + pad[3] /\ sum[4] = sum[3] \div R + h[4] + pad[4]
  <2> HIDE DEF R
  <2>1. 1 \in 1 .. 4 /\ 2 \in 1 .. 4 /\ 3 \in 1 .. 4 /\ 4 \in 1 .. 4
        /\ 1 - 1 = 0 /\ 2 - 1 = 1 /\ 3 - 1 = 2 /\ 4 - 1 = 3
    OBVIOUS
  <2> QED
    BY <1>7, <2>1
<1>9. a1 \in Nat /\ a2 \in Nat /\ a3 \in Nat /\ a4 \in Nat
  BY <1>5
<1>10. sum[0] \div R = 5 * q
  <2> HIDE DEF R
  <2>1. q * 5 * R = R * (5 * q) + 0 /\ R * (5 * q) \in Int
    BY <1>6, Z3
  <2>2. 0 \in 0 .. R - 1 /\ 5 * q \in Int
    BY <1>6
  <2>3. (R * (5 * q) + 0) \div R = 5 * q
    <3> DEFINE x == R * (5 * q) + 0
    <3>1. x \in Int
      BY <2>1
    <3>2. x = R * (5 * q) + 0
      OBVIOUS
    <3> HIDE DEF x
    <3>3. x \div R = 5 * q
      BY <1>6, <2>2, <3>1, <3>2, Remainder
    <3> QED
      BY <3>3 DEF x
  <2> QED
    BY <1>7, <2>1, <2>3, Zenon
<1>11. \A x \in Nat, y \in Nat, z \in Nat : x + y + z = x + (y + z)
  OBVIOUS
<1>12. sum[1] = 5 * q + a1
  BY <1>5, <1>8, <1>10
<1> HIDE DEF R
<1>13. PICK k1 \in Nat, d1 \in 0 .. R - 1 : 5 * q + a1 = R * k1 + d1 /\ (5 * q + a1) \div R = k1 /\ (5 * q + a1) % R = d1
  <2>1. 5 * q + a1 \in Nat
    BY <1>9
  <2> QED
    BY <1>6, <2>1, SplitNat
<1>14. sum[2] = k1 + a2
  BY <1>5, <1>8, <1>12, <1>13
<1>15. PICK k2 \in Nat, d2 \in 0 .. R - 1 : k1 + a2 = R * k2 + d2 /\ (k1 + a2) \div R = k2 /\ (k1 + a2) % R = d2
  <2>1. k1 + a2 \in Nat
    BY <1>9
  <2> QED
    BY <1>6, <2>1, SplitNat
<1>16. sum[3] = k2 + a3
  BY <1>5, <1>8, <1>14, <1>15
<1>17. PICK k3 \in Nat, d3 \in 0 .. R - 1 : k2 + a3 = R * k3 + d3 /\ (k2 + a3) \div R = k3 /\ (k2 + a3) % R = d3
  <2>1. k2 + a3 \in Nat
    BY <1>9
  <2> QED
    BY <1>6, <2>1, SplitNat
<1>18. sum[4] = k3 + a4
  BY <1>5, <1>8, <1>16, <1>17
<1>19. PICK k4 \in Nat, d4 \in 0 .. R - 1 : k3 + a4 = R * k4 + d4 /\ (k3 + a4) \div R = k4 /\ (k3 + a4) % R = d4
  <2>1. k3 + a4 \in Nat
    BY <1>9
  <2> QED
    BY <1>6, <2>1, SplitNat
<1> DEFINE Dg == ((d4 * R + d3) * R + d2) * R + d1
           Q == (R * R) * (R * R)
<1>20. FinalSum(h, pad) = Digits4(d1, d2, d3, d4)
  <2>1. \A i \in 1 .. 4 : Poly!U32(sum[i]) = sum[i] % R
    BY Zenon DEF Poly!U32, R
  <2>2. sum[1] % R = d1 /\ sum[2] % R = d2 /\ sum[3] % R = d3 /\ sum[4] % R = d4
    BY <1>12, <1>13, <1>14, <1>15, <1>16, <1>17, <1>18, <1>19, Zenon
  <2>3. \A i \in 1 .. 4 : i = 1 \/ i = 2 \/ i = 3 \/ i = 4
    OBVIOUS
  <2>4. \A i \in 1 .. 4 : Poly!U32(sum[i]) = <<d1, d2, d3, d4>>[i]
    BY <2>1, <2>2, <2>3
  <2> QED
    BY <1>1, <2>4 DEF Digits4
<1>21. Dg \in 0 .. Q - 1 /\ Poly!Limbs(Dg) = Digits4(d1, d2, d3, d4)
  <2>1. d1 \in Units /\ d2 \in Units /\ d3 \in Units /\ d4 \in Units
    BY DEF Units, R
  <2>2. Dg \in 0 .. Poly!LL * Poly!LL - 1
    BY <2>1, LimbsAre, Zenon DEF R
  <2>3. Poly!Limbs(Dg) = Digits4(d1, d2, d3, d4)
    BY <2>1, LimbsAre, Zenon DEF R
  <2> QED
    BY <1>6, <2>2, <2>3, Zenon
<1> DEFINE X == ((a4 * R + a3) * R + a2) * R + a1
<1>22. X + 5 * q = k4 * Q + Dg
  <2>1. /\ R \in Int /\ a1 \in Int /\ a2 \in Int /\ a3 \in Int /\ a4 \in Int /\ 5 * q \in Int
        /\ k1 \in Int /\ k2 \in Int /\ k3 \in Int /\ k4 \in Int
        /\ d1 \in Int /\ d2 \in Int /\ d3 \in Int /\ d4 \in Int
    BY <1>6, <1>9
  <2> DEFINE e == 5 * q
  <2>2. e \in Int /\ e + a1 = R * k1 + d1 /\ k1 + a2 = R * k2 + d2 /\ k2 + a3 = R * k3 + d3
        /\ k3 + a4 = R * k4 + d4
    BY <1>13, <1>15, <1>17, <1>19, <2>1
  <2> HIDE DEF a1, a2, a3, a4, e
  <2>3. X + e = k4 * Q + Dg
    BY <2>1, <2>2, CarriedDigits
  <2> QED
    BY <2>3 DEF e
<1>23. Poly!Value(h) + Poly!Value(pad) = a5 * Q + X
  <2>1. /\ Poly!Value(h) = (((h[5] * R + h[4]) * R + h[3]) * R + h[2]) * R + h[1]
        /\ Poly!Value(pad) = ((pad[4] * R + pad[3]) * R + pad[2]) * R + pad[1]
    BY <1>3, <1>4, ValueOf DEF R
  <2> DEFINE H1 == h[1]
             H2 == h[2]
             H3 == h[3]
             H4 == h[4]
             H5 == h[5]
             P1 == pad[1]
             P2 == pad[2]
             P3 == pad[3]
             P4 == pad[4]
  <2>2. /\ H1 \in Int /\ H2 \in Int /\ H3 \in Int /\ H4 \in Int /\ H5 \in Int
        /\ P1 \in Int /\ P2 \in Int /\ P3 \in Int /\ P4 \in Int /\ R \in Int
    BY <1>5, <1>6
  <2> HIDE DEF H1, H2, H3, H4, H5, P1, P2, P3, P4
  <2>3. ((((H5 * R + H4) * R + H3) * R + H2) * R + H1) + (((P4 * R + P3) * R + P2) * R + P1)
          = H5 * ((R * R) * (R * R))
            + ((((H4 + P4) * R + (H3 + P3)) * R + (H2 + P2)) * R + (H1 + P1))
    BY <2>2, Z3
  <2> QED
    BY <2>1, <2>3, Zenon DEF H1, H2, H3, H4, H5, P1, P2, P3, P4
<1>24. Poly!Value(h) \in Int /\ Poly!Value(pad) \in Int
  BY <1>3, <1>4, ValueOf
<1> DEFINE vh == Poly!Value(h)
           vp == Poly!Value(pad)
           T == (vh + 5 * q + (-(4 * q)) * Q) + vp
<1>25. Q \in Nat \ {0} /\ X \in Int
  <2>1. R * R \in Nat /\ R * R >= 1
    BY <1>6, Z3
  <2> DEFINE S == R * R
  <2>2. S \in Nat /\ S >= 1
    BY <2>1
  <2> HIDE DEF S
  <2>3. S * S \in Nat /\ S * S >= 1
    BY <2>2, Z3
  <2>4. Q \in Nat /\ Q >= 1
    BY <2>3, Zenon DEF S
  <2>5. X \in Int
    <3>1. a1 \in Int /\ a2 \in Int /\ a3 \in Int /\ a4 \in Int /\ R \in Int
      BY <1>6, <1>9
    <3> HIDE DEF a1, a2, a3, a4
    <3> QED
      BY <3>1, Z3
  <2> HIDE DEF Q, X
  <2> QED
    BY <2>4, <2>5
<1> HIDE DEF Dg, Q, X, vh, vp
<1>26. T = Q * ((a5 + k4) + (-(4 * q))) + Dg
  <2>1. Q * ((a5 + k4) + (-(4 * q))) = a5 * Q + k4 * Q + (-(4 * q)) * Q
    BY <1>5, <1>25, Z3
  <2>2. a5 * Q \in Int /\ k4 * Q \in Int /\ (-(4 * q)) * Q \in Int
    BY <1>5, <1>25, Z3
  <2> DEFINE z1 == a5 * Q
             z2 == k4 * Q
             z3 == (-(4 * q)) * Q
             z4 == Q * ((a5 + k4) + (-(4 * q)))
  <2>3. /\ z4 = z1 + z2 + z3 /\ X + 5 * q = z2 + Dg /\ vh + vp = z1 + X
        /\ z1 \in Int /\ z2 \in Int /\ z3 \in Int /\ vh \in Int /\ vp \in Int
        /\ T = (vh + 5 * q + z3) + vp
    BY <1>22, <1>23, <1>24, <2>1, <2>2, Zenon DEF vh, vp
  <2> HIDE DEF z1, z2, z3, z4, T
  <2>4. Dg \in Int /\ X \in Int
    BY <1>21, <1>25
  <2>5. T = z4 + Dg
    BY <2>3, <2>4
  <2> QED
    BY <2>5, Zenon DEF z4
<1>27. T % Q = Dg
  <2> DEFINE k == (a5 + k4) + (-(4 * q))
  <2>1. k \in Int /\ Dg \in 0 .. Q - 1 /\ Q \in Nat \ {0}
    BY <1>5, <1>21, <1>25
  <2>2. T = Q * k + Dg
    BY <1>26
  <2> HIDE DEF k, T
  <2>3. T \in Int
    <3>1. Q * k \in Int
      BY <2>1, Z3
    <3> QED
      BY <2>1, <2>2, <3>1
  <2> QED
    BY <2>1, <2>2, <2>3, Remainder
<1>28. (Poly!Value(h) % Poly!Modulus) + Poly!Value(pad) = T /\ 2 ^ (4 * LimbBits) = Q
  BY <1>2, <1>6, Zenon DEF Q, vh, vp
<1> QED
  BY <1>20, <1>21, <1>27, <1>28, Zenon
LEMMA ValueInInt ==
    ASSUME NEW s \in Seq(Int)
    PROVE  Poly!Value(s) \in Int
<1>1. PICK f \in [0 .. Len(s) -> Int] : f[0] = 0 /\ Poly!Value(s) = f[Len(s)]
  BY ValueByLimbs
<1>2. Len(s) \in 0 .. Len(s)
  BY LenProperties
<1> QED
  BY <1>1, <1>2

LEMMA NextSumInt ==
    ASSUME NEW k \in Keys8, NEW v \in Int, NEW b, b \o << 1 >> \in Seq(Int)
    PROVE  NextSum(k, v, b) \in Int
<1> DEFINE M == Poly!Modulus
           w == Poly!Value(b \o <<1>>)
           r == TheKey(k)
           x == (v + w) % M
<1>1. w \in Int /\ M \in Nat \ {0}
  BY ValueInInt, PolyModulus
<1>2. r \in Nat /\ r < 2 ^ PolyBits
  <2>1. KeyLimbs(k) \in ClampedLimbs
    BY KeyIsClamped
  <2> QED
    BY <2>1, KeyIsClamped, LimbsInNat DEF TheKey, ClampedLimbs
<1>3. NextSum(k, v, b) = Poly!TimesModP(x, r)
  BY Zenon DEF NextSum
<1> HIDE DEF M, w, r
<1>4. x \in Nat
  BY <1>1
<1> HIDE DEF x
<1>5. Poly!TimesModP(x, r) = (x * r) % M
  BY <1>2, <1>4, TimesModPIs DEF M
<1>6. x * r \in Int
  BY <1>2, <1>4, Z3
<1>7. (x * r) % M \in Int
  BY <1>1, <1>6
<1> QED
  BY <1>3, <1>5, <1>7

\* The one behind some units.
LEMMA OneBehind ==
    ASSUME NEW b \in Seq(Nat)
    PROVE  /\ b \o <<1>> \in Seq(Nat) /\ b \o <<1>> \in Seq(Int) /\ Len(b \o <<1>>) = Len(b) + 1
           /\ \A i \in 1 .. Len(b) : (b \o <<1>>)[i] = b[i]
           /\ (b \o <<1>>)[Len(b) + 1] = 1
<1> DEFINE s == b \o <<1>>
<1>1. 1 \in Nat
  OBVIOUS
<1>2. s \in Seq(Nat) /\ Len(s) = Len(b) + 1 /\ (\A i \in 1 .. Len(b) : s[i] = b[i]) /\ s[Len(b) + 1] = 1
  BY <1>1, Appended, Zenon
<1> HIDE DEF s
<1>3. s \in Seq(Int)
  BY <1>2
<1> QED
  BY <1>2, <1>3, Zenon DEF s

\* The last block of Final: what is in the buffer, the one behind it, and zeros.
TailOf(c) ==
    [j \in 1 .. 4 |-> IF j <= c.idx THEN c.c[j] ELSE IF j = c.idx + 1 THEN 1 ELSE 0]

LEMMA TailIs ==
    ASSUME NEW c \in Contexts, c.idx \in 1 .. 3, NEW b \in Seq(Units), Len(b) = c.idx,
           \A j \in 1 .. c.idx : b[j] = c.c[j]
    PROVE  /\ TailOf(c) \in MessageLimbs
           /\ Poly!Value(b \o <<1>>) = Poly!Value(TailOf(c)) + 0 * (Poly!LL * Poly!LL)
<1> DEFINE t == TailOf(c)
           s == b \o <<1>>
           R == Poly!L
           x == c.idx
           d == c.c
<1>1. d \in MessageLimbs /\ d \in [1 .. 4 -> Nat] /\ \A j \in 1 .. 4 : d[j] < R
  BY FourLimbs DEF Contexts, MessageLimbs
<1>2. R \in Nat /\ R >= 128
  BY PolySizes
<1>3. /\ t = [j \in 1 .. 4 |-> t[j]]
      /\ \A j \in 1 .. 4 : t[j] = IF j <= x THEN d[j] ELSE IF j = x + 1 THEN 1 ELSE 0
  BY Zenon DEF TailOf
<1>4. s \in Seq(Int) /\ Len(s) = x + 1 /\ (\A j \in 1 .. x : s[j] = d[j]) /\ s[x + 1] = 1
  <2>1. b \in Seq(Nat)
    BY SeqOfUnits
  <2> QED
    BY <2>1, OneBehind
<1> HIDE DEF t, s, R, d
<1>5. x \in 1 .. 3
  OBVIOUS
<1> HIDE DEF x
<1>6. t \in [1 .. 4 -> Nat] /\ \A j \in 1 .. 4 : t[j] < R
  <2>1. ASSUME NEW j \in 1 .. 4 PROVE t[j] \in Nat /\ t[j] < R
    BY <1>1, <1>2, <1>3
  <2> QED
    BY <1>3, <2>1
<1>7. t \in Seq(Nat) /\ Len(t) = 4
  BY <1>6, LimbSeq
<1>8. t \in MessageLimbs
  BY <1>6, <1>7 DEF MessageLimbs, R
<1>9. Poly!Value(t) = ((t[4] * R + t[3]) * R + t[2]) * R + t[1] /\ Poly!Value(t) \in Int
  <2>1. t \in Seq(Int) /\ Len(t) \in 1 .. 5
    BY <1>7
  <2> QED
    BY <1>7, <2>1, ValueOf DEF R
<1>10. d[1] \in Int /\ d[2] \in Int /\ d[3] \in Int
  BY <1>1
<1>11. Len(s) \in 1 .. 5
  BY <1>4, <1>5
<1>12. Poly!Value(s) = Poly!Value(t)
  <2>1. CASE x = 1
    <3>1. t[1] = d[1] /\ t[2] = 1 /\ t[3] = 0 /\ t[4] = 0
      BY <1>3, <2>1
    <3>2. s[1] = d[1] /\ s[2] = 1 /\ Len(s) = 2
      BY <1>4, <2>1
    <3>3. Poly!Value(s) = s[2] * R + s[1]
      BY <1>4, <1>11, <3>2, ValueOf DEF R
    <3>4. ((0 * R + 0) * R + 1) * R + d[1] = 1 * R + d[1]
      <4> DEFINE e == d[1]
      <4>1. e \in Int
        BY <1>10
      <4> HIDE DEF e
      <4>2. ((0 * R + 0) * R + 1) * R + e = 1 * R + e
        BY <1>2, <4>1, Z3
      <4> QED
        BY <4>2 DEF e
    <3> QED
      BY <1>9, <3>1, <3>2, <3>3, <3>4, Zenon
  <2>2. CASE x = 2
    <3>1. t[1] = d[1] /\ t[2] = d[2] /\ t[3] = 1 /\ t[4] = 0
      BY <1>3, <2>2
    <3>2. s[1] = d[1] /\ s[2] = d[2] /\ s[3] = 1 /\ Len(s) = 3
      BY <1>4, <2>2
    <3>3. Poly!Value(s) = (s[3] * R + s[2]) * R + s[1]
      BY <1>4, <1>11, <3>2, ValueOf DEF R
    <3>4. 0 * R + 1 = 1
      BY <1>2, Z3
    <3> QED
      BY <1>9, <3>1, <3>2, <3>3, <3>4, Zenon
  <2>3. CASE x = 3
    <3>1. t[1] = d[1] /\ t[2] = d[2] /\ t[3] = d[3] /\ t[4] = 1
      BY <1>3, <2>3
    <3>2. s[1] = d[1] /\ s[2] = d[2] /\ s[3] = d[3] /\ s[4] = 1 /\ Len(s) = 4
      BY <1>4, <2>3
    <3>3. Poly!Value(s) = ((s[4] * R + s[3]) * R + s[2]) * R + s[1]
      BY <1>4, <1>11, <3>2, ValueOf DEF R
    <3> QED
      BY <1>9, <3>1, <3>2, <3>3, Zenon
  <2> QED
    BY <1>5, <2>1, <2>2, <2>3
<1>13. 0 * (Poly!LL * Poly!LL) = 0
  <2> DEFINE Q == Poly!LL * Poly!LL
  <2>1. Q \in Nat
    BY PolyModulus
  <2> HIDE DEF Q
  <2>2. 0 * Q = 0
    BY <2>1
  <2> QED
    BY <2>2 DEF Q
<1>14. Poly!Value(s) = Poly!Value(t) + 0
  BY <1>9, <1>12
<1> QED
  BY <1>8, <1>13, <1>14, Zenon DEF t, s

\* Finishing gives the authenticator of the message.
LEMMA FinalIsMac ==
    ASSUME NEW k \in Keys8, NEW m \in Seq(Units), NEW c, Holds(c, k, m), c.idx # 4
    PROVE  Poly!Final(c) = Poly!Mac(k, m) /\ \E x \in Nat : Poly!Final(c) = Poly!Limbs(x)
<1> DEFINE endOf(i) == IF 4 * i <= Len(m) THEN 4 * i ELSE Len(m)
           pieceOf(i) == SubSeq(m, 4 * i - 3, endOf(i))
           count == (Len(m) + 3) \div 4
           acc == CHOOSE acc : acc = [i \in 0 .. (Len(m) + 3) \div 4 |->
                     IF i = 0 THEN 0
                     ELSE LET last == IF 4 * i <= Len(m) THEN 4 * i ELSE Len(m)
                          IN  Poly!TimesModP((acc[i - 1]
                                 + Poly!Value(SubSeq(m, 4 * i - 3, last) \o <<1>>)) % Poly!Modulus,
                                 Poly!Value([j \in 1 .. 4 |-> Poly!Clamp(k[j], j)]))]
           hh == IF c.idx = 0 THEN c.h ELSE Poly!PolyBlock(c.h, c.r, TailOf(c), 0)
           x == c.idx
<1>1. Poly!Mac(k, m)
        = Poly!Limbs((acc[count] + Poly!Value(SubSeq(k, 5, 8))) % 2 ^ (4 * LimbBits))
  BY Zenon DEF Poly!Mac
<1>2. Poly!Final(c) = FinalSum(hh, c.pad)
  BY Zenon DEF Poly!Final, FinalSum, TailOf
<1>3. PICK n \in Nat : Pending(c, m, n) /\ Hashed(c.h, k, m, n)
  BY DEF Holds
<1>4. c \in Contexts /\ c.r = KeyLimbs(k) /\ c.pad = SubSeq(k, 5, 8) /\ c.h \in HashLimbs /\ x \in 0 .. 3
  BY DEF Holds, Contexts
<1>5. Len(m) = 4 * n + x /\ \A j \in 1 .. x : c.c[j] = m[4 * n + j]
  BY <1>3 DEF Pending
<1>6. PICK a \in [0 .. n -> Int] : Sums(a, k, m, n) /\ a[n] = Poly!Value(c.h) % Poly!Modulus
  BY <1>3 DEF Hashed
<1>7. count = (IF x = 0 THEN n ELSE n + 1) /\ count \in Nat /\ n <= count
  <2> HIDE DEF x
  <2> DEFINE l == Len(m) + 3
  <2>1. l = 4 * n + x + 3
    BY <1>4, <1>5
  <2>2. l \in Nat
    BY <1>4, <2>1
  <2> HIDE DEF l
  <2>3. PICK b \in Nat, t \in 0 .. 3 : l = 4 * b + t /\ l \div 4 = b /\ l % 4 = t
    BY <2>2, SplitByFour
  <2>4. b = IF x = 0 THEN n ELSE n + 1
    <3>1. 4 * n + x + 3 = 4 * b + t
      BY <2>1, <2>3
    <3> QED
      BY <1>4, <3>1
  <2>5. count = b
    BY <2>3 DEF l
  <2> HIDE DEF count
  <2> QED
    BY <2>4, <2>5
<1> HIDE DEF x
\* The blocks and the part of one behind them.
<1>8. ASSUME NEW i \in 1 .. count
      PROVE  pieceOf(i) \in Seq(Units)
  <2>1. 4 * i - 3 \in Int /\ endOf(i) \in Int /\ 4 * i - 3 >= 1 /\ endOf(i) <= Len(m)
    BY <1>4, <1>5, <1>7
  <2> HIDE DEF endOf
  <2>2. \A j \in 4 * i - 3 .. endOf(i) : j \in 1 .. Len(m)
    BY <2>1, <1>4, <1>5
  <2>3. \A j \in 4 * i - 3 .. endOf(i) : m[j] \in Units
    BY <2>2, ElementOfSeq
  <2> DEFINE lo == 4 * i - 3
             hi == endOf(i)
  <2> HIDE DEF lo, hi
  <2>4. lo \in Int /\ hi \in Int /\ \A j \in lo .. hi : m[j] \in Units
    BY <2>1, <2>3 DEF lo, hi
  <2>5. SubSeq(m, lo, hi) \in Seq(Units)
    BY <2>4, SubSeqProperties
  <2> QED
    BY <2>5 DEF lo, hi
<1>9. \A i \in 1 .. n : pieceOf(i) = BlockOf(m, i)
  <2>1. \A i \in 1 .. n : endOf(i) = 4 * i
    BY <1>4, <1>5
  <2> HIDE DEF endOf
  <2> QED
    BY <2>1 DEF BlockOf
<1>10. pieceOf(n + 1) = SubSeq(m, 4 * n + 1, Len(m))
  <2>1. endOf(n + 1) = Len(m) /\ 4 * (n + 1) - 3 = 4 * n + 1
    BY <1>4, <1>5
  <2> HIDE DEF endOf
  <2> QED
    BY <2>1
<1>11. acc[0] = 0 /\ \A i \in 1 .. count : acc[i] = NextSum(k, acc[i - 1], pieceOf(i))
  <2> DEFINE g == [i \in 1 .. count |-> [v \in Int |-> NextSum(k, v, pieceOf(i))]]
  <2>1. g \in [1 .. count -> [Int -> Int]]
    <3>1. ASSUME NEW i \in 1 .. count, NEW v \in Int
          PROVE  NextSum(k, v, pieceOf(i)) \in Int
      <4> HIDE DEF pieceOf
      <4>1. pieceOf(i) \in Seq(Nat)
        BY <1>8, SeqOfUnits
      <4>2. pieceOf(i) \o <<1>> \in Seq(Int)
        BY <4>1, OneBehind
      <4> QED
        BY <4>2, NextSumInt
    <3> HIDE DEF pieceOf, count
    <3> QED
      BY <3>1
  <2> HIDE DEF g, acc, count, pieceOf
  <2>2. 0 \in Int
    OBVIOUS
  <2>3. PICK f \in [0 .. count -> Int] : Iterates(f, count, 0, g)
    BY <1>7, <2>1, <2>2, Iterated, Zenon
  <2>4. f = [i \in 0 .. count |-> IF i = 0 THEN 0 ELSE NextSum(k, f[i - 1], pieceOf(i))]
    <3>1. \A i \in 1 .. count : f[i] = NextSum(k, f[i - 1], pieceOf(i))
      <4> SUFFICES ASSUME NEW i \in 1 .. count
                   PROVE  f[i] = NextSum(k, f[i - 1], pieceOf(i))
        OBVIOUS
      <4>1. f[i] = g[i][f[i - 1]]
        BY <2>3 DEF Iterates
      <4>2. f[i - 1] \in Int
        BY <1>7
      <4> QED
        BY <4>1, <4>2 DEF g
    <3>2. f[0] = 0
      BY <2>3 DEF Iterates
    <3>3. \A i \in 0 .. count : i # 0 => i \in 1 .. count
      BY <1>7
    <3> QED
      BY <3>1, <3>2, <3>3
  <2>5. acc = [i \in 0 .. count |-> IF i = 0 THEN 0 ELSE NextSum(k, acc[i - 1], pieceOf(i))]
    BY <2>4, Zenon DEF acc, count, pieceOf, endOf, NextSum, TheKey, KeyLimbs
  <2> QED
    BY <1>7, <2>5
<1> HIDE DEF acc, pieceOf
<1>12. \A i \in Nat : i <= n => acc[i] = a[i]
  <2> DEFINE S == {i \in Nat : i <= n => acc[i] = a[i]}
  <2>1. 0 \in S
    BY <1>6, <1>11 DEF Sums
  <2>2. ASSUME NEW i \in Nat, i \in S
        PROVE  i + 1 \in S
    <3> SUFFICES ASSUME i + 1 <= n
                 PROVE  acc[i + 1] = a[i + 1]
      OBVIOUS
    <3> HIDE DEF count
    <3>1. i + 1 \in 1 .. n /\ i + 1 \in 1 .. count /\ (i + 1) - 1 = i
      BY <1>7
    <3>2. acc[i] = a[i]
      BY <2>2, <3>1
    <3>3. acc[i + 1] = NextSum(k, acc[i], BlockOf(m, i + 1))
      BY <1>9, <1>11, <3>1
    <3>4. a[i + 1] = NextSum(k, a[i], BlockOf(m, i + 1))
      BY <1>6, <3>1 DEF Sums
    <3> QED
      BY <3>2, <3>3, <3>4
  <2>3. \A i \in Nat : i \in S
    <3> HIDE DEF S
    <3> QED
      BY <2>1, <2>2, Induction
  <2> QED
    BY <2>3
<1>13. hh \in HashLimbs /\ acc[count] = Poly!Value(hh) % Poly!Modulus
  <2>1. CASE x = 0
    <3>1. hh = c.h /\ count = n
      BY <1>7, <2>1 DEF x
    <3>2. acc[n] = a[n]
      BY <1>12
    <3> QED
      BY <1>4, <1>6, <3>1, <3>2
  <2>2. CASE x # 0
    <3> DEFINE b == SubSeq(m, 4 * n + 1, Len(m))
    <3>1. hh = Poly!PolyBlock(c.h, KeyLimbs(k), TailOf(c), 0) /\ count = n + 1
      BY <1>4, <1>7, <2>2 DEF x
    <3>2. acc[n + 1] = NextSum(k, Poly!Value(c.h) % Poly!Modulus, b)
      <4>1. n + 1 \in 1 .. count /\ (n + 1) - 1 = n
        BY <3>1
      <4>2. acc[n] = a[n]
        BY <1>12
      <4> HIDE DEF count
      <4> QED
        BY <1>6, <1>10, <1>11, <4>1, <4>2
    <3>3. b \in Seq(Units) /\ Len(b) = x /\ \A j \in 1 .. x : b[j] = m[4 * n + j]
      <4> DEFINE lo == 4 * n + 1
                 hi == Len(m)
      <4>1. lo \in Int /\ hi \in Int /\ lo <= hi /\ hi - lo + 1 = x /\ \A j \in 1 .. x : lo + j - 1 = 4 * n + j
        BY <1>4, <1>5, <2>2
      <4>2. \A j \in lo .. hi : m[j] \in Units
        <5>1. \A j \in lo .. hi : j \in 1 .. Len(m)
          BY <4>1
        <5> QED
          BY <5>1, ElementOfSeq
      <4> HIDE DEF lo, hi
      <4>3. /\ SubSeq(m, lo, hi) \in Seq(Units) /\ Len(SubSeq(m, lo, hi)) = hi - lo + 1
            /\ \A j \in 1 .. hi - lo + 1 : SubSeq(m, lo, hi)[j] = m[lo + j - 1]
        BY <4>1, <4>2, SubSeqProperties
      <4>4. b = SubSeq(m, lo, hi)
        BY DEF lo, hi
      <4> HIDE DEF b
      <4> QED
        BY <4>1, <4>3, <4>4
    <3> HIDE DEF b
    <3>4. c.idx \in 1 .. 3
      BY <1>4, <2>2 DEF x
    <3>5. /\ TailOf(c) \in MessageLimbs
          /\ Poly!Value(b \o <<1>>) = Poly!Value(TailOf(c)) + 0 * (Poly!LL * Poly!LL)
      <4>1. Len(b) = c.idx /\ \A j \in 1 .. c.idx : b[j] = c.c[j]
        BY <1>5, <3>3 DEF x
      <4> QED
        BY <1>4, <3>3, <3>4, <4>1, TailIs
    <3>6. 0 \in 0 .. 1
      OBVIOUS
    <3> QED
      BY <1>4, <3>1, <3>2, <3>5, <3>6, NextSumIs
  <2> QED
    BY <2>1, <2>2
<1>14. c.pad \in MessageLimbs
  <2> DEFINE p == SubSeq(k, 5, 8)
  <2>1. \A i \in 5 .. 8 : k[i] \in Units
    <3>1. \A i \in 5 .. 8 : i \in 1 .. 8
      OBVIOUS
    <3> QED
      BY <3>1, Zenon DEF Keys8, Units
  <2>2. 5 \in Int /\ 8 \in Int /\ 5 <= 8 /\ 8 - 5 + 1 = 4
    OBVIOUS
  <2>3. p \in Seq(Units) /\ Len(p) = 4
    <3>1. p \in Seq(Units)
      BY <2>1, SubSeqProperties
    <3>2. Len(p) = IF 5 <= 8 THEN 8 - 5 + 1 ELSE 0
      BY <2>1, SubSeqProperties
    <3> HIDE DEF p
    <3> QED
      BY <3>1, <3>2
  <2> HIDE DEF p
  <2>4. p \in Seq(Nat) /\ \A i \in 1 .. 4 : p[i] < Poly!L
    BY <2>3, SeqOfUnits
  <2>5. p \in MessageLimbs
    BY <2>3, <2>4 DEF MessageLimbs
  <2> QED
    BY <1>4, <2>5 DEF p
<1> HIDE DEF hh, count
<1>15. FinalSum(hh, c.pad)
         = Poly!Limbs(((Poly!Value(hh) % Poly!Modulus) + Poly!Value(c.pad)) % 2 ^ (4 * LimbBits))
  BY <1>13, <1>14, FinalSumIs
<1>16. ((Poly!Value(hh) % Poly!Modulus) + Poly!Value(c.pad)) % 2 ^ (4 * LimbBits) \in Nat
  <2>1. Poly!Value(hh) \in Nat /\ Poly!Value(c.pad) \in Nat
    <3>1. hh \in Seq(Nat) /\ Len(hh) \in 1 .. 5 /\ c.pad \in Seq(Nat) /\ Len(c.pad) \in 1 .. 5
      BY <1>13, <1>14 DEF HashLimbs, MessageLimbs
    <3> QED
      BY <3>1, LimbsInNat
  <2>2. Poly!Modulus \in Nat \ {0} /\ 2 ^ (4 * LimbBits) \in Nat \ {0}
    BY PolyModulus, PolySizes, PowersMultiply, PolyOk DEF Poly!PolyAssumption, PolyBits
  <2> DEFINE M == Poly!Modulus
             Q == 2 ^ (4 * LimbBits)
             hv == Poly!Value(hh)
             b == Poly!Value(c.pad)
  <2> HIDE DEF M, Q, hv, b
  <2>3. hv % M \in Nat
    BY <2>1, <2>2 DEF M, hv
  <2>4. ((hv % M) + b) % Q \in Nat
    BY <2>1, <2>2, <2>3 DEF b, Q
  <2> QED
    BY <2>4 DEF M, Q, hv, b
<1>17. Poly!Final(c) = Poly!Mac(k, m)
  BY <1>1, <1>2, <1>4, <1>13, <1>15, Zenon
<1>18. \E y \in Nat : Poly!Final(c) = Poly!Limbs(y)
  BY <1>2, <1>15, <1>16, Zenon
<1> QED
  BY <1>17, <1>18
-----------------------------------------------------------------------------
(* Poly1305: the promises about its steps *)

PolyInv == v2 \in Keys8 /\ v3 \in Seq(Units) /\ Holds(v1, v2, v3) /\ v1.idx # 4

LEMMA FreshHolds ==
    ASSUME NEW k \in Keys8
    PROVE  Holds(Poly!Fresh(k), k, <<>>) /\ Poly!Fresh(k).idx = 0
<1> DEFINE c == Poly!Fresh(k)
           z == <<0, 0, 0, 0>>
           h == <<0, 0, 0, 0, 0>>
           p == SubSeq(k, 5, 8)
<1>1. c = [r |-> KeyLimbs(k), pad |-> p, h |-> h, c |-> z, idx |-> 0]
  BY Zenon DEF Poly!Fresh, KeyLimbs
<1>2. Poly!L \in Nat /\ Poly!L >= 128
  BY PolySizes
<1>3. z \in MessageLimbs
  BY <1>2 DEF MessageLimbs
<1>4. h \in HashLimbs
  BY <1>2 DEF HashLimbs
<1>5. p \in Seq(Nat)
  <2>1. \A i \in 5 .. 8 : k[i] \in Nat
    BY <1>2 DEF Keys8
  <2> QED
    BY <2>1, SubSeqProperties
<1>6. KeyLimbs(k) \in ClampedLimbs
  BY KeyIsClamped
<1>7. Poly!Value(h) = 0
  <2>1. h \in Seq(Int) /\ Len(h) = 5 /\ Len(h) \in 1 .. 5
    OBVIOUS
  <2>2. Poly!Value(h) = (((h[5] * Poly!L + h[4]) * Poly!L + h[3]) * Poly!L + h[2]) * Poly!L + h[1]
    BY <2>1, ValueOf
  <2>3. h[1] = 0 /\ h[2] = 0 /\ h[3] = 0 /\ h[4] = 0 /\ h[5] = 0
    OBVIOUS
  <2> HIDE DEF h
  <2>4. (((0 * Poly!L + 0) * Poly!L + 0) * Poly!L + 0) * Poly!L + 0 = 0
    <3> DEFINE R == Poly!L
    <3>1. R \in Int
      BY <1>2
    <3> HIDE DEF R
    <3>2. (((0 * R + 0) * R + 0) * R + 0) * R + 0 = 0
      BY <3>1, Z3
    <3> QED
      BY <3>2 DEF R
  <2> QED
    BY <2>2, <2>3, <2>4, Zenon
<1> HIDE DEF h, z, p
<1>8. c \in Contexts /\ c.r = KeyLimbs(k) /\ c.pad = p /\ c.h = h /\ c.idx = 0
  <2> HIDE DEF c
  <2> QED
    BY <1>1, <1>3, <1>4, <1>5, <1>6 DEF Contexts
<1>9. Hashed(h, k, <<>>, 0)
  <2> DEFINE a == [i \in 0 .. 0 |-> 0]
  <2>1. a \in [0 .. 0 -> Int] /\ a[0] = 0
    OBVIOUS
  <2>2. Sums(a, k, <<>>, 0)
    BY DEF Sums
  <2>3. Poly!Value(h) % Poly!Modulus = 0
    <3> DEFINE M == Poly!Modulus
    <3>1. M \in Nat \ {0}
      BY PolyModulus
    <3> HIDE DEF M
    <3>2. 0 % M = 0
      BY <3>1
    <3> QED
      BY <1>7, <3>2 DEF M
  <2> HIDE DEF a
  <2> QED
    BY <1>4, <2>1, <2>2, <2>3 DEF Hashed
<1>10. Pending(c, <<>>, 0)
  <2> HIDE DEF c
  <2>1. Len(<<>>) = 0
    OBVIOUS
  <2> QED
    BY <1>8, <2>1 DEF Pending
<1> HIDE DEF c
<1>11. c.pad = SubSeq(k, 5, 8)
  BY <1>8 DEF p
<1>12. Holds(c, k, <<>>)
  BY <1>8, <1>9, <1>10, <1>11 DEF Holds
<1> QED
  BY <1>8, <1>12 DEF c

LEMMA PolyInvInit == Poly!Init => PolyInv
<1> SUFFICES ASSUME Poly!Init
             PROVE  PolyInv
  OBVIOUS
<1>1. v2 \in Keys8 /\ v1 = Poly!Fresh(v2) /\ v3 = <<>>
  BY PolyOk DEF Poly!Init, Poly!PolyAssumption, Keys8
<1> QED
  BY <1>1, FreshHolds DEF PolyInv

LEMMA PolyInvStep == PolyInv /\ [Poly!Next]_Poly!vars => PolyInv'
<1> SUFFICES ASSUME PolyInv, [Poly!Next]_Poly!vars
             PROVE  PolyInv'
  OBVIOUS
<1>1. CASE Poly!Extend
  <2>1. PICK p \in MacPieces : v3' = v3 \o p /\ v1' = Poly!Update(v1, p)
    BY <1>1 DEF Poly!Extend
  <2>2. v2' = v2
    BY <1>1 DEF Poly!Extend
  <2>3. p \in Seq(Units)
    BY PolyOk DEF Poly!PolyAssumption, Units
  <2>4. Holds(v1', v2, v3 \o p) /\ v1'.idx # 4
    BY <2>1, <2>3, UpdateHolds, Zenon DEF PolyInv
  <2>5. v3 \o p \in Seq(Units)
    BY <2>3, MoreUnits DEF PolyInv
  <2> QED
    BY <2>1, <2>2, <2>4, <2>5, Zenon DEF PolyInv
<1>2. CASE UNCHANGED Poly!vars
  BY <1>2, Zenon DEF PolyInv, Poly!vars
<1> QED
  BY <1>1, <1>2 DEF Poly!Next

LEMMA PolyAuthenticates == PolyInv => Poly!AuthenticatesMessage
<1> SUFFICES ASSUME PolyInv
             PROVE  Poly!AuthenticatesMessage
  OBVIOUS
<1>1. Poly!Final(v1) = Poly!Mac(v2, v3)
  BY FinalIsMac, Zenon DEF PolyInv
<1> QED
  BY <1>1, Zenon DEF Poly!AuthenticatesMessage

LEMMA PolyReduces == PolyInv => Poly!PartlyReduced
<1> DEFINE in == <<Poly!L - 1, Poly!L - 1, Poly!L - 1, Poly!L - 1>>
<1> SUFFICES ASSUME PolyInv
             PROVE  Poly!PartlyReduced
  OBVIOUS
<1>1. v1.h \in HashLimbs /\ v1.r \in ClampedLimbs
  BY DEF PolyInv, Holds, Contexts
<1>2. in \in MessageLimbs
  BY PolySizes DEF MessageLimbs
<1> HIDE DEF in
<1>3. v1.h[5] <= 4
  BY <1>1 DEF HashLimbs
<1>4. ASSUME NEW end \in 0 .. 1
      PROVE  /\ \A i \in 1 .. 4 : Poly!Products(v1.h, v1.r, in, end)[i] < Poly!LL
             /\ Poly!Products(v1.h, v1.r, in, end)[5]
                  + Poly!Products(v1.h, v1.r, in, end)[4] \div Poly!L < Poly!L
             /\ ((Poly!Products(v1.h, v1.r, in, end)[5]
                    + Poly!Products(v1.h, v1.r, in, end)[4] \div Poly!L) \div 4) * 5 < Poly!L
             /\ \A i \in 1 .. 5 : /\ Poly!FiveFourths(v1.r)[i] < Poly!L
                                 /\ (v1.h[5] + end) * Poly!FiveFourths(v1.r)[i] < Poly!L
             /\ Poly!PolyBlock(v1.h, v1.r, in, end)[5] <= 4
  <2> DEFINE x == Poly!Products(v1.h, v1.r, in, end)
  <2>1. x \in Seq(Nat) /\ Len(x) = 5 /\ x[5] <= 15 /\ \A i \in 1 .. 4 : 16 * x[i] <= 10 * Poly!LL
    BY <1>1, <1>2, ProductsAre
  <2>4. \A i \in 1 .. 5 : /\ Poly!FiveFourths(v1.r)[i] < Poly!L
                         /\ (v1.h[5] + end) * Poly!FiveFourths(v1.r)[i] < Poly!L
    BY <1>1, <1>2, ProductsAre
  <2> HIDE DEF x
  <2>2. /\ \A i \in 1 .. 4 : x[i] < Poly!LL
        /\ x[5] + x[4] \div Poly!L < Poly!L /\ ((x[5] + x[4] \div Poly!L) \div 4) * 5 < Poly!L
    BY <2>1, CarryBlockIs
  <2>3. Poly!PolyBlock(v1.h, v1.r, in, end)[5] <= 4
    <3>1. Poly!PolyBlock(v1.h, v1.r, in, end) \in HashLimbs
      BY <1>1, <1>2, PolyBlockIs
    <3> QED
      BY <3>1 DEF HashLimbs
  <2> QED
    BY <2>2, <2>3, <2>4, Zenon DEF x
<1> QED
  BY <1>3, <1>4, Zenon DEF Poly!PartlyReduced, in

-----------------------------------------------------------------------------
(* Poly1305: comparing without branches *)

Bit(a, k) == (a \div 2 ^ k) % 2
Places == 0 .. LimbBits - 1

\* A word that is 0 exactly if none of its bits is set.
IsWord(x) == x \in Units /\ (x = 0 <=> \A k \in Places : Bit(x, k) = 0)

LEMMA SmallPowers ==
    /\ LimbBits \in Nat /\ LimbBits > 6 /\ Poly!L = 2 ^ LimbBits
    /\ \A k \in 0 .. LimbBits : 2 ^ k \in Nat \ {0} /\ 2 ^ (k + 1) = 2 * 2 ^ k
    /\ 2 ^ 0 = 1
<1>1. LimbBits \in Nat /\ LimbBits > 6
  BY PolyOk DEF Poly!PolyAssumption
<1>2. ASSUME NEW k \in 0 .. LimbBits
      PROVE  2 ^ k \in Nat \ {0} /\ 2 ^ (k + 1) = 2 * 2 ^ k
  <2>1. k \in 0 .. 4 * LimbBits + 1 /\ k \in Nat /\ 0 \in Nat /\ k + 0 <= PolyBits
    BY <1>1 DEF PolyBits
  <2>2. 2 ^ k \in Nat \ {0}
    BY <2>1, PowersMultiply
  <2>3. 2 ^ (k + 1) = 2 * 2 ^ k
    BY <2>1, PolyOk DEF Poly!PolyAssumption
  <2> QED
    BY <2>2, <2>3
<1>3. Poly!L = 2 ^ LimbBits
  BY Zenon DEF Poly!L
<1>4. 2 ^ 0 = 1
  OBVIOUS
<1> QED
  BY <1>1, <1>2, <1>3, <1>4

\* The number that has the bits d.
HasBits(f, d) ==
    /\ f \in [0 .. LimbBits -> Nat] /\ f[0] = 0
    /\ \A i \in 1 .. LimbBits : f[i] = f[i - 1] + 2 ^ (i - 1) * d[i]

LEMMA BitsOfWord ==
    ASSUME NEW d \in [1 .. LimbBits -> 0 .. 1], NEW f, HasBits(f, d)
    PROVE  /\ IsWord(f[LimbBits])
           /\ \A k \in Places : Bit(f[LimbBits], k) = d[k + 1]
<1>1. /\ LimbBits \in Nat /\ LimbBits > 6 /\ Poly!L = 2 ^ LimbBits /\ 2 ^ 0 = 1
      /\ \A k \in 0 .. LimbBits : 2 ^ k \in Nat \ {0} /\ 2 ^ (k + 1) = 2 * 2 ^ k
  BY SmallPowers
<1>2. /\ \A i \in 0 .. LimbBits : f[i] \in Nat
      /\ \A i \in Nat : i < LimbBits => f[i + 1] = f[i] + 2 ^ i * d[i + 1]
  <2>1. ASSUME NEW i \in Nat, i < LimbBits
        PROVE  f[i + 1] = f[i] + 2 ^ i * d[i + 1]
    <3>1. i + 1 \in 1 .. LimbBits /\ (i + 1) - 1 = i
      BY <1>1, <2>1
    <3> QED
      BY <3>1, Zenon DEF HasBits
  <2> QED
    BY <2>1 DEF HasBits
\* The bits below place i are less than 2^i.
<1>3. \A i \in Nat : i <= LimbBits => f[i] < 2 ^ i
  <2> DEFINE S == {i \in Nat : i <= LimbBits => f[i] < 2 ^ i}
  <2>1. 0 \in S
    BY <1>1 DEF HasBits
  <2>2. ASSUME NEW i \in Nat, i \in S
        PROVE  i + 1 \in S
    <3> SUFFICES ASSUME i + 1 <= LimbBits
                 PROVE  f[i + 1] < 2 ^ (i + 1)
      OBVIOUS
    <3> DEFINE p == 2 ^ i
               q == 2 ^ (i + 1)
               a == f[i]
               b == d[i + 1]
    <3>1. p \in Nat \ {0} /\ q = 2 * p /\ a \in Nat /\ a < p /\ b \in 0 .. 1
      BY <1>1, <1>2, <2>2
    <3>2. f[i + 1] = a + p * b
      BY <1>1, <1>2
    <3> HIDE DEF p, q, a, b
    <3>3. b = 0 \/ b = 1
      BY <3>1
    <3>4. p * 0 = 0 /\ p * 1 = p
      BY <3>1
    <3>5. a + p * b < q
      BY <3>1, <3>3, <3>4
    <3> QED
      BY <3>2, <3>5 DEF q
  <2>3. \A i \in Nat : i \in S
    <3> HIDE DEF S
    <3> QED
      BY <2>1, <2>2, Induction
  <2> QED
    BY <2>3
\* Those at it and above are a multiple of it, of the bit's parity.
<1>4. ASSUME NEW k \in Places
      PROVE  \E t \in Nat : f[LimbBits] = f[k] + 2 ^ k * (d[k + 1] + 2 * t)
  <2> DEFINE p == 2 ^ k
             a == f[k]
             b == d[k + 1]
             S == {n \in Nat : k + 1 + n <= LimbBits =>
                       /\ \E t \in Nat : f[k + 1 + n] = a + p * (b + 2 * t)
                       /\ \E u \in Nat : 2 ^ (k + 1 + n) = p * (2 * u)}
  <2>1. k \in Nat /\ k < LimbBits /\ p \in Nat \ {0} /\ a \in Nat /\ b \in 0 .. 1
    BY <1>1, <1>2 DEF Places
  <2>2. 0 \in S
    <3>1. k + 1 + 0 = k + 1 /\ f[k + 1] = a + p * b /\ 2 ^ (k + 1) = 2 * p
      BY <1>1, <1>2, <2>1
    <3> HIDE DEF p, a, b
    <3>2. b + 2 * 0 = b /\ p * (2 * 1) = 2 * p
      BY <2>1
    <3>3. f[k + 1] = a + p * (b + 2 * 0)
      BY <3>1, <3>2
    <3>4. 2 ^ (k + 1) = p * (2 * 1)
      BY <3>1, <3>2
    <3>5. 0 \in Nat /\ 1 \in Nat
      OBVIOUS
    <3>6. (\E t \in Nat : f[k + 1] = a + p * (b + 2 * t)) /\ (\E u \in Nat : 2 ^ (k + 1) = p * (2 * u))
      BY <3>3, <3>4, <3>5, Zenon
    <3>7. 0 + k + 1 = k + 1
      BY <2>1
    <3> QED
      BY <3>1, <3>5, <3>6
  <2>3. ASSUME NEW n \in Nat, n \in S
        PROVE  n + 1 \in S
    <3> SUFFICES ASSUME k + 1 + (n + 1) <= LimbBits
                 PROVE  /\ \E t \in Nat : f[k + 1 + (n + 1)] = a + p * (b + 2 * t)
                        /\ \E u \in Nat : 2 ^ (k + 1 + (n + 1)) = p * (2 * u)
      OBVIOUS
    <3> DEFINE j == k + 1 + n
               e == d[j + 1]
               w == 2 ^ j
               x == f[j]
    <3>1. j \in Nat /\ j < LimbBits /\ k + 1 + (n + 1) = j + 1 /\ j <= LimbBits
      BY <1>1, <2>1
    <3>2. PICK t \in Nat : f[j] = a + p * (b + 2 * t)
      BY <2>3, <3>1
    <3>3. PICK u \in Nat : 2 ^ j = p * (2 * u)
      BY <2>3, <3>1
    <3> HIDE DEF j
    <3>4. f[j + 1] = x + w * e /\ 2 ^ (j + 1) = 2 * w /\ e \in 0 .. 1
      BY <1>1, <1>2, <3>1
    <3> HIDE DEF p, a, b, e, x, w
    <3>5. x = a + p * (b + 2 * t) /\ w = p * (2 * u)
      BY <3>2, <3>3 DEF x, w
    <3>6. e \in Nat /\ p \in Nat /\ a \in Nat /\ b \in Nat
      BY <2>1, <3>4
    <3>7. u * e \in Nat
      BY <3>6, ProductInNat
    <3>8. (a + p * (b + 2 * t)) + (p * (2 * u)) * e = a + p * (b + 2 * (t + u * e))
      BY <3>6, Z3
    <3>9. 2 * (p * (2 * u)) = p * (2 * (2 * u))
      BY <3>6, Z3
    <3>10. t + u * e \in Nat /\ 2 * u \in Nat
      BY <3>7
    <3>11. f[j + 1] = a + p * (b + 2 * (t + u * e)) /\ 2 ^ (j + 1) = p * (2 * (2 * u))
      BY <3>4, <3>5, <3>8, <3>9, Zenon
    <3> QED
      BY <3>1, <3>10, <3>11, Zenon
  <2> HIDE DEF S
  <2>4. \A n \in Nat : n \in S
    BY <2>2, <2>3, Induction
  <2>5. LimbBits - (k + 1) \in S /\ k + 1 + (LimbBits - (k + 1)) = LimbBits
    BY <1>1, <2>1, <2>4
  <2> QED
    BY <1>1, <2>5 DEF S
<1>5. ASSUME NEW k \in Places
      PROVE  Bit(f[LimbBits], k) = d[k + 1]
  <2> DEFINE p == 2 ^ k
             a == f[k]
             b == d[k + 1]
             y == f[LimbBits]
  <2>1. k \in Nat /\ k < LimbBits /\ p \in Nat \ {0} /\ a \in 0 .. p - 1 /\ b \in 0 .. 1
    <3>1. k \in Nat /\ k < LimbBits /\ k \in 0 .. LimbBits /\ k + 1 \in 1 .. LimbBits
      BY <1>1 DEF Places
    <3>2. p \in Nat \ {0} /\ a \in Nat /\ a < p
      BY <1>1, <1>2, <1>3, <3>1
    <3>3. b \in 0 .. 1
      BY <3>1
    <3> HIDE DEF p, a, b
    <3> QED
      BY <3>1, <3>2, <3>3
  <2>2. PICK t \in Nat : y = a + p * (b + 2 * t)
    BY <1>4
  <2> HIDE DEF p, a, b, y
  <2> DEFINE g == b + 2 * t
  <2>3. g \in Nat /\ g % 2 = b
    BY <2>1
  <2> HIDE DEF g
  <2>4. y = p * g + a
    BY <2>1, <2>2, <2>3, Z3 DEF g
  <2>5. y \div p = g
    BY <2>1, <2>3, <2>4, Quotient
  <2> QED
    BY <2>3, <2>5, Zenon DEF Bit, y, p, b
<1>6. f[LimbBits] \in Units
  <2>1. f[LimbBits] \in Nat /\ f[LimbBits] < Poly!L
    BY <1>1, <1>2, <1>3
  <2> QED
    BY <1>1, <2>1 DEF Units
<1>7. ASSUME f[LimbBits] = 0, NEW k \in Places
      PROVE  Bit(f[LimbBits], k) = 0
  <2> DEFINE p == 2 ^ k
  <2>1. p \in Nat \ {0}
    BY <1>1 DEF Places
  <2> HIDE DEF p
  <2>2. 0 \div p = 0
    BY <2>1
  <2> QED
    BY <1>7, <2>2 DEF Bit, p
<1>8. ASSUME \A k \in Places : Bit(f[LimbBits], k) = 0
      PROVE  f[LimbBits] = 0
  <2>1. ASSUME NEW i \in Nat, i < LimbBits
        PROVE  d[i + 1] = 0
    <3>1. i \in Places
      BY <1>1, <2>1 DEF Places
    <3> QED
      BY <1>5, <1>8, <3>1
  <2> DEFINE S == {i \in Nat : i <= LimbBits => f[i] = 0}
  <2>2. 0 \in S
    BY DEF HasBits
  <2>3. ASSUME NEW i \in Nat, i \in S
        PROVE  i + 1 \in S
    <3> SUFFICES ASSUME i + 1 <= LimbBits
                 PROVE  f[i + 1] = 0
      OBVIOUS
    <3> DEFINE p == 2 ^ i
    <3>1. i < LimbBits /\ f[i] = 0 /\ p \in Nat
      BY <1>1, <2>3
    <3>2. d[i + 1] = 0 /\ f[i + 1] = f[i] + p * d[i + 1]
      BY <1>2, <2>1, <3>1
    <3> HIDE DEF p
    <3>3. p * 0 = 0
      BY <3>1
    <3> QED
      BY <3>1, <3>2, <3>3
  <2> HIDE DEF S
  <2>4. \A i \in Nat : i \in S
    BY <2>2, <2>3, Induction
  <2> QED
    BY <1>1, <2>4 DEF S
<1> QED
  BY <1>5, <1>6, <1>7, <1>8 DEF IsWord

LEMMA BitsExist ==
    ASSUME NEW d \in [1 .. LimbBits -> 0 .. 1]
    PROVE  \E f : HasBits(f, d)
<1> DEFINE g == [i \in 1 .. LimbBits |-> [v \in Nat |-> v + 2 ^ (i - 1) * d[i]]]
<1>1. LimbBits \in Nat /\ \A k \in 0 .. LimbBits : 2 ^ k \in Nat \ {0}
  BY SmallPowers
<1>2. g \in [1 .. LimbBits -> [Nat -> Nat]]
  <2>1. ASSUME NEW i \in 1 .. LimbBits, NEW v \in Nat
        PROVE  v + 2 ^ (i - 1) * d[i] \in Nat
    <3> DEFINE p == 2 ^ (i - 1)
               e == d[i]
    <3>1. p \in Nat /\ e \in Nat
      BY <1>1
    <3> HIDE DEF p, e
    <3>2. p * e \in Nat
      BY <3>1, ProductInNat
    <3> QED
      BY <3>2 DEF p, e
  <2> QED
    BY <2>1
<1>3. \A i \in 1 .. LimbBits, v \in Nat : g[i][v] = v + 2 ^ (i - 1) * d[i]
  BY Zenon
<1> HIDE DEF g
<1>4. 0 \in Nat
  OBVIOUS
<1>5. PICK f \in [0 .. LimbBits -> Nat] : Iterates(f, LimbBits, 0, g)
  BY <1>1, <1>2, <1>4, Iterated, Zenon
<1>6. ASSUME NEW i \in 1 .. LimbBits
      PROVE  f[i] = f[i - 1] + 2 ^ (i - 1) * d[i]
  <2>1. f[i] = g[i][f[i - 1]]
    BY <1>5, Zenon DEF Iterates
  <2>2. f[i - 1] \in Nat
    BY <1>1
  <2> QED
    BY <1>3, <2>1, <2>2, Zenon
<1>7. f[0] = 0
  BY <1>5, Zenon DEF Iterates
<1> QED
  BY <1>6, <1>7, Zenon DEF HasBits

LEMMA BitsUnique ==
    ASSUME NEW d, NEW f, HasBits(f, d), NEW e, e[0] = 0,
           \A k \in 1 .. LimbBits : e[k] = e[k - 1] + 2 ^ (k - 1) * d[k]
    PROVE  e[LimbBits] = f[LimbBits]
<1> DEFINE S == {k \in Nat : k <= LimbBits => e[k] = f[k]}
<1>1. 0 \in S
  BY DEF HasBits
<1>2. ASSUME NEW k \in Nat, k \in S
      PROVE  k + 1 \in S
  <2> SUFFICES ASSUME k + 1 <= LimbBits
               PROVE  e[k + 1] = f[k + 1]
    OBVIOUS
  <2>1. k + 1 \in 1 .. LimbBits /\ (k + 1) - 1 = k /\ e[k] = f[k]
    BY <1>2, SmallPowers
  <2> QED
    BY <2>1, Zenon DEF HasBits
<1> HIDE DEF S
<1>3. \A k \in Nat : k \in S
  BY <1>1, <1>2, Induction
<1> QED
  BY <1>3, SmallPowers DEF S

\* The words that Xor and Or compute.
LEMMA XorIs ==
    ASSUME NEW a \in Nat, NEW b \in Nat
    PROVE  /\ IsWord(Poly!Xor(a, b))
           /\ \A k \in Places : Bit(Poly!Xor(a, b), k) = (Bit(a, k) + Bit(b, k)) % 2
<1> DEFINE d == [i \in 1 .. LimbBits |-> (((a \div 2 ^ (i - 1)) % 2) + ((b \div 2 ^ (i - 1)) % 2)) % 2]
           value == CHOOSE value : value = [k \in 0 .. LimbBits |->
                       IF k = 0 THEN 0
                       ELSE value[k - 1] + 2 ^ (k - 1)
                              * ((((a \div 2 ^ (k - 1)) % 2) + ((b \div 2 ^ (k - 1)) % 2)) % 2)]
<1>1. LimbBits \in Nat /\ \A k \in 0 .. LimbBits : 2 ^ k \in Nat \ {0}
  BY SmallPowers
<1>2. d \in [1 .. LimbBits -> 0 .. 1]
  <2>1. ASSUME NEW i \in 1 .. LimbBits
        PROVE  (((a \div 2 ^ (i - 1)) % 2) + ((b \div 2 ^ (i - 1)) % 2)) % 2 \in 0 .. 1
    <3> DEFINE p == 2 ^ (i - 1)
               x == (a \div p) % 2
               y == (b \div p) % 2
    <3>1. p \in Nat \ {0}
      BY <1>1
    <3> HIDE DEF p
    <3>2. x \in 0 .. 1 /\ y \in 0 .. 1
      BY <3>1
    <3> HIDE DEF x, y
    <3>3. (x + y) % 2 \in 0 .. 1
      BY <3>2
    <3> QED
      BY <3>3 DEF x, y, p
  <2> QED
    BY <2>1
<1>3. PICK f : HasBits(f, d)
  BY <1>2, BitsExist
<1>4. \A k \in 1 .. LimbBits :
          d[k] = (((a \div 2 ^ (k - 1)) % 2) + ((b \div 2 ^ (k - 1)) % 2)) % 2
  BY Zenon
<1> HIDE DEF d
<1>5. f = [k \in 0 .. LimbBits |->
              IF k = 0 THEN 0
              ELSE f[k - 1] + 2 ^ (k - 1)
                     * ((((a \div 2 ^ (k - 1)) % 2) + ((b \div 2 ^ (k - 1)) % 2)) % 2)]
  <2>1. \A k \in 0 .. LimbBits : k # 0 => k \in 1 .. LimbBits
    BY <1>1
  <2>2. \A k \in 0 .. LimbBits : k # 0 =>
            f[k] = f[k - 1] + 2 ^ (k - 1)
                     * ((((a \div 2 ^ (k - 1)) % 2) + ((b \div 2 ^ (k - 1)) % 2)) % 2)
    BY <1>3, <1>4, <2>1, Zenon DEF HasBits
  <2>3. f[0] = 0 /\ f \in [0 .. LimbBits -> Nat]
    BY <1>3, Zenon DEF HasBits
  <2> QED
    BY <2>2, <2>3, Zenon
<1>6. value = [k \in 0 .. LimbBits |->
                  IF k = 0 THEN 0
                  ELSE value[k - 1] + 2 ^ (k - 1)
                         * ((((a \div 2 ^ (k - 1)) % 2) + ((b \div 2 ^ (k - 1)) % 2)) % 2)]
  BY <1>5, Zenon DEF value
<1>7. Poly!Xor(a, b) = value[LimbBits]
  BY Zenon DEF Poly!Xor, Poly!Bitwise2, value
<1> HIDE DEF value
<1>8. \A k \in 1 .. LimbBits : value[k] = value[k - 1] + 2 ^ (k - 1) * d[k]
  <2>1. \A k \in 1 .. LimbBits : k \in 0 .. LimbBits /\ k # 0
    BY <1>1
  <2> QED
    BY <1>4, <1>6, <2>1, Zenon
<1>9. value[0] = 0
  <2>1. 0 \in 0 .. LimbBits
    BY <1>1
  <2> QED
    BY <1>6, <2>1, Zenon
<1>10. value[LimbBits] = f[LimbBits]
  BY <1>3, <1>8, <1>9, BitsUnique
<1>11. IsWord(f[LimbBits]) /\ \A k \in Places : Bit(f[LimbBits], k) = d[k + 1]
  BY <1>2, <1>3, BitsOfWord
<1>12. ASSUME NEW k \in Places
       PROVE  Bit(Poly!Xor(a, b), k) = (Bit(a, k) + Bit(b, k)) % 2
  <2>1. k + 1 \in 1 .. LimbBits /\ (k + 1) - 1 = k
    BY <1>1 DEF Places
  <2> QED
    BY <1>4, <1>7, <1>10, <1>11, <2>1, Zenon DEF Bit
<1> QED
  BY <1>7, <1>10, <1>11, <1>12, Zenon

LEMMA OrIs ==
    ASSUME NEW a \in Nat, NEW b \in Nat
    PROVE  /\ IsWord(Poly!Or(a, b))
           /\ \A k \in Places : Bit(Poly!Or(a, b), k) = (IF Bit(a, k) + Bit(b, k) = 0 THEN 0 ELSE 1)
<1> DEFINE d == [i \in 1 .. LimbBits |-> (IF ((a \div 2 ^ (i - 1)) % 2) + ((b \div 2 ^ (i - 1)) % 2) = 0 THEN 0 ELSE 1)]
           value == CHOOSE value : value = [k \in 0 .. LimbBits |->
                       IF k = 0 THEN 0
                       ELSE value[k - 1] + 2 ^ (k - 1)
                              * ((IF ((a \div 2 ^ (k - 1)) % 2) + ((b \div 2 ^ (k - 1)) % 2) = 0 THEN 0 ELSE 1))]
<1>1. LimbBits \in Nat /\ \A k \in 0 .. LimbBits : 2 ^ k \in Nat \ {0}
  BY SmallPowers
<1>2. d \in [1 .. LimbBits -> 0 .. 1]
  <2>1. ASSUME NEW i \in 1 .. LimbBits
        PROVE  (IF ((a \div 2 ^ (i - 1)) % 2) + ((b \div 2 ^ (i - 1)) % 2) = 0 THEN 0 ELSE 1) \in 0 .. 1
    <3> DEFINE p == 2 ^ (i - 1)
               x == (a \div p) % 2
               y == (b \div p) % 2
    <3>1. p \in Nat \ {0}
      BY <1>1
    <3> HIDE DEF p
    <3>2. x \in 0 .. 1 /\ y \in 0 .. 1
      BY <3>1
    <3> HIDE DEF x, y
    <3>3. (IF x + y = 0 THEN 0 ELSE 1) \in 0 .. 1
      BY <3>2
    <3> QED
      BY <3>3 DEF x, y, p
  <2> QED
    BY <2>1
<1>3. PICK f : HasBits(f, d)
  BY <1>2, BitsExist
<1>4. \A k \in 1 .. LimbBits :
          d[k] = (IF ((a \div 2 ^ (k - 1)) % 2) + ((b \div 2 ^ (k - 1)) % 2) = 0 THEN 0 ELSE 1)
  BY Zenon
<1> HIDE DEF d
<1>5. f = [k \in 0 .. LimbBits |->
              IF k = 0 THEN 0
              ELSE f[k - 1] + 2 ^ (k - 1)
                     * ((IF ((a \div 2 ^ (k - 1)) % 2) + ((b \div 2 ^ (k - 1)) % 2) = 0 THEN 0 ELSE 1))]
  <2>1. \A k \in 0 .. LimbBits : k # 0 => k \in 1 .. LimbBits
    BY <1>1
  <2>2. \A k \in 0 .. LimbBits : k # 0 =>
            f[k] = f[k - 1] + 2 ^ (k - 1)
                     * ((IF ((a \div 2 ^ (k - 1)) % 2) + ((b \div 2 ^ (k - 1)) % 2) = 0 THEN 0 ELSE 1))
    BY <1>3, <1>4, <2>1, Zenon DEF HasBits
  <2>3. f[0] = 0 /\ f \in [0 .. LimbBits -> Nat]
    BY <1>3, Zenon DEF HasBits
  <2> QED
    BY <2>2, <2>3, Zenon
<1>6. value = [k \in 0 .. LimbBits |->
                  IF k = 0 THEN 0
                  ELSE value[k - 1] + 2 ^ (k - 1)
                         * ((IF ((a \div 2 ^ (k - 1)) % 2) + ((b \div 2 ^ (k - 1)) % 2) = 0 THEN 0 ELSE 1))]
  BY <1>5, Zenon DEF value
<1>7. Poly!Or(a, b) = value[LimbBits]
  BY Zenon DEF Poly!Or, Poly!Bitwise2, value
<1> HIDE DEF value
<1>8. \A k \in 1 .. LimbBits : value[k] = value[k - 1] + 2 ^ (k - 1) * d[k]
  <2>1. \A k \in 1 .. LimbBits : k \in 0 .. LimbBits /\ k # 0
    BY <1>1
  <2> QED
    BY <1>4, <1>6, <2>1, Zenon
<1>9. value[0] = 0
  <2>1. 0 \in 0 .. LimbBits
    BY <1>1
  <2> QED
    BY <1>6, <2>1, Zenon
<1>10. value[LimbBits] = f[LimbBits]
  BY <1>3, <1>8, <1>9, BitsUnique
<1>11. IsWord(f[LimbBits]) /\ \A k \in Places : Bit(f[LimbBits], k) = d[k + 1]
  BY <1>2, <1>3, BitsOfWord
<1>12. ASSUME NEW k \in Places
       PROVE  Bit(Poly!Or(a, b), k) = (IF Bit(a, k) + Bit(b, k) = 0 THEN 0 ELSE 1)
  <2>1. k + 1 \in 1 .. LimbBits /\ (k + 1) - 1 = k
    BY <1>1 DEF Places
  <2> QED
    BY <1>4, <1>7, <1>10, <1>11, <2>1, Zenon DEF Bit
<1> QED
  BY <1>7, <1>10, <1>11, <1>12, Zenon

\* Differing in a bit, or in none, and what the comparison makes of it.
LEMMA Differing ==
    ASSUME NEW a \in Nat
    PROVE  /\ IsWord(Poly!Xor(a, a)) /\ Poly!Xor(a, a) = 0
           /\ \A k \in Places : /\ IsWord(Poly!Xor(a, Poly!Xor(a, 2 ^ k)))
                                /\ Poly!Xor(a, Poly!Xor(a, 2 ^ k)) # 0
<1>1. \A x \in Nat, k \in Places : Bit(x, k) \in 0 .. 1
  <2>1. ASSUME NEW x \in Nat, NEW k \in Places
        PROVE  Bit(x, k) \in 0 .. 1
    <3> DEFINE p == 2 ^ k
    <3>1. p \in Nat \ {0}
      BY SmallPowers DEF Places
    <3> HIDE DEF p
    <3>2. (x \div p) % 2 \in 0 .. 1
      BY <3>1
    <3> QED
      BY <3>2 DEF Bit, p
  <2> QED
    BY <2>1
<1>2. Poly!Xor(a, a) = 0 /\ IsWord(Poly!Xor(a, a))
  <2>1. ASSUME NEW k \in Places
        PROVE  Bit(Poly!Xor(a, a), k) = 0
    <3> DEFINE x == Bit(a, k)
    <3>1. x \in 0 .. 1
      BY <1>1
    <3> HIDE DEF x
    <3>2. (x + x) % 2 = 0
      BY <3>1
    <3> QED
      BY <3>2, XorIs DEF x
  <2> QED
    BY <2>1, XorIs DEF IsWord
<1>3. ASSUME NEW k \in Places
      PROVE  IsWord(Poly!Xor(a, Poly!Xor(a, 2 ^ k))) /\ Poly!Xor(a, Poly!Xor(a, 2 ^ k)) # 0
  <2> DEFINE p == 2 ^ k
             y == Poly!Xor(a, p)
             z == Poly!Xor(a, y)
  <2>1. p \in Nat \ {0}
    BY SmallPowers DEF Places
  <2>2. Bit(p, k) = 1
    <3> HIDE DEF p
    <3>1. p \div p = 1 /\ 1 % 2 = 1
      <4>1. p = p * 1 + 0 /\ 0 \in 0 .. p - 1
        BY <2>1
      <4> QED
        BY <2>1, <4>1, Quotient
    <3> QED
      BY <3>1 DEF Bit, p
  <2> HIDE DEF p
  <2>3. IsWord(y) /\ Bit(y, k) = (Bit(a, k) + Bit(p, k)) % 2
    BY <2>1, XorIs
  <2> HIDE DEF y
  <2>4. y \in Nat
    BY <2>3, PolySizes DEF IsWord, Units
  <2>5. IsWord(z) /\ Bit(z, k) = (Bit(a, k) + Bit(y, k)) % 2
    BY <2>4, XorIs
  <2> HIDE DEF z
  <2>6. Bit(z, k) = 1
    <3> DEFINE u == Bit(a, k)
    <3>1. u \in 0 .. 1
      BY <1>1
    <3> HIDE DEF u
    <3>2. (u + ((u + 1) % 2)) % 2 = 1
      BY <3>1
    <3> QED
      BY <2>2, <2>3, <2>5, <3>2, Zenon DEF u
  <2>7. IsWord(z) /\ z # 0
    BY <2>5, <2>6 DEF IsWord
  <2> QED
    BY <2>7 DEF z, y, p
<1> QED
  BY <1>2, <1>3

LEMMA Joined ==
    ASSUME NEW a, NEW b, IsWord(a), IsWord(b)
    PROVE  IsWord(Poly!Or(a, b)) /\ (Poly!Or(a, b) = 0 <=> a = 0 /\ b = 0)
<1> DEFINE o == Poly!Or(a, b)
<1>1. a \in Nat /\ b \in Nat
  BY PolySizes DEF IsWord, Units
<1>2. IsWord(o) /\ \A k \in Places : Bit(o, k) = IF Bit(a, k) + Bit(b, k) = 0 THEN 0 ELSE 1
  BY <1>1, OrIs
<1> HIDE DEF o
<1>3. \A k \in Places : Bit(a, k) \in Nat /\ Bit(b, k) \in Nat
  <2>1. ASSUME NEW x \in Nat, NEW k \in Places
        PROVE  Bit(x, k) \in Nat
    <3> DEFINE p == 2 ^ k
    <3>1. p \in Nat \ {0}
      BY SmallPowers DEF Places
    <3> HIDE DEF p
    <3>2. (x \div p) % 2 \in Nat
      BY <3>1
    <3> QED
      BY <3>2 DEF Bit, p
  <2> QED
    BY <1>1, <2>1
<1>4. \A k \in Places : Bit(o, k) = 0 <=> Bit(a, k) = 0 /\ Bit(b, k) = 0
  BY <1>2, <1>3
<1>5. o = 0 <=> a = 0 /\ b = 0
  BY <1>2, <1>4 DEF IsWord
<1> QED
  BY <1>2, <1>5 DEF o

LEMMA Neq0Is ==
    ASSUME NEW low, NEW high, IsWord(low), IsWord(high)
    PROVE  Poly!Neq0(low, high) = IF low = 0 /\ high = 0 THEN 0 ELSE -1
<1> DEFINE o == Poly!Or(high, low)
           R == Poly!L
           Q == Poly!LL
<1>1. IsWord(o) /\ (o = 0 <=> low = 0 /\ high = 0)
  BY Joined
<1>2. Poly!Neq0(low, high) = ((((o - 1) % Q) \div R) % 2) - 1
  BY Zenon DEF Poly!Neq0, Poly!U64
<1>3. R \in Nat /\ R >= 128 /\ Q = R * R
  BY PolySizes
<1>4. o \in Nat /\ o < R
  BY <1>1, <1>3 DEF IsWord, Units
<1>5. PICK n \in Nat : R = 2 * n
  <2>1. LimbBits - 1 \in 0 .. LimbBits /\ (LimbBits - 1) + 1 = LimbBits
    BY SmallPowers
  <2>2. R = 2 * 2 ^ (LimbBits - 1) /\ 2 ^ (LimbBits - 1) \in Nat
    <3> HIDE DEF R
    <3>1. 2 ^ LimbBits = 2 * 2 ^ (LimbBits - 1) /\ 2 ^ (LimbBits - 1) \in Nat
      BY <2>1, SmallPowers
    <3> QED
      BY <3>1, SmallPowers DEF R
  <2> HIDE DEF R
  <2> QED
    BY <2>2
<1> HIDE DEF o, R, Q
<1>6. Q \in Nat /\ Q >= R
  <2>1. R * R \in Nat /\ 1 * R <= R * R
    BY <1>3, ProductBound
  <2> QED
    BY <1>3, <2>1
<1>7. CASE o = 0
  <2>1. (o - 1) % Q = Q - 1
    <3>1. o - 1 = Q * (-1) + (Q - 1) /\ Q - 1 \in 0 .. Q - 1
      BY <1>3, <1>6, <1>7
    <3> QED
      BY <1>3, <1>6, <3>1, Remainder
  <2>2. (Q - 1) \div R = R - 1
    <3>1. Q - 1 = R * (R - 1) + (R - 1) /\ R - 1 \in 0 .. R - 1
      BY <1>3, Z3
    <3>2. Q - 1 \in Int /\ R \in Nat \ {0} /\ R - 1 \in Int
      BY <1>3, <1>6
    <3> QED
      BY <3>1, <3>2, Quotient
  <2>3. (R - 1) % 2 = 1
    BY <1>3, <1>5
  <2>4. ((((o - 1) % Q) \div R) % 2) = 1
    BY <2>1, <2>2, <2>3, Zenon
  <2>5. Poly!Neq0(low, high) = 1 - 1
    BY <1>2, <2>4, Zenon
  <2> QED
    BY <1>1, <1>7, <2>5
<1>8. CASE o # 0
  <2>1. (o - 1) % Q = o - 1
    <3>1. o - 1 = Q * 0 + (o - 1) /\ o - 1 \in 0 .. Q - 1
      BY <1>3, <1>4, <1>6, <1>8
    <3> QED
      BY <1>3, <1>6, <3>1, Remainder
  <2>2. (o - 1) \div R = 0
    <3>1. o - 1 = R * 0 + (o - 1) /\ o - 1 \in 0 .. R - 1
      BY <1>3, <1>4, <1>8
    <3> QED
      BY <1>3, <3>1, Quotient
  <2>3. ((((o - 1) % Q) \div R) % 2) = 0 % 2
    BY <2>1, <2>2, Zenon
  <2>4. Poly!Neq0(low, high) = (0 % 2) - 1
    BY <1>2, <2>3, Zenon
  <2>5. (0 % 2) - 1 = -1
    OBVIOUS
  <2>6. ~(low = 0 /\ high = 0)
    BY <1>1, <1>8
  <2> QED
    BY <2>4, <2>5, <2>6
<1> QED
  BY <1>7, <1>8

LEMMA VerifyIs ==
    ASSUME NEW a, NEW b, \A i \in 1 .. 4 : IsWord(Poly!Xor(a[i], b[i]))
    PROVE  Poly!Verify16(a, b) = IF \A i \in 1 .. 4 : Poly!Xor(a[i], b[i]) = 0 THEN 0 ELSE -1
<1> DEFINE d == [i \in 1 .. 4 |-> Poly!Xor(a[i], b[i])]
<1>1. Poly!Verify16(a, b) = Poly!Neq0(Poly!Or(d[1], d[3]), Poly!Or(d[2], d[4]))
  BY Zenon DEF Poly!Verify16
<1>2. \A i \in 1 .. 4 : d[i] = Poly!Xor(a[i], b[i]) /\ IsWord(d[i])
  BY Zenon
<1> HIDE DEF d
<1>3. 1 \in 1 .. 4 /\ 2 \in 1 .. 4 /\ 3 \in 1 .. 4 /\ 4 \in 1 .. 4
  OBVIOUS
<1>4. /\ IsWord(Poly!Or(d[1], d[3])) /\ (Poly!Or(d[1], d[3]) = 0 <=> d[1] = 0 /\ d[3] = 0)
      /\ IsWord(Poly!Or(d[2], d[4])) /\ (Poly!Or(d[2], d[4]) = 0 <=> d[2] = 0 /\ d[4] = 0)
  BY <1>2, <1>3, Joined, Zenon
<1>5. Poly!Verify16(a, b)
        = IF Poly!Or(d[1], d[3]) = 0 /\ Poly!Or(d[2], d[4]) = 0 THEN 0 ELSE -1
  BY <1>1, <1>4, Neq0Is, Zenon
<1>6. (\A i \in 1 .. 4 : d[i] = 0) <=> d[1] = 0 /\ d[2] = 0 /\ d[3] = 0 /\ d[4] = 0
  <2>1. \A i \in 1 .. 4 : i = 1 \/ i = 2 \/ i = 3 \/ i = 4
    OBVIOUS
  <2> QED
    BY <1>3, <2>1, Zenon
<1>7. (\A i \in 1 .. 4 : Poly!Xor(a[i], b[i]) = 0) <=> \A i \in 1 .. 4 : d[i] = 0
  BY <1>2, Zenon
<1> QED
  BY <1>4, <1>5, <1>6, <1>7, Zenon

LEMMA PolyCompares == PolyInv => Poly!VerifySeesEveryBit
<1> SUFFICES ASSUME PolyInv
             PROVE  Poly!VerifySeesEveryBit
  OBVIOUS
<1> DEFINE mac == Poly!Final(v1)
<1>1. mac = [i \in 1 .. 4 |-> mac[i]] /\ \A i \in 1 .. 4 : mac[i] \in Nat
  <2>1. PICK x \in Nat : mac = Poly!Limbs(x)
    BY FinalIsMac, Zenon DEF PolyInv
  <2> HIDE DEF mac
  <2>2. mac = [i \in 1 .. 4 |-> (x \div 2 ^ (LimbBits * (i - 1))) % Poly!L]
    BY <2>1, Zenon DEF Poly!Limbs
  <2>3. ASSUME NEW i \in 1 .. 4
        PROVE  (x \div 2 ^ (LimbBits * (i - 1))) % Poly!L \in Nat
    <3> DEFINE n == LimbBits * (i - 1)
    <3>1. n \in Nat /\ 0 \in Nat /\ n + 0 <= PolyBits
      <4>1. LimbBits * 0 = 0 /\ LimbBits * 1 = LimbBits /\ LimbBits * 2 = LimbBits + LimbBits
            /\ LimbBits * 3 = LimbBits + LimbBits + LimbBits /\ LimbBits \in Nat
        BY SmallPowers
      <4>2. i - 1 = 0 \/ i - 1 = 1 \/ i - 1 = 2 \/ i - 1 = 3
        OBVIOUS
      <4> QED
        BY <4>1, <4>2 DEF PolyBits
    <3> HIDE DEF n
    <3>2. 2 ^ n \in Nat \ {0}
      BY <3>1, PowersMultiply
    <3> DEFINE p == 2 ^ n
               R == Poly!L
    <3>3. p \in Nat \ {0} /\ R \in Nat \ {0}
      BY <3>2, PolySizes
    <3> HIDE DEF p, R
    <3>4. (x \div p) % R \in Nat
      BY <3>3
    <3> QED
      BY <3>4 DEF n, p, R
  <2> QED
    BY <2>2, <2>3, Zenon
<1>2. ASSUME NEW m, m = mac
      PROVE  /\ Poly!Verify16(m, m) = 0
             /\ \A i \in 1 .. 4, k \in 0 .. LimbBits - 1 :
                    Poly!Verify16(m, [m EXCEPT ![i] = Poly!Xor(@, 2 ^ k)]) = -1
  <2> HIDE DEF mac
  <2>1. m = [i \in 1 .. 4 |-> m[i]] /\ \A i \in 1 .. 4 : m[i] \in Nat
    BY <1>1, <1>2
  <2>2. \A i \in 1 .. 4 : IsWord(Poly!Xor(m[i], m[i])) /\ Poly!Xor(m[i], m[i]) = 0
    BY <2>1, Differing, Zenon
  <2>3. Poly!Verify16(m, m) = 0
    BY <2>2, VerifyIs, Zenon
  <2>4. ASSUME NEW i \in 1 .. 4, NEW k \in Places
        PROVE  Poly!Verify16(m, [m EXCEPT ![i] = Poly!Xor(m[i], 2 ^ k)]) = -1
    <3> DEFINE b == [m EXCEPT ![i] = Poly!Xor(m[i], 2 ^ k)]
    <3>1. \A j \in 1 .. 4 : b[j] = IF j = i THEN Poly!Xor(m[i], 2 ^ k) ELSE m[j]
      BY <2>1, Zenon
    <3> HIDE DEF b
    <3>2. IsWord(Poly!Xor(m[i], b[i])) /\ Poly!Xor(m[i], b[i]) # 0
      BY <2>1, <3>1, Differing, Zenon
    <3>3. \A j \in 1 .. 4 : IsWord(Poly!Xor(m[j], b[j]))
      BY <2>2, <3>1, <3>2, Zenon
    <3>4. Poly!Verify16(m, b) = -1
      BY <3>2, <3>3, VerifyIs, Zenon
    <3> QED
      BY <3>4 DEF b
  <2> QED
    BY <2>3, <2>4, Zenon DEF Places
<1> HIDE DEF mac
<1>3. \A m \in {mac} : /\ Poly!Verify16(m, m) = 0
                       /\ \A i \in 1 .. 4, k \in 0 .. LimbBits - 1 :
                            Poly!Verify16(m, [m EXCEPT ![i] = Poly!Xor(@, 2 ^ k)]) = -1
  BY <1>2
<1> QED
  BY <1>3, Zenon DEF Poly!VerifySeesEveryBit, mac

\* The authenticator is that of RFC 8439 for every width of the limbs, every key and
\* every way to cut a message into pieces; no sum leaves its word; and a comparison
\* sees every bit (monocypher.c:145-160 and 304-441).
THEOREM TagsAreStandardAlways == PartsSpec => []TagsAreStandard
<1> DEFINE I == part = "poly1305" => PolyInv
<1>1. PartsInit => I
  BY CryptoPartInit, PolyInvInit
<1>2. I /\ [PartsNext]_partsVars => I'
  BY CryptoPartStep, PolyInvStep
<1>3. I => TagsAreStandard
  BY PolyAuthenticates, PolyReduces, PolyCompares DEF TagsAreStandard
<1> QED
  BY <1>1, <1>2, <1>3, PTL DEF PartsSpec

-----------------------------------------------------------------------------
(* Argon2: where the blocks of a work area are. *)

\* Block o of segment t of lane l.
Place(l, t, o) == l * Argon!LaneSize + (t * Argon!SegmentSize + o)

LEMMA ArgonSizes ==
    ASSUME v1 \in ArgonCalls
    PROVE  /\ Argon!NbLanes \in Nat \ {0} /\ Argon!NbPasses \in Nat \ {0}
           /\ Argon!SegmentSize \in Nat /\ Argon!SegmentSize >= 2
           /\ Argon!LaneSize = 4 * Argon!SegmentSize
           /\ Argon!WorkBlocks = Argon!NbLanes * Argon!LaneSize
           /\ Argon!WorkBlocks < BlockRange /\ Argon!LaneSize < BlockRange /\ BlockRange \in Nat \ {0}
<1> DEFINE n == v1.config.nb_blocks
           p == v1.config.nb_lanes
<1>1. /\ n \in Nat /\ p \in Nat \ {0} /\ v1.config.nb_passes \in Nat \ {0} /\ n >= 8 * p
      /\ n < BlockRange /\ BlockRange \in Nat
  BY ArgonOk DEF Argon!Argon2Assumption, Argon!Configs
<1>2. /\ Argon!NbLanes = p /\ Argon!NbPasses = v1.config.nb_passes
      /\ Argon!SegmentSize = (n \div p) \div 4 /\ Argon!LaneSize = Argon!SegmentSize * 4
      /\ Argon!WorkBlocks = Argon!LaneSize * p
  BY Zenon DEF Argon!NbLanes, Argon!NbPasses, Argon!SegmentSize, Argon!LaneSize, Argon!WorkBlocks
<1> HIDE DEF n, p
<1>3. PICK k \in Nat, r \in 0 .. p - 1 : n = p * k + r /\ n \div p = k
  BY <1>1, SplitNat
<1>4. k >= 8
  <2>1. k <= 7 => p * k <= p * 7
    BY <1>1, Z3
  <2> QED
    BY <1>1, <1>3, <2>1
<1>5. PICK m \in Nat, t \in 0 .. 3 : k = 4 * m + t /\ k \div 4 = m
  BY SplitByFour
<1>6. Argon!SegmentSize = m /\ m >= 2
  BY <1>2, <1>3, <1>4, <1>5
<1>7. p * (m * 4) = (m * 4) * p /\ p * (m * 4) <= p * k /\ p * (m * 4) \in Nat /\ m * 4 <= p * (m * 4)
  <2>1. m * 4 \in Nat /\ m * 4 <= k
    BY <1>5
  <2> DEFINE w == m * 4
  <2> HIDE DEF w
  <2>2. p * w = w * p /\ p * w <= p * k /\ p * w \in Nat /\ w <= p * w
    BY <1>1, <2>1, Z3 DEF w
  <2> QED
    BY <2>2 DEF w
<1>8. p * k \in Nat /\ p * k <= n
  BY <1>1, <1>3
<1> DEFINE x == p * (m * 4)
<1>9. Argon!WorkBlocks = x /\ Argon!LaneSize = m * 4 /\ x <= n /\ m * 4 <= x /\ x \in Nat
  <2>1. Argon!LaneSize = m * 4
    BY <1>2, <1>6, Zenon
  <2>2. Argon!WorkBlocks = (m * 4) * p
    BY <1>2, <2>1, Zenon
  <2>3. (m * 4) * p = x
    BY <1>7, Zenon
  <2> HIDE DEF x
  <2>4. x <= n /\ m * 4 <= x /\ x \in Nat
    <3> DEFINE y == p * k
    <3>1. y \in Nat /\ y <= n /\ x <= y /\ x \in Nat /\ m * 4 <= x
      BY <1>7, <1>8 DEF x
    <3> HIDE DEF y
    <3> QED
      BY <1>1, <3>1
  <2> QED
    BY <2>1, <2>2, <2>3, <2>4, Zenon
<1>10. Argon!WorkBlocks = p * Argon!LaneSize
  BY <1>9, Zenon
<1> HIDE DEF x
<1> QED
  BY <1>1, <1>2, <1>6, <1>9, <1>10

LEMMA PlaceIs ==
    ASSUME v1 \in ArgonCalls, NEW l \in Argon!Lanes, NEW t \in 0 .. 3, NEW o \in 0 .. Argon!SegmentSize - 1
    PROVE  /\ Place(l, t, o) \in 0 .. Argon!WorkBlocks - 1
           /\ Argon!LaneOf(Place(l, t, o)) = l /\ Argon!SliceOf(Place(l, t, o)) = t
           /\ Place(l, t, o) % Argon!LaneSize = t * Argon!SegmentSize + o
<1> DEFINE S == Argon!SegmentSize
           R == Argon!LaneSize
           N == Argon!NbLanes
           q == t * S + o
           b == Place(l, t, o)
<1>1. S \in Nat /\ S >= 2 /\ R = 4 * S /\ N \in Nat /\ Argon!WorkBlocks = N * R /\ l \in 0 .. N - 1
  BY ArgonSizes DEF Argon!Lanes
<1>2. o \in 0 .. S - 1
  OBVIOUS
<1>3. b = l * R + q
  BY Zenon DEF Place
<1> HIDE DEF S, R, N
<1>4. t * S \in Nat /\ t * S <= 3 * S
  <2>1. t = 0 \/ t = 1 \/ t = 2 \/ t = 3
    OBVIOUS
  <2> QED
    BY <1>1, <2>1
<1>5. q \in 0 .. R - 1
  BY <1>1, <1>2, <1>4
<1>6. q \div S = t
  <2>1. q = S * t + o
    BY <1>1, Z3
  <2> HIDE DEF q
  <2>2. q \in Int /\ S \in Nat \ {0} /\ t \in Int
    BY <1>1, <1>5
  <2> QED
    BY <1>2, <2>1, <2>2, Remainder
<1> HIDE DEF q
<1>7. b \in Nat /\ b < N * R
  <2>1. l * R \in Nat /\ (l + 1) * R = l * R + R
    BY <1>1, Z3
  <2>2. (l + 1) * R <= N * R /\ N * R \in Nat
    BY <1>1, Z3
  <2> QED
    BY <1>1, <1>3, <1>5, <2>1, <2>2
<1>8. b % R = q /\ b \div R = l
  <2>1. b = R * l + q
    BY <1>1, <1>3, <1>5, Z3
  <2>2. b \in Int /\ R \in Nat \ {0} /\ l \in Int
    BY <1>1, <1>7
  <2> QED
    BY <1>5, <2>1, <2>2, Remainder
<1> HIDE DEF b
<1>9. Argon!LaneOf(b) = l
  BY <1>8, Zenon DEF Argon!LaneOf, R
<1>10. Argon!SliceOf(b) = t
  BY <1>6, <1>8, Zenon DEF Argon!SliceOf, R, S
<1>11. b \in 0 .. Argon!WorkBlocks - 1
  <2> DEFINE w == N * R
  <2>1. Argon!WorkBlocks = w /\ w \in Int
    BY <1>1, Z3
  <2> HIDE DEF w
  <2> QED
    BY <1>7, <2>1 DEF w
<1> QED
  BY <1>8, <1>9, <1>10, <1>11, Zenon DEF b, q, R, S

\* No two blocks are at one place.
LEMMA PlacesDiffer ==
    ASSUME v1 \in ArgonCalls,
           NEW l \in Argon!Lanes, NEW t \in 0 .. 3, NEW o \in 0 .. Argon!SegmentSize - 1,
           NEW m \in Argon!Lanes, NEW u \in 0 .. 3, NEW r \in 0 .. Argon!SegmentSize - 1,
           Place(l, t, o) = Place(m, u, r)
    PROVE  l = m /\ t = u /\ o = r
<1> DEFINE a == Place(l, t, o)
           b == Place(m, u, r)
<1>0. /\ Argon!LaneOf(a) = l /\ Argon!SliceOf(a) = t /\ a % Argon!LaneSize = t * Argon!SegmentSize + o
      /\ Argon!LaneOf(b) = m /\ Argon!SliceOf(b) = u /\ b % Argon!LaneSize = u * Argon!SegmentSize + r
      /\ a = b
  BY PlaceIs
<1> HIDE DEF a, b
<1>1. l = m /\ t = u
  BY <1>0, Zenon
<1>2. t * Argon!SegmentSize + o = u * Argon!SegmentSize + r
  BY <1>0, Zenon
<1> DEFINE w == t * Argon!SegmentSize
<1>3. w \in Int
  BY ArgonSizes
<1>4. w + o = w + r
  BY <1>1, <1>2
<1> HIDE DEF w
<1>5. o = r
  BY <1>3, <1>4
<1> QED
  BY <1>1, <1>5

\* Within a segment the order of places is that of the blocks.
LEMMA PlacesInOrder ==
    ASSUME v1 \in ArgonCalls, NEW l \in Argon!Lanes, NEW t \in 0 .. 3,
           NEW o \in 0 .. Argon!SegmentSize - 1, NEW r \in 0 .. Argon!SegmentSize - 1
    PROVE  Place(l, t, o) < Place(l, t, r) <=> o < r
<1> DEFINE w == t * Argon!SegmentSize
           x == l * Argon!LaneSize
<1>1. w \in Int /\ x \in Int
  BY ArgonSizes DEF Argon!Lanes
<1>2. Place(l, t, o) = x + (w + o) /\ Place(l, t, r) = x + (w + r)
  BY Zenon DEF Place
<1> HIDE DEF w, x
<1> QED
  BY <1>1, <1>2

\* The blocks from s, n of lane l in pass p that a reference into lane m may be to:
\* how many, and what is known of one at z.
WindowOf(S, p, s, n, l, m) ==
    (IF p = 0 THEN s ELSE 3) * S + (IF m = l THEN n - 1 ELSE IF n = 0 THEN -1 ELSE 0)
Leads(S, p, s, n, l, m, z) ==
    \E t \in 0 .. 3, o \in 0 .. S - 1 :
        /\ ((IF p = 0 THEN 0 ELSE ((s + 1) % 4) * S) + z) % (4 * S) = t * S + o
        /\ p = 0 => t <= s
        /\ t = s => m = l /\ o < n - 1
        /\ ~(n = 0 /\ o = S - 1 /\ t = (s + 3) % 4)

\* In one's own lane these are blocks before the previous one, in another those of
\* segments that no lane is filling.
LEMMA WindowLeads ==
    ASSUME NEW S \in Nat, S >= 2, NEW p \in Nat, NEW s \in 0 .. 3, NEW n \in 0 .. S - 1,
           NEW l, NEW m, p = 0 /\ s = 0 => m = l /\ n >= 2,
           NEW z \in 0 .. WindowOf(S, p, s, n, l, m) - 1, WindowOf(S, p, s, n, l, m) \in Nat
    PROVE  Leads(S, p, s, n, l, m, z)
<1> DEFINE w == WindowOf(S, p, s, n, l, m)
<1> SUFFICES \E t \in 0 .. 3, o \in 0 .. S - 1 :
                /\ ((IF p = 0 THEN 0 ELSE ((s + 1) % 4) * S) + z) % (4 * S) = t * S + o
                /\ p = 0 => t <= s
                /\ t = s => m = l /\ o < n - 1
                /\ ~(n = 0 /\ o = S - 1 /\ t = (s + 3) % 4)
  BY Zenon DEF Leads
<1> DEFINE own == m = l
<1>0. /\ own \in BOOLEAN /\ (p = 0 /\ s = 0 => own /\ n >= 2)
      /\ w = (IF p = 0 THEN s ELSE 3) * S + (IF own THEN n - 1 ELSE IF n = 0 THEN -1 ELSE 0)
      /\ w \in Nat /\ z \in 0 .. w - 1
  BY DEF WindowOf
<1> HIDE DEF w
<1>1. S \in Nat \ {0}
  OBVIOUS
<1>2. s = 0 \/ s = 1 \/ s = 2 \/ s = 3
  OBVIOUS
\* A place k segments and r blocks into the window, or a lane further.
<1>3. ASSUME NEW x \in Nat, x < 8 * S
      PROVE  \E k \in 0 .. 7, o \in 0 .. S - 1 : x = k * S + o
  <2>1. PICK k \in Nat, o \in 0 .. S - 1 : x = S * k + o
    BY <1>1, SplitNat
  <2>2. k >= 8 => S * k >= S * 8
    BY Z3
  <2>3. S * k = k * S /\ S * k \in Nat
    BY Z3
  <2>4. k \in 0 .. 7
    BY <1>3, <2>1, <2>2, <2>3
  <2> QED
    BY <2>1, <2>3, <2>4
<1>4. ASSUME NEW x \in Nat, NEW t \in 0 .. 3, NEW o \in 0 .. S - 1,
             x = t * S + o \/ x = (t + 4) * S + o
      PROVE  x % (4 * S) = t * S + o
  <2> DEFINE R == 4 * S
             q == t * S + o
  <2>1. R \in Nat \ {0}
    OBVIOUS
  <2>2. q \in 0 .. R - 1
    <3>1. t = 0 \/ t = 1 \/ t = 2 \/ t = 3
      OBVIOUS
    <3> QED
      BY <3>1
  <2>3. x = R * 0 + q \/ x = R * 1 + q
    <3>1. (t + 4) * S = t * S + 4 * S /\ t * S \in Int
      BY Z3
    <3> QED
      BY <1>4, <3>1
  <2> HIDE DEF R, q
  <2>4. x % R = q
    <3>1. PICK e \in Int : x = R * e + q
      BY <2>3
    <3>2. x \in Int
      OBVIOUS
    <3> QED
      BY <2>1, <2>2, <3>1, <3>2, Remainder, Zenon
  <2> QED
    BY <2>4 DEF R, q
<1>5. CASE p = 0
  <2>1. w = s * S + (IF own THEN n - 1 ELSE IF n = 0 THEN -1 ELSE 0)
    BY <1>0, <1>5
  <2>2. z \in Nat /\ z < 8 * S
    BY <1>0, <1>2, <2>1
  <2>3. PICK k \in 0 .. 7, o \in 0 .. S - 1 : z = k * S + o
    BY <1>3, <2>2
  <2>4. k * S + o < s * S + (IF own THEN n - 1 ELSE IF n = 0 THEN -1 ELSE 0)
    BY <1>0, <2>1, <2>3
  <2>5. k = 0 \/ k = 1 \/ k = 2 \/ k = 3 \/ k = 4 \/ k = 5 \/ k = 6 \/ k = 7
    OBVIOUS
  <2>6. k \in 0 .. 3 /\ k <= s /\ (k = s => own /\ o < n - 1)
    BY <1>2, <2>4, <2>5
  <2>7. ~(n = 0 /\ o = S - 1 /\ k = (s + 3) % 4)
    <3> SUFFICES ASSUME n = 0, o = S - 1, k = (s + 3) % 4
                 PROVE  FALSE
      OBVIOUS
    <3>1. s # 0
      BY <1>0, <1>5
    <3>2. (1 + 3) % 4 = 0 /\ (2 + 3) % 4 = 1 /\ (3 + 3) % 4 = 2
      OBVIOUS
    <3>3. (s = 1 /\ k = 0) \/ (s = 2 /\ k = 1) \/ (s = 3 /\ k = 2)
      BY <1>2, <3>1, <3>2
    <3>4. k * S + (S - 1) < s * S + -1
      BY <2>4
    <3> QED
      BY <3>3, <3>4
  <2>8. z % (4 * S) = k * S + o
    <3>1. z \in Nat /\ (z = k * S + o \/ z = (k + 4) * S + o) /\ k \in 0 .. 3
      BY <2>3, <2>6
    <3> QED
      BY <1>4, <3>1, Zenon
  <2>9. (IF p = 0 THEN 0 ELSE ((s + 1) % 4) * S) + z = z
    BY <1>5
  <2> QED
    BY <2>6, <2>7, <2>8, <2>9
<1>6. CASE p # 0
  <2> DEFINE v == (s + 1) % 4
             x == v * S + z
  <2>1. w = 3 * S + (IF own THEN n - 1 ELSE IF n = 0 THEN -1 ELSE 0)
    BY <1>0, <1>6
  <2>2. (s = 0 /\ v = 1) \/ (s = 1 /\ v = 2) \/ (s = 2 /\ v = 3) \/ (s = 3 /\ v = 0)
    BY <1>2
  <2>3. x \in Nat /\ x < 8 * S /\ x >= v * S /\ x < v * S + w
    BY <1>0, <2>1, <2>2
  <2> HIDE DEF x
  <2>4. PICK k \in 0 .. 7, o \in 0 .. S - 1 : x = k * S + o
    BY <1>3, <2>3
  <2>5. k = 0 \/ k = 1 \/ k = 2 \/ k = 3 \/ k = 4 \/ k = 5 \/ k = 6 \/ k = 7
    OBVIOUS
  <2>6. (s + 3) % 4 = (v + 2) % 4
    BY <2>2
  <2> HIDE DEF v
  <2>7. k * S + o >= v * S /\ k * S + o < v * S + (3 * S + (IF own THEN n - 1 ELSE IF n = 0 THEN -1 ELSE 0))
    BY <2>1, <2>3, <2>4
  <2>8. v \in 0 .. 3
    BY <2>2
  <2>9. k - v \in 0 .. 3 /\ (k - v = 3 => own /\ o < n - 1) /\ ~(n = 0 /\ o = S - 1 /\ k - v = 2)
    <3>1. v = 0 \/ v = 1 \/ v = 2 \/ v = 3
      BY <2>8
    <3>2. k * S + o >= v * S
      BY <2>7
    <3>3. own => k * S + o < v * S + (3 * S + (n - 1))
      BY <2>7
    <3>4. ~own /\ n = 0 => k * S + o < v * S + (3 * S + -1)
      BY <2>7
    <3>5. ~own /\ n # 0 => k * S + o < v * S + (3 * S + 0)
      BY <2>7
    <3>6. ASSUME NEW c \in Int, c \in 0 .. 3, v = c
          PROVE  k - c \in 0 .. 3 /\ (k - c = 3 => own /\ o < n - 1) /\ ~(n = 0 /\ o = S - 1 /\ k - c = 2)
      <4>1. c = 0 \/ c = 1 \/ c = 2 \/ c = 3
        BY <3>6
      <4> QED
        BY <2>5, <3>2, <3>3, <3>4, <3>5, <3>6, <4>1
    <3> QED
      BY <2>8, <3>6
  <2> DEFINE t == k % 4
  <2>10. t \in 0 .. 3 /\ (k = t \/ k = t + 4)
    BY <2>5
  <2>11. t = s => k - v = 3
    BY <2>2, <2>9, <2>10
  <2>12. t = (s + 3) % 4 => k - v = 2
    BY <2>2, <2>6, <2>9, <2>10
  <2> HIDE DEF t
  <2>13. x % (4 * S) = t * S + o
    BY <1>4, <2>3, <2>4, <2>10
  <2>14. (IF p = 0 THEN 0 ELSE ((s + 1) % 4) * S) + z = x
    BY <1>6 DEF x, v
  <2> QED
    BY <1>6, <2>9, <2>10, <2>11, <2>12, <2>13, <2>14
<1> QED
  BY <1>5, <1>6

\* The lanes are in one slice of one pass, and none is beyond its segment.
ArgonTyping ==
    /\ v1 \in ArgonCalls
    /\ v2 \in 0 .. Argon!NbPasses /\ v3 \in 0 .. 3
    /\ v4 \in [Argon!Lanes -> 0 .. Argon!SegmentSize]
    /\ \A l \in Argon!Lanes : Argon!PassOffset <= v4[l]
    /\ v2 = Argon!NbPasses => v3 = 0 /\ \A l \in Argon!Lanes : v4[l] = 0
    /\ v10 # {} => v2 = Argon!NbPasses

LEMMA CurrentIs ==
    ASSUME ArgonTyping, NEW l \in Argon!Lanes, v4[l] < Argon!SegmentSize
    PROVE  /\ v4[l] \in 0 .. Argon!SegmentSize - 1
           /\ Argon!Current(l) = Place(l, v3, v4[l])
           /\ v2 = 0 /\ v3 = 0 => v4[l] >= 2
<1> DEFINE S == Argon!SegmentSize
           x == l * Argon!LaneSize
           y == v3 * Argon!SegmentSize
           n == v4[l]
<1>1. S \in Nat /\ S >= 2 /\ Argon!LaneSize \in Nat /\ l \in Nat /\ v3 \in Nat /\ n \in 0 .. S
  BY ArgonSizes DEF ArgonTyping, Argon!Lanes
<1>2. x \in Int /\ y \in Int
  BY <1>1
<1>3. Argon!Current(l) = x + y + n /\ Place(l, v3, n) = x + (y + n)
  BY Zenon DEF Argon!Current, Place
<1>4. v2 = 0 /\ v3 = 0 => n >= 2
  BY <1>1 DEF ArgonTyping, Argon!PassOffset
<1> HIDE DEF S, x, y, n
<1>5. x + y + n = x + (y + n) /\ (n < S => n \in 0 .. S - 1)
  BY <1>1, <1>2
<1> QED
  BY <1>3, <1>4, <1>5, Zenon DEF S, n

LEMMA PreviousIs ==
    ASSUME ArgonTyping, NEW l \in Argon!Lanes, v4[l] < Argon!SegmentSize
    PROVE  \E t \in 0 .. 3, o \in 0 .. Argon!SegmentSize - 1 :
              /\ Argon!Previous(l) = Place(l, t, o)
              /\ v4[l] # 0 => t = v3 /\ o = v4[l] - 1
              /\ v4[l] = 0 => t = (v3 + 3) % 4 /\ o = Argon!SegmentSize - 1
<1> DEFINE S == Argon!SegmentSize
           R == Argon!LaneSize
           x == l * Argon!LaneSize
           n == v4[l]
           a == Argon!Current(l)
<1>1. /\ S \in Nat /\ S >= 2 /\ R = 4 * S /\ v3 \in 0 .. 3 /\ x \in Int
      /\ n \in 0 .. S - 1 /\ a = x + (v3 * S + n)
  <2>1. S \in Nat /\ S >= 2 /\ R = 4 * S /\ v3 \in 0 .. 3
    BY ArgonSizes DEF ArgonTyping
  <2>2. x \in Int
    BY <2>1 DEF Argon!Lanes
  <2>3. n \in 0 .. S - 1 /\ a = Place(l, v3, n)
    BY CurrentIs
  <2>4. a = x + (v3 * S + n)
    BY <2>3, Zenon DEF Place
  <2> QED
    BY <2>1, <2>2, <2>3, <2>4
<1>2. Argon!Previous(l) = IF n = 0 /\ v3 = 0 THEN a + R - 1 ELSE a - 1
  BY Zenon DEF Argon!Previous
<1>3. \A t, o : Place(l, t, o) = x + (t * S + o)
  BY Zenon DEF Place
<1> HIDE DEF S, R, x, n, a
<1>4. v3 = 0 \/ v3 = 1 \/ v3 = 2 \/ v3 = 3
  BY <1>1
<1> DEFINE t == IF n = 0 THEN (v3 + 3) % 4 ELSE v3
           o == IF n = 0 THEN S - 1 ELSE n - 1
<1>5. t \in 0 .. 3 /\ o \in 0 .. S - 1
  BY <1>1
<1>6. Argon!Previous(l) = x + (t * S + o)
  <2>1. CASE n # 0
    <3>1. v3 * S \in Int
      BY <1>1
    <3> QED
      BY <1>1, <1>2, <2>1, <3>1
  <2>2. CASE n = 0
    <3>1. t = (v3 + 3) % 4 /\ o = S - 1
      BY <2>2
    <3>2. (0 + 3) % 4 = 3 /\ (1 + 3) % 4 = 0 /\ (2 + 3) % 4 = 1 /\ (3 + 3) % 4 = 2
      OBVIOUS
    <3> HIDE DEF t, o
    <3>3. (v3 = 0 /\ t = 3) \/ (v3 = 1 /\ t = 0) \/ (v3 = 2 /\ t = 1) \/ (v3 = 3 /\ t = 2)
      BY <1>4, <3>1, <3>2
    <3> QED
      BY <1>1, <1>2, <2>2, <3>1, <3>3
  <2> QED
    BY <2>1, <2>2
<1>7. /\ n # 0 => t = v3 /\ o = n - 1
      /\ n = 0 => t = (v3 + 3) % 4 /\ o = S - 1
  OBVIOUS
<1> HIDE DEF t, o
<1>8. Argon!Previous(l) = Place(l, t, o)
  BY <1>3, <1>6, Zenon
<1> QED
  BY <1>5, <1>7, <1>8, Zenon DEF S, n

LEMMA BelowRange ==
    ASSUME NEW U \in Nat \ {0}, NEW w \in Nat \ {0}, NEW j \in 0 .. U - 1
    PROVE  (w * ((j * j) \div U)) \div U \in 0 .. w - 1
<1>1. j * j \in Nat /\ j * j < U * U
  BY Z3
<1>2. PICK x \in Nat, r \in 0 .. U - 1 : j * j = U * x + r /\ (j * j) \div U = x
  BY <1>1, SplitNat
<1>3. x < U
  <2> DEFINE q == U * x
  <2>1. q \in Nat
    OBVIOUS
  <2>2. U * x + r < U * U
    BY <1>1, <1>2
  <2> QED
    BY <2>2, CarryBelow
<1>4. w * x \in Nat /\ w * x < w * U
  BY <1>3, Z3
<1>5. PICK y \in Nat, s \in 0 .. U - 1 : w * x = U * y + s /\ (w * x) \div U = y
  BY <1>4, SplitNat
<1>6. y < w
  <2>1. U * y + s < w * U
    BY <1>4, <1>5
  <2> QED
    BY <2>1, CarryBelow
<1> QED
  BY <1>2, <1>5, <1>6

LEMMA ReferenceLeads ==
    ASSUME ArgonTyping, NEW l \in Argon!Lanes, v4[l] < Argon!SegmentSize,
           NEW high \in Argon!Lanes, NEW j \in 0 .. BlockRange - 1
    PROVE  \E m \in Argon!Lanes, t \in 0 .. 3, o \in 0 .. Argon!SegmentSize - 1 :
              /\ Argon!Reference(l, high, j) = Place(m, t, o)
              /\ v2 = 0 => t <= v3
              /\ t = v3 => m = l /\ o < v4[l] - 1
              /\ ~(v4[l] = 0 /\ o = Argon!SegmentSize - 1 /\ t = (v3 + 3) % 4)
<1> DEFINE S == Argon!SegmentSize
           R == Argon!LaneSize
           U == BlockRange
           n == v4[l]
           m == Argon!ReferenceLane(l, high)
           own == m = l
           c == IF v2 = 0 THEN v3 ELSE 3
           w == c * S + (IF own THEN n - 1 ELSE IF n = 0 THEN -1 ELSE 0)
           size == Argon!WindowSize(l, m)
           y == (size * ((j * j) \div U)) \div U
           z == size - 1 - y
           start == Argon!WindowStart
<1>1. /\ S \in Nat /\ S >= 2 /\ R = 4 * S /\ R < U /\ U \in Nat \ {0} /\ v2 \in Nat /\ v3 \in 0 .. 3
      /\ n \in 0 .. S - 1 /\ (v2 = 0 /\ v3 = 0 => n >= 2)
  BY ArgonSizes, CurrentIs DEF ArgonTyping
<1>2. m \in Argon!Lanes /\ (v2 = 0 /\ v3 = 0 => own)
  <2>1. high % Argon!NbLanes = high
    BY ArgonSizes, RemainderOfSmall DEF ArgonTyping, Argon!Lanes
  <2> QED
    BY <2>1, Zenon DEF Argon!ReferenceLane
<1>3. size = (c * S + (IF own THEN n - 1 ELSE IF n = 0 THEN U - 1 ELSE 0)) % U
  BY <1>2, Zenon DEF Argon!WindowSize
<1>4. Argon!Reference(l, high, j) = m * R + ((start + z) % R)
  BY Zenon DEF Argon!Reference
<1>5. start = IF v2 = 0 THEN 0 ELSE ((v3 + 1) % 4) * S
  BY Zenon DEF Argon!WindowStart
<1>6. own \in BOOLEAN
  OBVIOUS
<1>7. \A k \in 0 .. 3, i \in 0 .. S - 1 : m * R + (k * S + i) = Place(m, k, i)
  BY Zenon DEF Place
<1> HIDE DEF S, R, U, n, m, own, start
<1>8. c \in 0 .. 3 /\ (c = 0 => own /\ n >= 2)
  BY <1>1, <1>2
<1>9. w \in Nat /\ w # 0 /\ w < U
  <2>1. c = 0 \/ c = 1 \/ c = 2 \/ c = 3
    BY <1>8
  <2> HIDE DEF c
  <2> QED
    BY <1>1, <1>6, <1>8, <2>1
<1>10. size = w
  <2> DEFINE a == c * S + (IF own THEN n - 1 ELSE IF n = 0 THEN U - 1 ELSE 0)
  <2>1. a \in Int /\ (a = U * 0 + w \/ a = U * 1 + w)
    <3>1. c * S \in Int
      BY <1>1, <1>8
    <3> HIDE DEF c
    <3> QED
      BY <1>1, <1>6, <3>1
  <2>2. w \in 0 .. U - 1
    BY <1>1, <1>9
  <2> HIDE DEF w, a, size
  <2>3. a % U = w
    <3>1. CASE a = U * 0 + w
      BY <1>1, <2>1, <2>2, <3>1, Remainder
    <3>2. CASE a = U * 1 + w
      BY <1>1, <2>1, <2>2, <3>2, Remainder
    <3> QED
      BY <2>1, <3>1, <3>2
  <2> QED
    BY <1>3, <2>3, Zenon DEF a
<1> HIDE DEF size
<1>11. z \in 0 .. w - 1
  <2>1. y \in 0 .. w - 1
    <3>1. j \in 0 .. U - 1
      BY DEF U
    <3>2. w \in Nat \ {0}
      BY <1>9
    <3> HIDE DEF w
    <3> QED
      BY <1>1, <1>10, <3>1, <3>2, BelowRange
  <2> HIDE DEF y, w
  <2> QED
    BY <1>9, <1>10, <2>1
<1>12. w = WindowOf(S, v2, v3, n, l, m)
  BY Zenon DEF own, WindowOf
<1> HIDE DEF w, z, c
<1>13. PICK t \in 0 .. 3, o \in 0 .. S - 1 :
          /\ ((IF v2 = 0 THEN 0 ELSE ((v3 + 1) % 4) * S) + z) % (4 * S) = t * S + o
          /\ v2 = 0 => t <= v3
          /\ t = v3 => m = l /\ o < n - 1
          /\ ~(n = 0 /\ o = S - 1 /\ t = (v3 + 3) % 4)
  <2>1. w \in Nat /\ (v2 = 0 /\ v3 = 0 => m = l /\ n >= 2)
    BY <1>1, <1>2, <1>9 DEF own
  <2>2. Leads(S, v2, v3, n, l, m, z)
    BY <1>1, <1>11, <1>12, <2>1, WindowLeads
  <2> QED
    BY <2>2, Zenon DEF Leads
<1>14. Argon!Reference(l, high, j) = Place(m, t, o)
  <2>1. (start + z) % R = t * S + o
    BY <1>1, <1>5, <1>13, Zenon
  <2> QED
    BY <1>4, <1>7, <2>1, Zenon
<1>15. t = v3 => m = l
  BY <1>13
<1> QED
  BY <1>2, <1>13, <1>14, <1>15, Zenon DEF S, n

\* How often a block is filled.
Fillings(l, t, o) == v2 + (IF t < v3 \/ (t = v3 /\ o < v4[l]) THEN 1 ELSE 0)

ArgonFilled ==
    v10 = {} =>
        /\ v7 \in [0 .. Argon!WorkBlocks - 1 -> Nat]
        /\ \A l \in Argon!Lanes, t \in 0 .. 3, o \in 0 .. Argon!SegmentSize - 1 :
               v7[Place(l, t, o)] = Fillings(l, t, o)

\* What one filling does, but for what it notes.
LEMMA FillDoes ==
    ASSUME NEW l, Argon!Fill(l)
    PROVE  /\ v2 < Argon!NbPasses /\ v4[l] < Argon!SegmentSize
           /\ v4' = [v4 EXCEPT ![l] = @ + 1] /\ v7' = [v7 EXCEPT ![Argon!Current(l)] = @ + 1]
           /\ v1' = v1 /\ v2' = v2 /\ v3' = v3 /\ v10' = v10
           /\ v9' = IF v8 = <<>> THEN {} ELSE v9 \cup {v8.address}
<1>1. v2 < Argon!NbPasses /\ v4[l] < Argon!SegmentSize
  BY DEF Argon!Fill
<1>2. v4' = [v4 EXCEPT ![l] = @ + 1] /\ v7' = [v7 EXCEPT ![Argon!Current(l)] = @ + 1]
  BY DEF Argon!Fill
<1>3. v1' = v1 /\ v2' = v2 /\ v3' = v3 /\ v10' = v10
  BY DEF Argon!Fill
<1>4. v9' = IF v8 = <<>> THEN {} ELSE v9 \cup {v8.address}
  BY DEF Argon!Fill
<1> QED
  BY <1>1, <1>2, <1>3, <1>4, Zenon

\* The arguments stay as they are.
LEMMA ArgonKeeps ==
    ASSUME [Argon!Next]_Argon!vars
    PROVE  /\ v1' = v1 /\ Argon!NbLanes' = Argon!NbLanes /\ Argon!NbPasses' = Argon!NbPasses
           /\ Argon!Lanes' = Argon!Lanes /\ Argon!SegmentSize' = Argon!SegmentSize
           /\ Argon!LaneSize' = Argon!LaneSize /\ Argon!WorkBlocks' = Argon!WorkBlocks
           /\ Argon!Algorithm' = Argon!Algorithm
           /\ \A l, t, o : Place(l, t, o)' = Place(l, t, o)
<1>1. v1' = v1
  <2>1. ASSUME NEW l, Argon!Fill(l) PROVE v1' = v1
    BY <2>1, FillDoes
  <2>2. Argon!NextSlice \/ Argon!Finish \/ UNCHANGED Argon!vars => v1' = v1
    BY DEF Argon!NextSlice, Argon!Finish, Argon!vars
  <2> QED
    BY <2>1, <2>2, Zenon DEF Argon!Next
<1>2. Argon!NbLanes' = Argon!NbLanes /\ Argon!NbPasses' = Argon!NbPasses /\ Argon!Algorithm' = Argon!Algorithm
  BY <1>1, Zenon DEF Argon!NbLanes, Argon!NbPasses, Argon!Algorithm
<1>3. Argon!Lanes' = Argon!Lanes /\ Argon!SegmentSize' = Argon!SegmentSize
  BY <1>1, <1>2, Zenon DEF Argon!Lanes, Argon!SegmentSize
<1>4. Argon!LaneSize' = Argon!LaneSize
  BY <1>3, Zenon DEF Argon!LaneSize
<1>5. Argon!WorkBlocks' = Argon!WorkBlocks
  BY <1>2, <1>4, Zenon DEF Argon!WorkBlocks
<1>6. \A l, t, o : Place(l, t, o)' = Place(l, t, o)
  BY <1>3, <1>4, Zenon DEF Place
<1> QED
  BY <1>1, <1>2, <1>3, <1>4, <1>5, <1>6

LEMMA ArgonTypingInit == Argon!Init => ArgonTyping
<1> SUFFICES ASSUME Argon!Init
             PROVE  ArgonTyping
  OBVIOUS
<1>1. v1 \in ArgonCalls /\ v2 = 0 /\ v3 = 0 /\ v4 = [l \in Argon!Lanes |-> 2] /\ v10 = {}
  BY DEF Argon!Init
<1>2. Argon!NbPasses \in Nat \ {0} /\ Argon!SegmentSize \in Nat /\ Argon!SegmentSize >= 2
  BY <1>1, ArgonSizes
<1>3. v4 \in [Argon!Lanes -> 0 .. Argon!SegmentSize] /\ \A l \in Argon!Lanes : Argon!PassOffset <= v4[l]
  BY <1>1, <1>2 DEF Argon!PassOffset
<1> QED
  BY <1>1, <1>2, <1>3 DEF ArgonTyping

LEMMA ArgonTypingStep == ArgonTyping /\ [Argon!Next]_Argon!vars => ArgonTyping'
<1> SUFFICES ASSUME ArgonTyping, [Argon!Next]_Argon!vars
             PROVE  ArgonTyping'
  OBVIOUS
<1>1. /\ v1' = v1 /\ Argon!NbPasses' = Argon!NbPasses /\ Argon!Lanes' = Argon!Lanes
      /\ Argon!SegmentSize' = Argon!SegmentSize
  BY ArgonKeeps
<1>2. /\ Argon!NbPasses \in Nat \ {0} /\ Argon!SegmentSize \in Nat /\ Argon!SegmentSize >= 2
      /\ v1 \in ArgonCalls /\ v2 \in 0 .. Argon!NbPasses /\ v3 \in 0 .. 3
      /\ v4 \in [Argon!Lanes -> 0 .. Argon!SegmentSize]
      /\ (v2 = Argon!NbPasses => v3 = 0 /\ \A l \in Argon!Lanes : v4[l] = 0)
      /\ (v10 # {} => v2 = Argon!NbPasses)
      /\ \A l \in Argon!Lanes : Argon!PassOffset <= v4[l]
  BY ArgonSizes DEF ArgonTyping
<1>3. ASSUME NEW l \in Argon!Lanes, Argon!Fill(l)
      PROVE  ArgonTyping'
  <2>1. v2 < Argon!NbPasses /\ v4[l] < Argon!SegmentSize /\ v4' = [v4 EXCEPT ![l] = @ + 1]
        /\ v2' = v2 /\ v3' = v3 /\ v10' = v10
    BY <1>3, FillDoes, Zenon
  <2>2. Argon!PassOffset' = Argon!PassOffset /\ Argon!PassOffset \in {0, 2}
    BY <2>1 DEF Argon!PassOffset
  <2>3. v4' \in [Argon!Lanes -> 0 .. Argon!SegmentSize]
    BY <1>2, <2>1
  <2>4. \A m \in Argon!Lanes : v4'[m] = IF m = l THEN v4[l] + 1 ELSE v4[m]
    BY <1>2, <2>1, Zenon
  <2>5. \A m \in Argon!Lanes : Argon!PassOffset <= v4'[m]
    <3> DEFINE po == Argon!PassOffset
    <3>1. \A m \in Argon!Lanes : po <= v4[m] /\ v4[m] \in Nat
      BY <1>2
    <3>2. po \in Int
      BY <2>2
    <3> HIDE DEF po
    <3>3. \A m \in Argon!Lanes : po <= v4'[m]
      BY <2>4, <3>1, <3>2
    <3> QED
      BY <3>3 DEF po
  <2>6. v2 # Argon!NbPasses
    BY <1>2, <2>1
  <2> QED
    BY <1>1, <1>2, <2>1, <2>2, <2>3, <2>5, <2>6, Zenon DEF ArgonTyping
<1>4. CASE Argon!NextSlice
  <2>1. /\ v2 < Argon!NbPasses /\ v3' = (v3 + 1) % 4 /\ v2' = (IF v3 = 3 THEN v2 + 1 ELSE v2)
        /\ v4' = [l \in Argon!Lanes |-> 0] /\ v10' = v10
    BY <1>4, Zenon DEF Argon!NextSlice
  <2>2. v3' \in 0 .. 3 /\ v2' \in 0 .. Argon!NbPasses /\ (v3' = 0 <=> v3 = 3)
    BY <1>2, <2>1
  <2>3. Argon!PassOffset' = 0
    BY <1>2, <2>1, <2>2 DEF Argon!PassOffset
  <2>4. v4' \in [Argon!Lanes -> 0 .. Argon!SegmentSize] /\ \A l \in Argon!Lanes : v4'[l] = 0
    BY <1>2, <2>1
  <2>5. v2' = Argon!NbPasses => v3' = 0
    BY <1>2, <2>1, <2>2
  <2>6. v10' = {}
    BY <1>2, <2>1
  <2> QED
    BY <1>1, <1>2, <2>2, <2>3, <2>4, <2>5, <2>6 DEF ArgonTyping
<1>5. CASE Argon!Finish
  <2>1. v2 = Argon!NbPasses /\ v2' = v2 /\ v3' = v3 /\ v4' = v4
    BY <1>5, Zenon DEF Argon!Finish
  <2>2. Argon!PassOffset' = Argon!PassOffset
    BY <2>1, Zenon DEF Argon!PassOffset
  <2> QED
    BY <1>1, <1>2, <2>1, <2>2, Zenon DEF ArgonTyping
<1>6. CASE UNCHANGED Argon!vars
  <2>1. v2' = v2 /\ v3' = v3 /\ v4' = v4 /\ v10' = v10
    BY <1>6 DEF Argon!vars
  <2>2. Argon!PassOffset' = Argon!PassOffset
    BY <2>1, Zenon DEF Argon!PassOffset
  <2> QED
    BY <1>1, <1>2, <2>1, <2>2, Zenon DEF ArgonTyping
<1> QED
  BY <1>3, <1>4, <1>5, <1>6 DEF Argon!Next

LEMMA ArgonFilledInit == Argon!Init => ArgonFilled
<1> SUFFICES ASSUME Argon!Init
             PROVE  ArgonFilled
  OBVIOUS
<1> DEFINE S == Argon!SegmentSize
           R == Argon!LaneSize
<1>1. /\ v1 \in ArgonCalls /\ v2 = 0 /\ v3 = 0 /\ v4 = [l \in Argon!Lanes |-> 2]
      /\ v7 = [b \in 0 .. Argon!WorkBlocks - 1 |-> IF b % R < 2 THEN 1 ELSE 0]
  BY DEF Argon!Init
<1>2. S \in Nat /\ S >= 2
  BY <1>1, ArgonSizes
<1>3. v7 \in [0 .. Argon!WorkBlocks - 1 -> Nat]
  <2>1. \A b \in 0 .. Argon!WorkBlocks - 1 : (IF b % R < 2 THEN 1 ELSE 0) \in Nat
    <3>1. 0 \in Nat /\ 1 \in Nat
      OBVIOUS
    <3> QED
      BY <3>1, Zenon
  <2> HIDE DEF R
  <2> QED
    BY <1>1, <2>1, Zenon
<1>4. ASSUME NEW l \in Argon!Lanes, NEW t \in 0 .. 3, NEW o \in 0 .. S - 1
      PROVE  v7[Place(l, t, o)] = Fillings(l, t, o)
  <2>1. Place(l, t, o) \in 0 .. Argon!WorkBlocks - 1 /\ Place(l, t, o) % R = t * S + o
    BY <1>1, PlaceIs
  <2>2. v7[Place(l, t, o)] = IF t * S + o < 2 THEN 1 ELSE 0
    BY <1>1, <2>1, Zenon
  <2>3. Fillings(l, t, o) = 0 + (IF t < 0 \/ (t = 0 /\ o < 2) THEN 1 ELSE 0)
    BY <1>1, Zenon DEF Fillings
  <2>4. o \in 0 .. S - 1
    OBVIOUS
  <2> HIDE DEF S
  <2>5. t * S + o < 2 <=> t < 0 \/ (t = 0 /\ o < 2)
    <3>1. t = 0 \/ t = 1 \/ t = 2 \/ t = 3
      OBVIOUS
    <3> QED
      BY <1>2, <2>4, <3>1
  <2>6. 0 + 1 = 1 /\ 0 + 0 = 0
    OBVIOUS
  <2> QED
    BY <2>2, <2>3, <2>5, <2>6
<1> QED
  BY <1>3, <1>4, Zenon DEF ArgonFilled

LEMMA ArgonFilledStep == ArgonTyping /\ ArgonFilled /\ [Argon!Next]_Argon!vars => ArgonFilled'
<1> SUFFICES ASSUME ArgonTyping, ArgonFilled, [Argon!Next]_Argon!vars
             PROVE  ArgonFilled'
  OBVIOUS
<1>1. /\ Argon!Lanes' = Argon!Lanes /\ Argon!SegmentSize' = Argon!SegmentSize
      /\ Argon!WorkBlocks' = Argon!WorkBlocks /\ \A l, t, o : Place(l, t, o)' = Place(l, t, o)
  BY ArgonKeeps
<1>2. /\ v1 \in ArgonCalls /\ Argon!SegmentSize \in Nat /\ v2 \in Nat /\ v3 \in 0 .. 3
      /\ v4 \in [Argon!Lanes -> 0 .. Argon!SegmentSize] /\ Argon!NbPasses \in Nat
      /\ (v10 # {} => v2 = Argon!NbPasses)
  BY ArgonSizes DEF ArgonTyping
<1>3. ASSUME NEW l \in Argon!Lanes, Argon!Fill(l)
      PROVE  ArgonFilled'
  <2>1. v2 < Argon!NbPasses /\ v4[l] < Argon!SegmentSize /\ v4' = [v4 EXCEPT ![l] = @ + 1]
        /\ v2' = v2 /\ v3' = v3 /\ v10' = v10
        /\ v7' = [v7 EXCEPT ![Argon!Current(l)] = @ + 1]
    BY <1>3, FillDoes, Zenon
  <2>2. v10 = {}
    BY <1>2, <2>1
  <2>3. /\ v7 \in [0 .. Argon!WorkBlocks - 1 -> Nat]
        /\ \A m \in Argon!Lanes, t \in 0 .. 3, o \in 0 .. Argon!SegmentSize - 1 :
               v7[Place(m, t, o)] = Fillings(m, t, o)
    BY <2>2 DEF ArgonFilled
  <2> DEFINE c == Argon!Current(l)
             n == v4[l]
  <2>4. n \in 0 .. Argon!SegmentSize - 1 /\ c = Place(l, v3, n) /\ c \in 0 .. Argon!WorkBlocks - 1
    BY <1>2, <2>1, CurrentIs, PlaceIs
  <2>5. v7' \in [0 .. Argon!WorkBlocks - 1 -> Nat]
    <3>1. v7[c] + 1 \in Nat
      BY <2>3, <2>4
    <3> HIDE DEF c
    <3> QED
      BY <2>1, <2>3, <2>4, <3>1 DEF c
  <2>6. ASSUME NEW m \in Argon!Lanes, NEW t \in 0 .. 3, NEW o \in 0 .. Argon!SegmentSize - 1
        PROVE  v7'[Place(m, t, o)] = Fillings(m, t, o)'
    <3> DEFINE b == Place(m, t, o)
    <3>1. b \in 0 .. Argon!WorkBlocks - 1 /\ v7[b] = Fillings(m, t, o)
      BY <1>2, <2>3, PlaceIs
    <3>2. v7'[b] = IF b = c THEN v7[c] + 1 ELSE v7[b]
      <4> HIDE DEF b, c
      <4> QED
        BY <2>1, <2>3, <2>4, <3>1, Zenon DEF c
    <3>3. b = c <=> m = l /\ t = v3 /\ o = n
      <4>1. b = c => m = l /\ t = v3 /\ o = n
        <5> HIDE DEF n
        <5> QED
          BY <1>2, <2>4, PlacesDiffer
      <4> QED
        BY <2>4, <4>1
    <3>4. Fillings(m, t, o)' = v2 + (IF t < v3 \/ (t = v3 /\ o < v4'[m]) THEN 1 ELSE 0)
      BY <2>1, Zenon DEF Fillings
    <3>5. Fillings(m, t, o) = v2 + (IF t < v3 \/ (t = v3 /\ o < v4[m]) THEN 1 ELSE 0)
      BY Zenon DEF Fillings
    <3>6. v4'[m] = IF m = l THEN n + 1 ELSE v4[m]
      BY <1>2, <2>1, Zenon
    <3> HIDE DEF b, c
    <3>7. CASE m = l /\ t = v3 /\ o = n
      <4>1. v7[c] = v2 + 0
        <5>1. ~(t < v3 \/ (t = v3 /\ o < v4[m]))
          BY <1>2, <2>4, <3>7
        <5> QED
          BY <3>1, <3>3, <3>5, <3>7, <5>1
      <4>2. Fillings(m, t, o)' = v2 + 1
        BY <2>4, <3>4, <3>6, <3>7
      <4>3. v7'[b] = v7[c] + 1
        BY <3>2, <3>3, <3>7
      <4> QED
        BY <1>2, <4>1, <4>2, <4>3 DEF b
    <3>8. CASE ~(m = l /\ t = v3 /\ o = n)
      <4>1. t < v3 \/ (t = v3 /\ o < v4'[m]) <=> t < v3 \/ (t = v3 /\ o < v4[m])
        BY <1>2, <2>4, <3>6, <3>8
      <4>2. Fillings(m, t, o)' = Fillings(m, t, o)
        BY <3>4, <3>5, <4>1
      <4>3. v7'[b] = v7[b]
        BY <3>2, <3>3, <3>8
      <4> QED
        BY <3>1, <4>2, <4>3 DEF b
    <3> QED
      BY <3>7, <3>8
  <2> QED
    BY <1>1, <2>5, <2>6, Zenon DEF ArgonFilled
<1>4. CASE Argon!NextSlice
  <2>1. /\ v3' = (v3 + 1) % 4 /\ v2' = (IF v3 = 3 THEN v2 + 1 ELSE v2)
        /\ v4' = [l \in Argon!Lanes |-> 0] /\ v10' = v10 /\ v7' = v7
        /\ \A l \in Argon!Lanes : v4[l] = Argon!SegmentSize
    BY <1>4, Zenon DEF Argon!NextSlice, Argon!SegmentsDone
  <2>2. ASSUME NEW m \in Argon!Lanes, NEW t \in 0 .. 3, NEW o \in 0 .. Argon!SegmentSize - 1
        PROVE  Fillings(m, t, o)' = Fillings(m, t, o)
    <3>1. Fillings(m, t, o)' = v2' + (IF t < v3' \/ (t = v3' /\ o < v4'[m]) THEN 1 ELSE 0)
      BY Zenon DEF Fillings
    <3>2. Fillings(m, t, o) = v2 + (IF t < v3 \/ (t = v3 /\ o < v4[m]) THEN 1 ELSE 0)
      BY Zenon DEF Fillings
    <3>3. v4[m] = Argon!SegmentSize /\ v4'[m] = 0
      BY <2>1, Zenon
    <3>4. o < v4[m] /\ ~(o < v4'[m])
      BY <1>2, <3>3
    <3>5. CASE v3 = 3
      BY <1>2, <2>1, <3>1, <3>2, <3>4, <3>5
    <3>6. CASE v3 # 3
      <4>1. v3' = v3 + 1 /\ v2' = v2
        BY <1>2, <2>1, <3>6
      <4>2. t < v3 + 1 <=> t < v3 \/ t = v3
        BY <1>2
      <4> QED
        BY <3>1, <3>2, <3>4, <4>1, <4>2
    <3> QED
      BY <3>5, <3>6
  <2> SUFFICES ASSUME v10' = {}
               PROVE  ArgonFilled'
    BY Zenon DEF ArgonFilled
  <2>3. /\ v7 \in [0 .. Argon!WorkBlocks - 1 -> Nat]
        /\ \A m \in Argon!Lanes, t \in 0 .. 3, o \in 0 .. Argon!SegmentSize - 1 :
               v7[Place(m, t, o)] = Fillings(m, t, o)
    BY <2>1 DEF ArgonFilled
  <2>4. /\ v7' \in [0 .. Argon!WorkBlocks - 1 -> Nat]
        /\ \A m \in Argon!Lanes, t \in 0 .. 3, o \in 0 .. Argon!SegmentSize - 1 :
               v7'[Place(m, t, o)] = Fillings(m, t, o)'
    BY <2>1, <2>2, <2>3, Zenon
  <2> QED
    BY <1>1, <2>4, Zenon DEF ArgonFilled
<1>5. CASE Argon!Finish
  <2>1. v10' = {<<b, v7[b]>> : b \in Argon!LastBlocks}
    BY <1>5, Zenon DEF Argon!Finish
  <2>2. 0 \in Argon!Lanes
    BY ArgonSizes DEF ArgonTyping, Argon!Lanes
  <2>3. v10' # {}
    BY <2>1, <2>2 DEF Argon!LastBlocks
  <2> QED
    BY <2>3 DEF ArgonFilled
<1>6. CASE UNCHANGED Argon!vars
  <2>1. v2' = v2 /\ v3' = v3 /\ v4' = v4 /\ v10' = v10 /\ v7' = v7
    BY <1>6 DEF Argon!vars
  <2>2. \A m, t, o : Fillings(m, t, o)' = Fillings(m, t, o)
    BY <2>1, Zenon DEF Fillings
  <2> QED
    BY <1>1, <2>1, <2>2, Zenon DEF ArgonFilled
<1> QED
  BY <1>3, <1>4, <1>5, <1>6 DEF Argon!Next

\* What a filling notes.
LEMMA FillNotes ==
    ASSUME NEW l, Argon!Fill(l)
    PROVE  \E high \in Argon!Lanes, j \in 0 .. BlockRange - 1 :
              v8' = Argon!Uses(l, Argon!Reference(l, high, j))
<1>1. PICK r \in {Argon!Reference(l, high, j) : high \in Argon!Lanes, j \in 0 .. BlockRange - 1} :
          v8' = Argon!Uses(l, r)
  BY DEF Argon!Fill
<1>2. PICK high \in Argon!Lanes, j \in 0 .. BlockRange - 1 : r = Argon!Reference(l, high, j)
  OBVIOUS
<1> QED
  BY <1>1, <1>2

LEMMA NoteFields ==
    ASSUME NEW l, NEW reference, NEW x, x = Argon!Uses(l, reference)
    PROVE  /\ x # <<>>
           /\ x.at = Argon!Current(l) /\ x.pass = v2 /\ x.slice = v3
           /\ x.previous = <<Argon!Previous(l), v7[Argon!Previous(l)]>>
           /\ x.reference = <<reference, v7[reference]>>
           /\ x.address = IF Argon!ConstantTime
                          THEN Append(Argon!Index(l), v4[l] % IndexWords) ELSE <<>>
<1>1. /\ x.at = Argon!Current(l) /\ x.pass = v2 /\ x.slice = v3
      /\ x.previous = <<Argon!Previous(l), v7[Argon!Previous(l)]>>
      /\ x.reference = <<reference, v7[reference]>>
  BY DEF Argon!Uses
<1>2. x.address = IF Argon!ConstantTime
                  THEN Append(Argon!Index(l), v4[l] % IndexWords) ELSE <<>>
  BY Zenon DEF Argon!Uses
<1>3. x # <<>>
  BY DEF Argon!Uses
<1> QED
  BY <1>1, <1>2, <1>3

LEMMA Independent ==
    ASSUME ArgonTyping, ArgonFilled, [Argon!Next]_Argon!vars, NEW l \in Argon!Lanes, Argon!Fill(l)
    PROVE  Argon!LanesAreIndependent'
<1>1. v2 < Argon!NbPasses /\ v4[l] < Argon!SegmentSize /\ v10 = {} /\ v2 \in Nat /\ v3 \in 0 .. 3
      /\ v1 \in ArgonCalls /\ Argon!SegmentSize \in Nat
  <2>1. v2 < Argon!NbPasses /\ v4[l] < Argon!SegmentSize
    BY FillDoes
  <2> QED
    BY <2>1, ArgonSizes DEF ArgonTyping
<1> DEFINE S == Argon!SegmentSize
           n == v4[l]
<1>c. PICK c : c = Argon!Current(l)
  OBVIOUS
<1>2. n \in 0 .. S - 1 /\ c = Place(l, v3, n) /\ (v2 = 0 /\ v3 = 0 => n >= 2)
  BY <1>1, <1>c, CurrentIs
<1>3. PICK high \in Argon!Lanes, j \in 0 .. BlockRange - 1 :
          /\ v8'.at = c /\ v8'.pass = v2 /\ v8'.slice = v3
          /\ v8'.previous = <<Argon!Previous(l), v7[Argon!Previous(l)]>>
          /\ v8'.reference = <<Argon!Reference(l, high, j), v7[Argon!Reference(l, high, j)]>>
  <2>1. PICK high \in Argon!Lanes, j \in 0 .. BlockRange - 1 :
               v8' = Argon!Uses(l, Argon!Reference(l, high, j))
    BY FillNotes
  <2>2. PICK x : x = Argon!Uses(l, Argon!Reference(l, high, j)) /\ v8' = x
    BY <2>1
  <2>3. /\ x.at = Argon!Current(l) /\ x.pass = v2 /\ x.slice = v3
        /\ x.previous = <<Argon!Previous(l), v7[Argon!Previous(l)]>>
        /\ x.reference = <<Argon!Reference(l, high, j), v7[Argon!Reference(l, high, j)]>>
    BY <2>2, NoteFields
  <2> QED
    BY <1>c, <2>2, <2>3, Zenon
<1>4. PICK m \in Argon!Lanes, t \in 0 .. 3, o \in 0 .. S - 1 :
              /\ Argon!Reference(l, high, j) = Place(m, t, o)
              /\ v2 = 0 => t <= v3
              /\ t = v3 => m = l /\ o < n - 1
              /\ ~(n = 0 /\ o = S - 1 /\ t = (v3 + 3) % 4)
  BY <1>1, ReferenceLeads
<1>5. PICK u \in 0 .. 3, q \in 0 .. S - 1 :
              /\ Argon!Previous(l) = Place(l, u, q)
              /\ n # 0 => u = v3 /\ q = n - 1
              /\ n = 0 => u = (v3 + 3) % 4 /\ q = S - 1
  BY <1>1, PreviousIs
<1>r. PICK r : r = Place(m, t, o)
  OBVIOUS
<1>p. PICK p : p = Place(l, u, q)
  OBVIOUS
<1>6. /\ v7[r] = v2 + (IF t < v3 \/ (t = v3 /\ o < v4[m]) THEN 1 ELSE 0)
      /\ v7[p] = v2 + (IF u < v3 \/ (u = v3 /\ q < n) THEN 1 ELSE 0)
  BY <1>1, <1>r, <1>p, Zenon DEF ArgonFilled, Fillings
<1>7. /\ Argon!SliceOf(r) = t /\ Argon!LaneOf(r) = m /\ Argon!SliceOf(p) = u
      /\ Argon!LaneOf(c) = l
  BY <1>1, <1>2, <1>r, <1>p, PlaceIs
<1>8. r # c
  <2>1. r = c => m = l /\ t = v3 /\ o = n
    <3> HIDE DEF n
    <3>1. ASSUME Place(m, t, o) = Place(l, v3, n) PROVE m = l /\ t = v3 /\ o = n
      BY <1>1, <1>2, <3>1, PlacesDiffer
    <3> QED
      BY <1>2, <1>r, <3>1, Zenon
  <2> QED
    BY <1>2, <1>4, <2>1
<1>9. r # p
  <2>1. ASSUME Place(m, t, o) = Place(l, u, q) PROVE m = l /\ t = u /\ o = q
    BY <1>1, <2>1, PlacesDiffer
  <2>2. r = p => m = l /\ t = u /\ o = q
    BY <1>r, <1>p, <2>1, Zenon
  <2> QED
    BY <1>2, <1>4, <1>5, <2>2
<1>10. /\ u = v3 => p < c
       /\ t = v3 => r < c
  <2>1. u = v3 => q < n
    BY <1>1, <1>2, <1>5
  <2>2. t = v3 => m = l /\ o < n
    BY <1>2, <1>4
  <2> HIDE DEF n
  <2>3. \A x \in 0 .. S - 1 : x < n => Place(l, v3, x) < Place(l, v3, n)
    BY <1>1, <1>2, PlacesInOrder
  <2> QED
    BY <1>2, <1>r, <1>p, <2>1, <2>2, <2>3, <1>5, Zenon
<1>11. \A b : Argon!SliceOf(b)' = Argon!SliceOf(b) /\ Argon!LaneOf(b)' = Argon!LaneOf(b)
  <2>1. Argon!LaneSize' = Argon!LaneSize /\ Argon!SegmentSize' = Argon!SegmentSize
    BY ArgonKeeps
  <2> QED
    BY <2>1, Zenon DEF Argon!SliceOf, Argon!LaneOf
<1> HIDE DEF n
<1>12. /\ v7[r] = IF t = v3 \/ t < v3 THEN v2 + 1 ELSE v2
       /\ v7[r] > 0
  <2>1. t = v3 => o < v4[m]
    BY <1>2, <1>4 DEF n
  <2> QED
    BY <1>1, <1>4, <1>6, <2>1
<1>13. /\ v7[p] = IF u = v3 \/ u < v3 THEN v2 + 1 ELSE v2
       /\ v7[p] > 0
  <2>1. u = v3 => q < n
    BY <1>1, <1>2, <1>5
  <2>2. v2 = 0 => u = v3 \/ u < v3
    BY <1>1, <1>2, <1>5
  <2> QED
    BY <1>1, <1>6, <2>1, <2>2
<1>14. \A b \in {<<r, v7[r]>>, <<p, v7[p]>>} : b[2] = Argon!Settled(b[1], v8)' /\ b[2] > 0
  <2>1. \A b : Argon!Settled(b, v8)' = IF Argon!SliceOf(b) = v3
                                      THEN IF b < c THEN v2 + 1 ELSE v2
                                      ELSE IF Argon!SliceOf(b) < v3 THEN v2 + 1 ELSE v2
    BY <1>3, <1>11, Zenon DEF Argon!Settled
  <2>2. Argon!Settled(r, v8)' = v7[r]
    BY <1>7, <1>10, <1>12, <2>1, Zenon
  <2>3. Argon!Settled(p, v8)' = v7[p]
    BY <1>7, <1>10, <1>13, <2>1, Zenon
  <2>4. <<r, v7[r]>>[1] = r /\ <<r, v7[r]>>[2] = v7[r] /\ <<p, v7[p]>>[1] = p /\ <<p, v7[p]>>[2] = v7[p]
    OBVIOUS
  <2> QED
    BY <1>12, <1>13, <2>2, <2>3, <2>4, Zenon
<1>15. v8'.reference = <<r, v7[r]>> /\ v8'.previous = <<p, v7[p]>> /\ v8'.at = c /\ v8'.slice = v3
  BY <1>3, <1>4, <1>5, <1>r, <1>p, Zenon
<1>16. v8'.reference[1] = r /\ v8'.previous[1] = p
  BY <1>15
<1>17. /\ r # c /\ r # p
       /\ Argon!SliceOf(r)' = v3 => Argon!LaneOf(r)' = Argon!LaneOf(c)'
  BY <1>4, <1>7, <1>8, <1>9, <1>11, Zenon
<1> QED
  BY <1>14, <1>15, <1>16, <1>17, Zenon DEF Argon!LanesAreIndependent

\* Nothing else notes anything.
LEMMA OthersNoteNothing ==
    ASSUME [Argon!Next]_Argon!vars, \A l \in Argon!Lanes : ~Argon!Fill(l)
    PROVE  v8' = v8 /\ v9' = v9
  BY DEF Argon!Next, Argon!NextSlice, Argon!Finish, Argon!vars

LEMMA IndependentStep ==
    ArgonTyping /\ ArgonFilled /\ Argon!LanesAreIndependent /\ [Argon!Next]_Argon!vars
        => Argon!LanesAreIndependent'
<1> SUFFICES ASSUME ArgonTyping, ArgonFilled, Argon!LanesAreIndependent, [Argon!Next]_Argon!vars
             PROVE  Argon!LanesAreIndependent'
  OBVIOUS
<1>1. CASE \E l \in Argon!Lanes : Argon!Fill(l)
  BY <1>1, Independent
<1>2. CASE ~\E l \in Argon!Lanes : Argon!Fill(l)
  <2>1. v8' = v8
    BY <1>2, OthersNoteNothing
  <2>2. Argon!LaneSize' = Argon!LaneSize /\ Argon!SegmentSize' = Argon!SegmentSize
    BY ArgonKeeps
  <2>3. \A b : Argon!SliceOf(b)' = Argon!SliceOf(b) /\ Argon!LaneOf(b)' = Argon!LaneOf(b)
    BY <2>2, Zenon DEF Argon!SliceOf, Argon!LaneOf
  <2>4. \A b : Argon!Settled(b, v8)' = Argon!Settled(b, v8)
    BY <2>1, <2>3, Zenon DEF Argon!Settled
  <2> QED
    BY <2>1, <2>3, <2>4, Zenon DEF Argon!LanesAreIndependent
<1> QED
  BY <1>1, <1>2

LEMMA HashTakesStep ==
    ArgonTyping /\ ArgonFilled /\ Argon!HashTakesEveryLane /\ [Argon!Next]_Argon!vars
        => Argon!HashTakesEveryLane'
<1> SUFFICES ASSUME ArgonTyping, ArgonFilled, Argon!HashTakesEveryLane, [Argon!Next]_Argon!vars
             PROVE  Argon!HashTakesEveryLane'
  OBVIOUS
<1>1. /\ Argon!Lanes' = Argon!Lanes /\ Argon!LaneSize' = Argon!LaneSize /\ Argon!NbPasses' = Argon!NbPasses
  BY ArgonKeeps
<1>2. CASE Argon!Finish
  <2>1. /\ v10' = {<<b, v7[b]>> : b \in {(l + 1) * Argon!LaneSize - 1 : l \in Argon!Lanes}}
        /\ v2 = Argon!NbPasses /\ v10 = {}
    BY <1>2, Zenon DEF Argon!Finish, Argon!LastBlocks
  <2>2. /\ v1 \in ArgonCalls /\ v2 \in Nat /\ v3 = 0
        /\ Argon!SegmentSize \in Nat /\ Argon!SegmentSize >= 2
    BY <2>1, ArgonSizes DEF ArgonTyping
  <2>3. ASSUME NEW l \in Argon!Lanes
        PROVE  v7[(l + 1) * Argon!LaneSize - 1] = Argon!NbPasses
    <3> DEFINE S == Argon!SegmentSize
    <3>1. 3 \in 0 .. 3 /\ S - 1 \in 0 .. S - 1
      BY <2>2
    <3>2. v7[Place(l, 3, S - 1)] = v2 + (IF 3 < v3 \/ (3 = v3 /\ S - 1 < v4[l]) THEN 1 ELSE 0)
      BY <2>1, <3>1, Zenon DEF ArgonFilled, Fillings
    <3>3. v7[Place(l, 3, S - 1)] = v2
      BY <2>2, <3>2
    <3>4. Place(l, 3, S - 1) = (l + 1) * Argon!LaneSize - 1
      <4>1. l \in Int /\ Argon!LaneSize = S * 4
        BY DEF Argon!Lanes, Argon!LaneSize
      <4> DEFINE R == Argon!LaneSize
      <4>2. (l + 1) * R = l * R + R /\ l * R \in Int
        <5>1. R \in Int
          BY <2>2, <4>1
        <5> HIDE DEF R
        <5> QED
          BY <4>1, <5>1, Z3
      <4>3. Place(l, 3, S - 1) = l * R + (3 * S + (S - 1))
        BY Zenon DEF Place
      <4> HIDE DEF S
      <4>4. S \in Int
        BY <2>2 DEF S
      <4>5. R = S * 4
        BY <4>1 DEF S
      <4> HIDE DEF R
      <4> QED
        BY <4>2, <4>3, <4>4, <4>5 DEF R
    <3> QED
      BY <2>1, <3>3, <3>4, Zenon
  <2>4. v10' = {<<(l + 1) * Argon!LaneSize - 1, Argon!NbPasses>> : l \in Argon!Lanes}
    BY <2>1, <2>3
  <2> QED
    BY <1>1, <2>4, Zenon DEF Argon!HashTakesEveryLane
<1>3. CASE ~Argon!Finish
  <2>1. v10' = v10
    <3>1. ASSUME NEW l, Argon!Fill(l) PROVE v10' = v10
      BY <3>1, FillDoes
    <3>2. Argon!NextSlice \/ UNCHANGED Argon!vars => v10' = v10
      BY DEF Argon!NextSlice, Argon!vars
    <3> QED
      BY <1>3, <3>1, <3>2, Zenon DEF Argon!Next
  <2> QED
    BY <1>1, <2>1, Zenon DEF Argon!HashTakesEveryLane
<1> QED
  BY <1>2, <1>3

-----------------------------------------------------------------------------
(* The addresses of constant-time references. *)

\* The first block of a segment that is filled, the number of the index block for block
\* f, and the address it takes from there.
OffsetOf(p, s) == IF p = 0 /\ s = 0 THEN 2 ELSE 0
IndexOf(p, s, f) == f \div IndexWords - OffsetOf(p, s) \div IndexWords + 1
AddressOf(p, l, s, f) == Append(<<p, l, s, IndexOf(p, s, f)>>, f % IndexWords)

LEMMA SameIndex ==
    ASSUME NEW p \in Nat, NEW s \in Nat, NEW f \in Nat, NEW g \in Nat,
           IndexOf(p, s, f) = IndexOf(p, s, g), f % IndexWords = g % IndexWords
    PROVE  f = g
<1>1. IndexWords \in Nat \ {0}
  BY ArgonOk DEF Argon!Argon2Assumption
<1>2. PICK k \in Nat, r \in 0 .. IndexWords - 1 :
          f = IndexWords * k + r /\ f \div IndexWords = k /\ f % IndexWords = r
  BY <1>1, SplitNat
<1>3. PICK m \in Nat, t \in 0 .. IndexWords - 1 :
          g = IndexWords * m + t /\ g \div IndexWords = m /\ g % IndexWords = t
  BY <1>1, SplitNat
<1> DEFINE o == OffsetOf(p, s) \div IndexWords
<1>4. o \in Int
  BY <1>1 DEF OffsetOf
<1>5. k - o + 1 = m - o + 1
  BY <1>2, <1>3, Zenon DEF IndexOf
<1> HIDE DEF o
<1>6. k = m /\ r = t
  BY <1>2, <1>3, <1>4, <1>5
<1> QED
  BY <1>2, <1>3, <1>6, Zenon

\* The number goes up with the first block of an index block.
LEMMA NextIndex ==
    ASSUME NEW p \in Nat, NEW s \in Nat, NEW n \in Nat, n > 0
    PROVE  IndexOf(p, s, n) = IndexOf(p, s, n - 1) + (IF n % IndexWords = 0 THEN 1 ELSE 0)
<1>1. IndexWords \in Nat \ {0}
  BY ArgonOk DEF Argon!Argon2Assumption
<1>2. PICK k \in Nat, r \in 0 .. IndexWords - 1 :
          n = IndexWords * k + r /\ n \div IndexWords = k /\ n % IndexWords = r
  BY <1>1, SplitNat
<1> DEFINE o == OffsetOf(p, s) \div IndexWords
<1>3. o \in Int
  BY <1>1 DEF OffsetOf
<1>4. IndexOf(p, s, n) = n \div IndexWords - o + 1
      /\ IndexOf(p, s, n - 1) = (n - 1) \div IndexWords - o + 1
  BY Zenon DEF IndexOf
<1> HIDE DEF o
<1>5. CASE r = 0
  <2>1. n - 1 = IndexWords * (k - 1) + (IndexWords - 1)
    <3> DEFINE W == IndexWords
    <3>1. W * (k - 1) = W * k - W
      <4>1. W \in Int /\ k \in Int
        BY <1>1
      <4> HIDE DEF W
      <4> QED
        BY <4>1, Z3
    <3>2. W * k \in Int /\ W \in Int
      BY <1>1
    <3> DEFINE x == W * k
               y == W * (k - 1)
    <3>3. n = x + 0 /\ y = x - W
      BY <1>2, <1>5, <3>1
    <3>4. x \in Int /\ W \in Int
      BY <3>2
    <3> HIDE DEF x, y, W
    <3>5. n - 1 = y + (W - 1)
      BY <3>3, <3>4
    <3> QED
      BY <3>5 DEF y, W
  <2>2. n - 1 \in Int /\ k - 1 \in Int /\ IndexWords - 1 \in 0 .. IndexWords - 1
    BY <1>1
  <2>3. (n - 1) \div IndexWords = k - 1
    BY <1>1, <2>1, <2>2, Remainder
  <2> QED
    BY <1>2, <1>3, <1>4, <1>5, <2>3
<1>6. CASE r # 0
  <2>1. n - 1 = IndexWords * k + (r - 1)
    <3> DEFINE x == IndexWords * k
    <3>1. x \in Int /\ n = x + r /\ r \in Int
      BY <1>1, <1>2
    <3> HIDE DEF x
    <3>2. n - 1 = x + (r - 1)
      BY <3>1
    <3> QED
      BY <3>2 DEF x
  <2>2. n - 1 \in Int /\ k \in Int /\ r - 1 \in 0 .. IndexWords - 1
    BY <1>1, <1>6
  <2>3. (n - 1) \div IndexWords = k
    BY <1>1, <2>1, <2>2, Remainder
  <2> QED
    BY <1>2, <1>3, <1>4, <1>6, <2>3
<1> QED
  BY <1>5, <1>6

\* The first block of a segment has index block 1.
LEMMA FirstIndex ==
    ASSUME NEW p \in Nat, NEW s \in Nat
    PROVE  IndexOf(p, s, OffsetOf(p, s)) = 1
<1>1. IndexWords \in Nat \ {0}
  BY ArgonOk DEF Argon!Argon2Assumption
<1> DEFINE o == OffsetOf(p, s) \div IndexWords
<1>2. o \in Int
  BY <1>1 DEF OffsetOf
<1>3. IndexOf(p, s, OffsetOf(p, s)) = o - o + 1
  BY Zenon DEF IndexOf
<1> HIDE DEF o
<1> QED
  BY <1>2, <1>3

\* Where the lanes are among the index blocks.
ArgonIndexed ==
    /\ v5 = [k \in Argon!Lanes |-> v5[k]] /\ v6 = [k \in Argon!Lanes |-> v6[k]]
    /\ Argon!ConstantTime =>
        \A l \in Argon!Lanes :
            IF v4[l] = Argon!PassOffset THEN v5[l] = 1
            ELSE /\ v5[l] = IndexOf(v2, v3, v4[l] - 1) + 1
                 /\ v6[l] = <<v2, l, v3, IndexOf(v2, v3, v4[l] - 1)>>

LEMMA IndexIs ==
    ASSUME ArgonTyping, ArgonIndexed, Argon!ConstantTime, NEW l \in Argon!Lanes
    PROVE  /\ Argon!Index(l) = <<v2, l, v3, IndexOf(v2, v3, v4[l])>>
           /\ v5[l] + (IF Argon!NeedsIndex(l) THEN 1 ELSE 0) = IndexOf(v2, v3, v4[l]) + 1
<1> DEFINE n == v4[l]
           i == IndexOf(v2, v3, n)
<1>1. v2 \in Nat /\ v3 \in Nat /\ n \in Nat /\ Argon!PassOffset <= n
  BY ArgonSizes DEF ArgonTyping
<1>2. Argon!PassOffset = OffsetOf(v2, v3) /\ OffsetOf(v2, v3) \in Nat
  BY DEF Argon!PassOffset, OffsetOf
<1>3. Argon!Index(l) = IF Argon!NeedsIndex(l) THEN <<v2, l, v3, v5[l]>> ELSE v6[l]
  BY Zenon DEF Argon!Index
<1>4. Argon!NeedsIndex(l) <=> n = Argon!PassOffset \/ n % IndexWords = 0
  BY Zenon DEF Argon!NeedsIndex
<1>5. CASE n = Argon!PassOffset
  <2>1. v5[l] = 1
    BY <1>5, Zenon DEF ArgonIndexed
  <2>2. i = 1
    BY <1>1, <1>2, <1>5, FirstIndex
  <2>3. Argon!NeedsIndex(l)
    BY <1>4, <1>5, Zenon
  <2> QED
    BY <1>3, <2>1, <2>2, <2>3, Zenon
<1>6. CASE n # Argon!PassOffset
  <2> DEFINE j == IndexOf(v2, v3, n - 1)
  <2>1. v5[l] = j + 1 /\ v6[l] = <<v2, l, v3, j>>
    BY <1>6, Zenon DEF ArgonIndexed
  <2>2. i = j + (IF n % IndexWords = 0 THEN 1 ELSE 0)
    <3>1. n > 0
      BY <1>1, <1>2, <1>6
    <3> HIDE DEF n
    <3> QED
      BY <1>1, <3>1, NextIndex
  <2>3. j \in Int
    <3>1. IndexWords \in Nat \ {0}
      BY ArgonOk DEF Argon!Argon2Assumption
    <3>2. (n - 1) \div IndexWords \in Int /\ OffsetOf(v2, v3) \div IndexWords \in Int
      BY <1>1, <1>2, <3>1
    <3> QED
      BY <3>2 DEF IndexOf
  <2> HIDE DEF i, j
  <2>4. CASE n % IndexWords = 0
    <3>1. Argon!NeedsIndex(l) /\ i = j + 1
      BY <1>4, <2>2, <2>4
    <3> QED
      BY <1>3, <2>1, <3>1, Zenon DEF i
  <2>5. CASE n % IndexWords # 0
    <3>1. ~Argon!NeedsIndex(l) /\ i = j
      BY <1>4, <1>6, <2>2, <2>3, <2>5
    <3>2. v5[l] + 0 = i + 1
      BY <2>1, <2>3, <3>1
    <3> QED
      BY <1>3, <2>1, <3>1, <3>2, Zenon DEF i
  <2> QED
    BY <2>4, <2>5
<1> QED
  BY <1>5, <1>6

LEMMA AddressIs ==
    ASSUME ArgonTyping, ArgonIndexed, Argon!ConstantTime, NEW l \in Argon!Lanes
    PROVE  Append(Argon!Index(l), v4[l] % IndexWords) = AddressOf(v2, l, v3, v4[l])
  BY IndexIs, Zenon DEF AddressOf

LEMMA AppendedToFour ==
    ASSUME NEW a, NEW b, NEW c, NEW d, NEW x
    PROVE  LET s == Append(<<a, b, c, d>>, x) IN
           s[1] = a /\ s[2] = b /\ s[3] = c /\ s[4] = d /\ s[5] = x /\ s # <<>>
<1> DEFINE q == <<a, b, c, d>>
           s == Append(q, x)
<1>1. q \in Seq({a, b, c, d, x}) /\ Len(q) = 4
  OBVIOUS
<1>2. q[1] = a /\ q[2] = b /\ q[3] = c /\ q[4] = d
  OBVIOUS
<1> HIDE DEF q
<1>3. s[1] = q[1] /\ s[2] = q[2] /\ s[3] = q[3] /\ s[4] = q[4] /\ s[5] = x /\ Len(s) = 5
  <2>1. PICK X : q \in Seq(X) /\ x \in X
    BY <1>1
  <2>2. /\ s \in Seq(X) /\ Len(s) = Len(q) + 1
        /\ \A i \in 1 .. Len(q) : s[i] = q[i]
        /\ s[Len(q) + 1] = x
    BY <2>1, AppendProperties
  <2> HIDE DEF s
  <2> QED
    BY <1>1, <2>2
<1>4. s # <<>>
  BY <1>3
<1> QED
  BY <1>2, <1>3, <1>4 DEF q

LEMMA ArgonIndexedInit == Argon!Init => ArgonIndexed
<1> SUFFICES ASSUME Argon!Init
             PROVE  ArgonIndexed
  OBVIOUS
<1>1. /\ v2 = 0 /\ v3 = 0 /\ v4 = [l \in Argon!Lanes |-> 2]
      /\ v5 = [l \in Argon!Lanes |-> 1] /\ v6 = [l \in Argon!Lanes |-> <<>>]
  BY DEF Argon!Init
<1>2. Argon!PassOffset = 2
  BY <1>1 DEF Argon!PassOffset
<1> QED
  BY <1>1, <1>2, Zenon DEF ArgonIndexed

LEMMA ArgonIndexedStep == ArgonTyping /\ ArgonIndexed /\ [Argon!Next]_Argon!vars => ArgonIndexed'
<1> SUFFICES ASSUME ArgonTyping, ArgonIndexed, [Argon!Next]_Argon!vars
             PROVE  ArgonIndexed'
  OBVIOUS
<1>1. Argon!Lanes' = Argon!Lanes /\ Argon!Algorithm' = Argon!Algorithm
  BY ArgonKeeps
<1>2. v5 = [k \in Argon!Lanes |-> v5[k]] /\ v6 = [k \in Argon!Lanes |-> v6[k]]
  BY Zenon DEF ArgonIndexed
<1>3. /\ v4 \in [Argon!Lanes -> 0 .. Argon!SegmentSize] /\ v2 \in Nat /\ v3 \in 0 .. 3
      /\ Argon!SegmentSize \in Nat
      /\ \A l \in Argon!Lanes : Argon!PassOffset <= v4[l]
  BY ArgonSizes DEF ArgonTyping
<1>4. ASSUME NEW l \in Argon!Lanes, Argon!Fill(l)
      PROVE  ArgonIndexed'
  <2>1. /\ v4' = [v4 EXCEPT ![l] = @ + 1] /\ v2' = v2 /\ v3' = v3
    BY <1>4, FillDoes, Zenon
  <2>2. (Argon!ConstantTime' <=> Argon!ConstantTime) /\ Argon!PassOffset' = Argon!PassOffset
    BY <1>1, <2>1, Zenon DEF Argon!ConstantTime, Argon!PassOffset
  <2>3. CASE Argon!ConstantTime
    <3>1. /\ v6' = [v6 EXCEPT ![l] = Argon!Index(l)]
          /\ v5' = [v5 EXCEPT ![l] = @ + (IF Argon!NeedsIndex(l) THEN 1 ELSE 0)]
      BY <1>4, <2>3 DEF Argon!Fill
    <3> DEFINE i == IndexOf(v2, v3, v4[l])
               d == IF Argon!NeedsIndex(l) THEN 1 ELSE 0
    <3>2. Argon!Index(l) = <<v2, l, v3, i>> /\ v5[l] + d = i + 1
      BY <2>3, IndexIs
    <3> HIDE DEF i, d
    <3>3. \A k \in Argon!Lanes :
              /\ v5'[k] = (IF k = l THEN i + 1 ELSE v5[k])
              /\ v6'[k] = (IF k = l THEN <<v2, l, v3, i>> ELSE v6[k])
      <4>1. DOMAIN v5 = Argon!Lanes /\ DOMAIN v6 = Argon!Lanes
        BY <1>2, Zenon
      <4>2. \A k \in Argon!Lanes :
              /\ v5'[k] = (IF k = l THEN v5[l] + d ELSE v5[k])
              /\ v6'[k] = (IF k = l THEN Argon!Index(l) ELSE v6[k])
        BY <3>1, <4>1, Zenon DEF d
      <4> QED
        BY <3>2, <4>2, Zenon
    <3>4. v5' = [k \in Argon!Lanes |-> v5'[k]] /\ v6' = [k \in Argon!Lanes |-> v6'[k]]
      <4>1. DOMAIN v5 = Argon!Lanes /\ DOMAIN v6 = Argon!Lanes
        BY <1>2, Zenon
      <4>2. v5' = [k \in Argon!Lanes |-> IF k = l THEN v5[l] + d ELSE v5[k]]
            /\ v6' = [k \in Argon!Lanes |-> IF k = l THEN Argon!Index(l) ELSE v6[k]]
        BY <3>1, <4>1, Zenon DEF d
      <4> QED
        BY <4>2, Zenon
    <3>5. ASSUME NEW k \in Argon!Lanes
          PROVE  IF v4'[k] = Argon!PassOffset' THEN v5'[k] = 1
                 ELSE /\ v5'[k] = IndexOf(v2', v3', v4'[k] - 1) + 1
                      /\ v6'[k] = <<v2', k, v3', IndexOf(v2', v3', v4'[k] - 1)>>
      <4>1. CASE k = l
        <5>1. v4'[l] = v4[l] + 1
          BY <1>3, <2>1
        <5>2. v4'[l] # Argon!PassOffset' /\ v4'[l] - 1 = v4[l]
          <6>1. v4[l] \in Nat /\ Argon!PassOffset <= v4[l] /\ Argon!PassOffset \in Nat
            BY <1>3 DEF Argon!PassOffset
          <6> QED
            BY <2>2, <5>1, <6>1
        <5>3. v5'[l] = i + 1 /\ v6'[l] = <<v2, l, v3, i>>
          BY <3>3, Zenon
        <5> QED
          BY <2>1, <4>1, <5>2, <5>3, Zenon DEF i
      <4>2. CASE k # l
        <5>1. v4'[k] = v4[k]
          BY <1>3, <2>1, <4>2, Zenon
        <5>2. v5'[k] = v5[k] /\ v6'[k] = v6[k]
          BY <3>3, <4>2, Zenon
        <5> QED
          BY <2>1, <2>2, <2>3, <5>1, <5>2, Zenon DEF ArgonIndexed
      <4> QED
        BY <4>1, <4>2
    <3> QED
      BY <1>1, <3>4, <3>5, Zenon DEF ArgonIndexed
  <2>4. CASE ~Argon!ConstantTime
    <3>1. v5' = v5 /\ v6' = v6
      BY <1>4, <2>4 DEF Argon!Fill
    <3> QED
      BY <1>1, <1>2, <2>2, <2>4, <3>1, Zenon DEF ArgonIndexed
  <2> QED
    BY <2>3, <2>4
<1>5. CASE Argon!NextSlice
  <2>1. /\ v3' = (v3 + 1) % 4 /\ v2' = (IF v3 = 3 THEN v2 + 1 ELSE v2)
        /\ v4' = [l \in Argon!Lanes |-> 0]
        /\ v5' = [l \in Argon!Lanes |-> 1] /\ v6' = [l \in Argon!Lanes |-> <<>>]
    BY <1>5, Zenon DEF Argon!NextSlice
  <2>2. ~(v2' = 0 /\ v3' = 0)
    BY <1>3, <2>1
  <2>3. Argon!PassOffset' = 0
    BY <2>2, Zenon DEF Argon!PassOffset
  <2> QED
    BY <1>1, <2>1, <2>3, Zenon DEF ArgonIndexed
<1>6. CASE Argon!Finish \/ UNCHANGED Argon!vars
  <2>1. v2' = v2 /\ v3' = v3 /\ v4' = v4 /\ v5' = v5 /\ v6' = v6
    BY <1>6 DEF Argon!vars, Argon!Finish
  <2>2. (Argon!ConstantTime' <=> Argon!ConstantTime) /\ Argon!PassOffset' = Argon!PassOffset
    BY <1>1, <2>1, Zenon DEF Argon!ConstantTime, Argon!PassOffset
  <2> QED
    BY <1>1, <2>1, <2>2, Zenon DEF ArgonIndexed
<1> QED
  BY <1>4, <1>5, <1>6 DEF Argon!Next

\* The addresses of blocks that are filled already.
Spent(a) ==
    \E p \in Nat, s \in 0 .. 3, l \in Argon!Lanes, f \in Nat :
        /\ a = AddressOf(p, l, s, f)
        /\ \/ p < v2
           \/ p = v2 /\ s < v3
           \/ p = v2 /\ s = v3 /\ f < v4[l]

ArgonSpent ==
    \A a : a \in v9 \/ (v8 # <<>> /\ a = v8.address) => a = <<>> \/ Spent(a)

\* Once spent, an address stays so.
LEMMA StaysSpent ==
    ASSUME ArgonTyping, [Argon!Next]_Argon!vars, NEW a, Spent(a)
    PROVE  Spent(a)'
<1>1. Argon!Lanes' = Argon!Lanes
  BY ArgonKeeps
<1>2. v4 \in [Argon!Lanes -> 0 .. Argon!SegmentSize] /\ v2 \in Nat /\ v3 \in 0 .. 3
      /\ Argon!SegmentSize \in Nat
  BY ArgonSizes DEF ArgonTyping
<1>3. PICK p \in Nat, s \in 0 .. 3, l \in Argon!Lanes, f \in Nat :
        /\ a = AddressOf(p, l, s, f)
        /\ \/ p < v2
           \/ p = v2 /\ s < v3
           \/ p = v2 /\ s = v3 /\ f < v4[l]
  BY Zenon DEF Spent
<1>4. \/ p < v2'
      \/ p = v2' /\ s < v3'
      \/ p = v2' /\ s = v3' /\ f < v4'[l]
  <2>1. ASSUME NEW k \in Argon!Lanes, Argon!Fill(k)
        PROVE  v2' = v2 /\ v3' = v3 /\ v4[l] <= v4'[l] /\ v4'[l] \in Nat
    <3>1. v4' = [v4 EXCEPT ![k] = @ + 1] /\ v2' = v2 /\ v3' = v3
      BY <2>1, FillDoes, Zenon
    <3> QED
      BY <1>2, <3>1
  <2>2. Argon!Finish \/ UNCHANGED Argon!vars => v2' = v2 /\ v3' = v3 /\ v4' = v4
    BY DEF Argon!Finish, Argon!vars
  <2>3. CASE Argon!NextSlice
    <3>1. v3' = (v3 + 1) % 4 /\ v2' = (IF v3 = 3 THEN v2 + 1 ELSE v2)
      BY <2>3, Zenon DEF Argon!NextSlice
    <3>2. v3 = 3 => v2' = v2 + 1
      BY <3>1
    <3>3. v3 # 3 => v2' = v2 /\ v3' = v3 + 1
      BY <1>2, <3>1
    <3> QED
      BY <1>2, <1>3, <3>2, <3>3
  <2>4. CASE v2' = v2 /\ v3' = v3 /\ v4[l] <= v4'[l] /\ v4'[l] \in Nat
    <3>1. v4[l] \in Nat
      BY <1>2
    <3> QED
      BY <1>3, <2>4, <3>1
  <2>5. CASE Argon!Finish \/ UNCHANGED Argon!vars
    BY <1>3, <2>2, <2>5
  <2> QED
    BY <2>1, <2>3, <2>4, <2>5, Zenon DEF Argon!Next
<1> QED
  BY <1>1, <1>3, <1>4, Zenon DEF Spent

\* The address of the next block is not spent, and will be.
LEMMA NotSpentYet ==
    ASSUME ArgonTyping, NEW l \in Argon!Lanes
    PROVE  ~Spent(AddressOf(v2, l, v3, v4[l]))
<1>1. /\ v4 \in [Argon!Lanes -> 0 .. Argon!SegmentSize] /\ v2 \in Nat /\ v3 \in 0 .. 3
      /\ Argon!SegmentSize \in Nat
  BY ArgonSizes DEF ArgonTyping
<1> SUFFICES ASSUME Spent(AddressOf(v2, l, v3, v4[l]))
             PROVE  FALSE
  OBVIOUS
<1>2. PICK p \in Nat, s \in 0 .. 3, k \in Argon!Lanes, f \in Nat :
        /\ AddressOf(v2, l, v3, v4[l]) = AddressOf(p, k, s, f)
        /\ \/ p < v2
           \/ p = v2 /\ s < v3
           \/ p = v2 /\ s = v3 /\ f < v4[k]
  BY Zenon DEF Spent
<1> DEFINE a == AddressOf(v2, l, v3, v4[l])
           b == AddressOf(p, k, s, f)
<1>3. a[1] = v2 /\ a[2] = l /\ a[3] = v3 /\ a[4] = IndexOf(v2, v3, v4[l]) /\ a[5] = v4[l] % IndexWords
  <2> HIDE DEF a
  <2>1. a = Append(<<v2, l, v3, IndexOf(v2, v3, v4[l])>>, v4[l] % IndexWords)
    BY Zenon DEF a, AddressOf
  <2> QED
    BY <2>1, AppendedToFour
<1>4. b[1] = p /\ b[2] = k /\ b[3] = s /\ b[4] = IndexOf(p, s, f) /\ b[5] = f % IndexWords
  <2> HIDE DEF b
  <2>1. b = Append(<<p, k, s, IndexOf(p, s, f)>>, f % IndexWords)
    BY Zenon DEF b, AddressOf
  <2> QED
    BY <2>1, AppendedToFour
<1>5. a = b
  BY <1>2, Zenon
<1> HIDE DEF a, b
<1>6. v2 = p /\ l = k /\ v3 = s /\ IndexOf(p, s, v4[l]) = IndexOf(p, s, f)
      /\ v4[l] % IndexWords = f % IndexWords
  BY <1>3, <1>4, <1>5, Zenon
<1>7. v4[l] = f
  <2>1. v4[l] \in Nat /\ s \in Nat
    BY <1>1
  <2> QED
    BY <1>6, <2>1, SameIndex
<1> QED
  BY <1>1, <1>2, <1>6, <1>7

LEMMA AddressesStep ==
    ArgonTyping /\ ArgonIndexed /\ ArgonSpent /\ Argon!AddressesUsedOnce /\ [Argon!Next]_Argon!vars
        => ArgonSpent' /\ Argon!AddressesUsedOnce'
<1> SUFFICES ASSUME ArgonTyping, ArgonIndexed, ArgonSpent, Argon!AddressesUsedOnce, [Argon!Next]_Argon!vars
             PROVE  ArgonSpent' /\ Argon!AddressesUsedOnce'
  OBVIOUS
<1>1. CASE \E l \in Argon!Lanes : Argon!Fill(l)
  <2>1. PICK l \in Argon!Lanes : Argon!Fill(l)
    BY <1>1
  <2>2. PICK x : /\ v8' = x /\ x # <<>>
                 /\ x.address = IF Argon!ConstantTime
                                THEN Append(Argon!Index(l), v4[l] % IndexWords) ELSE <<>>
    <3>1. PICK high \in Argon!Lanes, j \in 0 .. BlockRange - 1 :
              v8' = Argon!Uses(l, Argon!Reference(l, high, j))
      BY <2>1, FillNotes
    <3>2. PICK x : x = Argon!Uses(l, Argon!Reference(l, high, j)) /\ v8' = x
      BY <3>1
    <3>3. /\ x # <<>>
          /\ x.address = IF Argon!ConstantTime
                         THEN Append(Argon!Index(l), v4[l] % IndexWords) ELSE <<>>
      BY <3>2, NoteFields
    <3> QED
      BY <3>2, <3>3, Zenon
  <2>3. /\ v9' = IF v8 = <<>> THEN {} ELSE v9 \cup {v8.address}
        /\ v4' = [v4 EXCEPT ![l] = @ + 1] /\ v2' = v2 /\ v3' = v3
    BY <2>1, FillDoes, Zenon
  <2>4. \A a : a \in v9' => a = <<>> \/ Spent(a)
    BY <2>3, Zenon DEF ArgonSpent
  <2>5. Argon!ConstantTime => x.address = AddressOf(v2, l, v3, v4[l])
    BY <2>2, AddressIs
  <2>6. /\ v4 \in [Argon!Lanes -> 0 .. Argon!SegmentSize] /\ v2 \in Nat /\ v3 \in 0 .. 3
        /\ Argon!SegmentSize \in Nat
    BY ArgonSizes DEF ArgonTyping
  <2>7. x.address = <<>> \/ Spent(x.address)'
    <3>1. Argon!Lanes' = Argon!Lanes
      BY ArgonKeeps
    <3>2. v4[l] \in Nat /\ v4[l] < v4'[l]
      BY <2>3, <2>6
    <3>3. Argon!ConstantTime => Spent(x.address)'
      BY <2>3, <2>5, <2>6, <3>1, <3>2, Zenon DEF Spent
    <3> QED
      BY <2>2, <3>3, Zenon
  <2>8. ArgonSpent'
    <3>1. \A a : a \in v9' \/ a = x.address => a = <<>> \/ Spent(a)'
      BY <2>4, <2>7, StaysSpent
    <3> QED
      BY <2>2, <3>1, Zenon DEF ArgonSpent
  <2>9. x.address # <<>> => x.address \notin v9'
    BY <2>2, <2>4, <2>5, NotSpentYet, Zenon
  <2> QED
    BY <2>2, <2>8, <2>9, Zenon DEF Argon!AddressesUsedOnce
<1>2. CASE ~\E l \in Argon!Lanes : Argon!Fill(l)
  <2>1. v8' = v8 /\ v9' = v9
    BY <1>2, OthersNoteNothing
  <2>2. ASSUME NEW a, a \in v9' \/ (v8' # <<>> /\ a = v8'.address)
        PROVE  a = <<>> \/ Spent(a)'
    <3>1. a = <<>> \/ Spent(a)
      BY <2>1, <2>2, Zenon DEF ArgonSpent
    <3> QED
      BY <3>1, StaysSpent
  <2>3. ArgonSpent'
    BY <2>2, Zenon DEF ArgonSpent
  <2> QED
    BY <2>1, <2>3, Zenon DEF Argon!AddressesUsedOnce
<1> QED
  BY <1>1, <1>2

-----------------------------------------------------------------------------
(* The first hash keeps the inputs apart. *)

Begins(h, w) == Len(w) <= Len(h) /\ \A i \in 1 .. Len(w) : h[i] = w[i]

LEMMA Updated ==
    ASSUME NEW w \in Seq(Nat), NEW b \in Seq(Nat)
    PROVE  LET u == Argon!Update32Buf(w, b) IN
           /\ u \in Seq(Nat) /\ Len(u) = Len(w) + 1 + Len(b)
           /\ \A i \in 1 .. Len(w) : u[i] = w[i]
           /\ u[Len(w) + 1] = Len(b)
           /\ \A i \in 1 .. Len(b) : u[Len(w) + 1 + i] = b[i]
<1> DEFINE x == Append(w, Len(b))
           u == x \o b
<1>1. Argon!Update32Buf(w, b) = u
  BY Zenon DEF Argon!Update32Buf, Argon!Update32
<1>2. Len(b) \in Nat /\ Len(w) \in Nat
  OBVIOUS
<1>3. /\ x \in Seq(Nat) /\ Len(x) = Len(w) + 1
      /\ \A i \in 1 .. Len(w) : x[i] = w[i]
      /\ x[Len(w) + 1] = Len(b)
  BY <1>2, AppendProperties
<1> HIDE DEF x
<1>4. /\ u \in Seq(Nat) /\ Len(u) = Len(x) + Len(b)
      /\ \A i \in 1 .. Len(u) : u[i] = IF i <= Len(x) THEN x[i] ELSE b[i - Len(x)]
  <2>1. /\ u \in Seq(Nat) /\ Len(u) = Len(x) + Len(b)
        /\ \A i \in 1 .. Len(x) + Len(b) : u[i] = IF i <= Len(x) THEN x[i] ELSE b[i - Len(x)]
    BY <1>3, ConcatProperties
  <2> QED
    BY <2>1, Zenon
<1> HIDE DEF u
<1>5. Len(u) = Len(w) + 1 + Len(b)
  BY <1>2, <1>3, <1>4
<1>6. \A i \in 1 .. Len(w) : u[i] = w[i]
  BY <1>2, <1>3, <1>4
<1>7. u[Len(w) + 1] = Len(b)
  BY <1>2, <1>3, <1>4
<1>8. \A i \in 1 .. Len(b) : u[Len(w) + 1 + i] = b[i]
  <2> SUFFICES ASSUME NEW i \in 1 .. Len(b)
               PROVE  u[Len(w) + 1 + i] = b[i]
    OBVIOUS
  <2> DEFINE k == Len(w) + 1 + i
  <2>1. k \in 1 .. Len(u) /\ ~(k <= Len(x)) /\ k - Len(x) = i
    BY <1>2, <1>3, <1>5
  <2> HIDE DEF k
  <2>2. u[k] = b[i]
    BY <1>4, <2>1
  <2> QED
    BY <2>2 DEF k
<1> QED
  BY <1>1, <1>4, <1>5, <1>6, <1>7, <1>8, Zenon

LEMMA BeginsShorter ==
    ASSUME NEW h \in Seq(Nat), NEW w \in Seq(Nat), NEW b \in Seq(Nat),
           Begins(h, Argon!Update32Buf(w, b))
    PROVE  Begins(h, w)
<1> DEFINE u == Argon!Update32Buf(w, b)
<1>1. Len(u) = Len(w) + 1 + Len(b) /\ \A i \in 1 .. Len(w) : u[i] = w[i]
  BY Updated
<1>2. Len(u) <= Len(h) /\ \A i \in 1 .. Len(u) : h[i] = u[i]
  BY Zenon DEF Begins
<1> HIDE DEF u
<1>3. Len(w) <= Len(u) /\ Len(w) <= Len(h)
  <2>1. Len(w) \in Nat /\ Len(b) \in Nat /\ Len(h) \in Nat
    OBVIOUS
  <2> QED
    BY <1>1, <1>2, <2>1
<1>4. \A i \in 1 .. Len(w) : i \in 1 .. Len(u)
  <2>1. Len(w) \in Nat /\ Len(b) \in Nat
    OBVIOUS
  <2> QED
    BY <1>1, <2>1
<1> QED
  BY <1>1, <1>2, <1>3, <1>4, Zenon DEF Begins

\* After the same words comes the same string: its length is there first.
LEMMA SameString ==
    ASSUME NEW h \in Seq(Nat), NEW w \in Seq(Nat), NEW b \in Seq(Nat), NEW c \in Seq(Nat),
           Begins(h, Argon!Update32Buf(w, b)), Begins(h, Argon!Update32Buf(w, c))
    PROVE  b = c
<1> DEFINE u == Argon!Update32Buf(w, b)
           v == Argon!Update32Buf(w, c)
<1>1. /\ u \in Seq(Nat) /\ Len(u) = Len(w) + 1 + Len(b)
      /\ u[Len(w) + 1] = Len(b)
      /\ \A i \in 1 .. Len(b) : u[Len(w) + 1 + i] = b[i]
  BY Updated
<1>2. /\ v \in Seq(Nat) /\ Len(v) = Len(w) + 1 + Len(c)
      /\ v[Len(w) + 1] = Len(c)
      /\ \A i \in 1 .. Len(c) : v[Len(w) + 1 + i] = c[i]
  BY Updated
<1>3. Len(w) \in Nat /\ Len(b) \in Nat /\ Len(c) \in Nat
  OBVIOUS
<1>4. (\A i \in 1 .. Len(u) : h[i] = u[i]) /\ (\A i \in 1 .. Len(v) : h[i] = v[i])
  BY Zenon DEF Begins
<1> HIDE DEF u, v
<1>5. Len(w) + 1 \in 1 .. Len(u) /\ Len(w) + 1 \in 1 .. Len(v)
  BY <1>1, <1>2, <1>3
<1>6. Len(b) = Len(c)
  BY <1>1, <1>2, <1>4, <1>5, Zenon
<1>7. \A i \in 1 .. Len(b) : b[i] = c[i]
  <2> SUFFICES ASSUME NEW i \in 1 .. Len(b)
               PROVE  b[i] = c[i]
    OBVIOUS
  <2>1. i \in 1 .. Len(c) /\ Len(w) + 1 + i \in 1 .. Len(u) /\ Len(w) + 1 + i \in 1 .. Len(v)
    <3>1. Len(u) = Len(w) + 1 + Len(b) /\ Len(v) = Len(w) + 1 + Len(b) /\ i \in 1 .. Len(c)
      BY <1>1, <1>2, <1>6, Zenon
    <3> QED
      BY <1>3, <3>1
  <2> QED
    BY <1>1, <1>2, <1>4, <2>1, Zenon
<1> QED
  BY <1>6, <1>7, SeqEqual

HashWords(config) ==
    <<config.nb_lanes, 8, config.nb_blocks, config.nb_passes, 19, config.algorithm>>

\* The stages of the first hash begin it.
LEMMA HashBegins ==
    ASSUME NEW c \in Argon!Configs, NEW in \in Argon!Strings
    PROVE  LET w == HashWords(c)
               a == Argon!Update32Buf(w, in.pass)
               b == Argon!Update32Buf(a, in.salt)
               d == Argon!Update32Buf(b, in.key)
               h == Argon!InitialHash(8, c, in)
           IN  /\ w \in Seq(Nat) /\ a \in Seq(Nat) /\ b \in Seq(Nat) /\ d \in Seq(Nat) /\ h \in Seq(Nat)
               /\ h = Argon!Update32Buf(d, in.ad)
               /\ Begins(h, h) /\ Begins(h, d) /\ Begins(h, b) /\ Begins(h, a) /\ Begins(h, w)
<1> DEFINE w == HashWords(c)
           a == Argon!Update32Buf(w, in.pass)
           b == Argon!Update32Buf(a, in.salt)
           d == Argon!Update32Buf(b, in.key)
           h == Argon!InitialHash(8, c, in)
<1>1. in.pass \in Seq(Nat) /\ in.salt \in Seq(Nat) /\ in.key \in Seq(Nat) /\ in.ad \in Seq(Nat)
  BY DEF Argon!Strings
<1>2. w \in Seq(Nat)
  <2>1. c.nb_lanes \in Nat /\ c.nb_blocks \in Nat /\ c.nb_passes \in Nat /\ c.algorithm \in Nat
    BY DEF Argon!Configs, Argon!Argon2d, Argon!Argon2i, Argon!Argon2id
  <2> QED
    BY <2>1 DEF HashWords
<1>3. h = Argon!Update32Buf(d, in.ad)
  BY Zenon DEF Argon!InitialHash, HashWords
<1> HIDE DEF w
<1>4. a \in Seq(Nat)
  BY <1>1, <1>2, Updated
<1> HIDE DEF a
<1>5. b \in Seq(Nat)
  BY <1>1, <1>4, Updated
<1> HIDE DEF b
<1>6. d \in Seq(Nat)
  BY <1>1, <1>5, Updated
<1> HIDE DEF d, h
<1>7. h \in Seq(Nat)
  BY <1>1, <1>3, <1>6, Updated
<1>8. Begins(h, h)
  BY <1>7 DEF Begins
<1>9. Begins(h, d)
  BY <1>1, <1>3, <1>6, <1>7, <1>8, BeginsShorter
<1>10. Begins(h, b)
  BY <1>1, <1>5, <1>7, <1>9, BeginsShorter DEF d
<1>11. Begins(h, a)
  BY <1>1, <1>4, <1>7, <1>10, BeginsShorter DEF b
<1>12. Begins(h, w)
  BY <1>1, <1>2, <1>7, <1>11, BeginsShorter DEF a
<1> QED
  BY <1>2, <1>3, <1>4, <1>5, <1>6, <1>7, <1>8, <1>9, <1>10, <1>11, <1>12, Zenon DEF w, a, b, d, h

LEMMA SameHash ==
    ASSUME NEW c \in Argon!Configs, NEW e \in Argon!Configs,
           NEW in \in Argon!Strings, NEW out \in Argon!Strings,
           Argon!InitialHash(8, c, in) = Argon!InitialHash(8, e, out)
    PROVE  c = e /\ in = out
<1> DEFINE w == HashWords(c)
           a == Argon!Update32Buf(w, in.pass)
           b == Argon!Update32Buf(a, in.salt)
           d == Argon!Update32Buf(b, in.key)
           h == Argon!InitialHash(8, c, in)
           x == HashWords(e)
           p == Argon!Update32Buf(x, out.pass)
           q == Argon!Update32Buf(p, out.salt)
           r == Argon!Update32Buf(q, out.key)
           g == Argon!InitialHash(8, e, out)
<1>1. /\ w \in Seq(Nat) /\ a \in Seq(Nat) /\ b \in Seq(Nat) /\ d \in Seq(Nat) /\ h \in Seq(Nat)
      /\ h = Argon!Update32Buf(d, in.ad)
      /\ Begins(h, h) /\ Begins(h, d) /\ Begins(h, b) /\ Begins(h, a) /\ Begins(h, w)
  BY HashBegins, Zenon
<1>2. /\ x \in Seq(Nat) /\ p \in Seq(Nat) /\ q \in Seq(Nat) /\ r \in Seq(Nat) /\ g \in Seq(Nat)
      /\ g = Argon!Update32Buf(r, out.ad)
      /\ Begins(g, g) /\ Begins(g, r) /\ Begins(g, q) /\ Begins(g, p) /\ Begins(g, x)
  BY HashBegins, Zenon
<1>3. h = g
  BY Zenon
<1>4. /\ in.pass \in Seq(Nat) /\ in.salt \in Seq(Nat) /\ in.key \in Seq(Nat) /\ in.ad \in Seq(Nat)
      /\ out.pass \in Seq(Nat) /\ out.salt \in Seq(Nat) /\ out.key \in Seq(Nat) /\ out.ad \in Seq(Nat)
  BY DEF Argon!Strings
<1>5. c.nb_lanes = e.nb_lanes /\ c.nb_blocks = e.nb_blocks /\ c.nb_passes = e.nb_passes
      /\ c.algorithm = e.algorithm /\ w = x
  <2>1. Len(w) = 6 /\ Len(x) = 6
    BY DEF HashWords
  <2>2. (\A i \in 1 .. Len(w) : h[i] = w[i]) /\ (\A i \in 1 .. Len(x) : h[i] = x[i])
    <3> HIDE DEF h, g, w, x
    <3> QED
      BY <1>1, <1>2, <1>3, Zenon DEF Begins
  <2>3. /\ w[1] = c.nb_lanes /\ w[3] = c.nb_blocks /\ w[4] = c.nb_passes /\ w[6] = c.algorithm
        /\ x[1] = e.nb_lanes /\ x[3] = e.nb_blocks /\ x[4] = e.nb_passes /\ x[6] = e.algorithm
    BY DEF HashWords
  <2> HIDE DEF w, x, h
  <2>4. w[1] = x[1] /\ w[3] = x[3] /\ w[4] = x[4] /\ w[6] = x[6]
    BY <2>1, <2>2
  <2>5. w = x
    BY <1>1, <1>2, <2>1, <2>2, SeqEqual
  <2> QED
    BY <2>3, <2>4, <2>5, Zenon
<1>6. c = e
  BY <1>5 DEF Argon!Configs
<1> HIDE DEF w, x, h, g
<1>7. in.pass = out.pass
  BY <1>1, <1>2, <1>3, <1>4, <1>5, SameString
<1>8. a = p
  BY <1>5, <1>7, Zenon
<1> HIDE DEF a, p
<1>9. in.salt = out.salt
  BY <1>1, <1>2, <1>3, <1>4, <1>8, SameString
<1>10. b = q
  BY <1>8, <1>9, Zenon
<1> HIDE DEF b, q
<1>11. in.key = out.key
  BY <1>1, <1>2, <1>3, <1>4, <1>10, SameString
<1>12. d = r
  BY <1>10, <1>11, Zenon
<1> HIDE DEF d, r
<1>13. in.ad = out.ad
  BY <1>1, <1>2, <1>3, <1>4, <1>12, SameString
<1>14. in = out
  <2>1. /\ in = [pass |-> in.pass, salt |-> in.salt, key |-> in.key, ad |-> in.ad]
        /\ out = [pass |-> out.pass, salt |-> out.salt, key |-> out.key, ad |-> out.ad]
    BY DEF Argon!Strings
  <2> QED
    BY <1>7, <1>9, <1>11, <1>13, <2>1, Zenon
<1> QED
  BY <1>6, <1>14

LEMMA Separated == ArgonTyping => Argon!InputsAreSeparated
<1> SUFFICES ASSUME v1 \in ArgonCalls, NEW other \in ArgonCalls, other # v1
             PROVE  Argon!InitialHash(8, other.config, other.inputs) # Argon!InitialHash(8, v1.config, v1.inputs)
  BY Zenon DEF ArgonTyping, Argon!InputsAreSeparated
<1>1. \A c \in ArgonCalls : /\ c.config \in Argon!Configs /\ c.inputs \in Argon!Strings
                            /\ c = [config |-> c.config, inputs |-> c.inputs]
  <2>1. ArgonCalls \subseteq [config : Argon!Configs, inputs : Argon!Strings]
    BY ArgonOk, Zenon DEF Argon!Argon2Assumption
  <2> QED
    BY <2>1
<1> QED
  BY <1>1, SameHash, Zenon

-----------------------------------------------------------------------------
(* Mixing. *)

Words128 == 0 .. 127
Deps == [Words128 -> SUBSET Words128]

LEMMA GIs ==
    ASSUME NEW d \in Deps, NEW Gr \in SUBSET Words128
    PROVE  /\ Argon!G(d, Gr) \in Deps
           /\ \A w \in Words128 : Argon!G(d, Gr)[w] = IF w \in Gr THEN UNION {d[v] : v \in Gr} ELSE d[w]
<1>1. DOMAIN d = Words128 /\ \A w \in Words128 : d[w] \in SUBSET Words128
  BY DEF Deps
<1>2. UNION {d[v] : v \in Gr} \in SUBSET Words128
  BY <1>1
<1>3. Argon!G(d, Gr) = [w \in Words128 |-> IF w \in Gr THEN UNION {d[v] : v \in Gr} ELSE d[w]]
  BY Zenon DEF Argon!G, Words128
<1> QED
  BY <1>1, <1>2, <1>3, Zenon DEF Deps

\* Eight steps, one after the other.
LEMMA EightSteps ==
    ASSUME NEW V, NEW b \in V, NEW g \in [1 .. 8 -> [V -> V]]
    PROVE  \E f \in [0 .. 8 -> V] : f[0] = b /\ \A i \in 1 .. 8 : f[i] = g[i][f[i - 1]]
<1> DEFINE eight == 8
<1>1. eight \in Nat /\ g \in [1 .. eight -> [V -> V]]
  OBVIOUS
<1> HIDE DEF eight
<1>2. PICK f \in [0 .. eight -> V] : Iterates(f, eight, b, g)
  BY <1>1, Iterated
<1> QED
  BY <1>2, Zenon DEF Iterates, eight

LEMMA DepsSteps ==
    \A b \in Deps : \A g \in [1 .. 8 -> [Deps -> Deps]] :
        \E f \in [0 .. 8 -> Deps] : f[0] = b /\ \A i \in 1 .. 8 : f[i] = g[i][f[i - 1]]
  BY EightSteps

At == {ws \in [0 .. 15 -> Words128] : \A i, j \in 0 .. 15 : i # j => ws[i] # ws[j]}

LEMMA QuartersIn == \A q \in 1 .. 8, k \in 1 .. 4 : Argon!Quarters[q][k] \in 0 .. 15
  BY DEF Argon!Quarters

LEMMA RoundSteps ==
    ASSUME NEW deps \in Deps, NEW ws \in At
    PROVE  \E f \in [0 .. 8 -> Deps] :
              /\ f[0] = deps /\ Argon!Round(deps, ws) = f[8]
              /\ \A q \in 1 .. 8 : f[q] = Argon!G(f[q - 1], Argon!Group(q, ws))
<1> DEFINE g == [q \in 1 .. 8 |-> [d \in Deps |-> Argon!G(d, Argon!Group(q, ws))]]
           step == CHOOSE step : step = [q \in 0 .. 8 |->
                       IF q = 0 THEN deps ELSE Argon!G(step[q - 1], Argon!Group(q, ws))]
<1>1. \A q \in 1 .. 8 : Argon!Group(q, ws) \in SUBSET Words128
  BY QuartersIn DEF Argon!Group, At
<1>2. g \in [1 .. 8 -> [Deps -> Deps]]
  <2>1. \A q \in 1 .. 8, d \in Deps : Argon!G(d, Argon!Group(q, ws)) \in Deps
    BY <1>1, GIs
  <2> QED
    BY <2>1, Zenon
<1>3. PICK f \in [0 .. 8 -> Deps] : f[0] = deps /\ \A q \in 1 .. 8 : f[q] = g[q][f[q - 1]]
  <2> HIDE DEF g, step
  <2> QED
    BY <1>2, DepsSteps, Zenon
<1>4. \A q \in 1 .. 8 : f[q] = Argon!G(f[q - 1], Argon!Group(q, ws))
  <2>1. \A q \in 1 .. 8 : q - 1 \in 0 .. 8
    OBVIOUS
  <2>2. \A q \in 1 .. 8 : f[q - 1] \in Deps
    BY <1>3, <2>1, Zenon
  <2> QED
    BY <1>3, <2>2, Zenon
<1>5. f = [q \in 0 .. 8 |-> IF q = 0 THEN deps ELSE Argon!G(f[q - 1], Argon!Group(q, ws))]
  <2>1. \A q \in 0 .. 8 : q # 0 => q \in 1 .. 8
    OBVIOUS
  <2>2. f = [q \in 0 .. 8 |-> f[q]]
    OBVIOUS
  <2>3. \A q \in 0 .. 8 : f[q] = IF q = 0 THEN deps ELSE Argon!G(f[q - 1], Argon!Group(q, ws))
    BY <1>3, <1>4, <2>1, Zenon
  <2> QED
    BY <2>2, <2>3, Zenon
<1>6. step = [q \in 0 .. 8 |-> IF q = 0 THEN deps ELSE Argon!G(step[q - 1], Argon!Group(q, ws))]
  BY <1>5, Zenon DEF step
<1>7. Argon!Round(deps, ws) = step[8]
  BY Zenon DEF Argon!Round
<1> HIDE DEF step
<1>8. \A q \in 0 .. 8 : step[q] = f[q]
  <2> DEFINE T == {q \in Nat : q <= 8 => step[q] = f[q]}
  <2>1. 0 \in T
    BY <1>3, <1>6
  <2>2. ASSUME NEW q \in Nat, q \in T
        PROVE  q + 1 \in T
    <3>1. CASE q + 1 <= 8
      <4>1. q + 1 \in 1 .. 8 /\ q + 1 \in 0 .. 8 /\ q + 1 # 0 /\ (q + 1) - 1 = q
        BY <3>1
      <4>2. step[q] = f[q]
        BY <2>2, <3>1
      <4>3. step[q + 1] = Argon!G(step[q], Argon!Group(q + 1, ws))
        BY <1>6, <4>1, Zenon
      <4>4. f[q + 1] = Argon!G(f[q], Argon!Group(q + 1, ws))
        BY <1>4, <4>1
      <4>5. step[q + 1] = f[q + 1]
        BY <4>2, <4>3, <4>4, Zenon
      <4> QED
        BY <4>5
    <3> QED
      BY <3>1
  <2> HIDE DEF T
  <2>3. \A q \in Nat : q \in T
    BY <2>1, <2>2, Induction
  <2> QED
    BY <2>3 DEF T
<1>9. step[8] = f[8]
  BY <1>8
<1> QED
  BY <1>3, <1>4, <1>7, <1>9

\* Which of sixteen words a group has: a column of the square of four by four, then a
\* diagonal.
LEMMA ColumnsAndDiagonals ==
    ASSUME NEW ws \in At, NEW q \in 1 .. 4
    PROVE  /\ \A i \in 0 .. 15 : ws[i] \in Argon!Group(q, ws) <=> i % 4 = q - 1
           /\ \A i \in 0 .. 15 : ws[i] \in Argon!Group(q + 4, ws) <=> ((i % 4) + 4 - (i \div 4)) % 4 = q - 1
           /\ \A w \in Argon!Group(q, ws) \cup Argon!Group(q + 4, ws) : \E i \in 0 .. 15 : w = ws[i]
<1>1. \A p \in 1 .. 8 : \A w : w \in Argon!Group(p, ws) <=> \E k \in 1 .. 4 : w = ws[Argon!Quarters[p][k]]
  BY DEF Argon!Group
<1>2. \A p \in 1 .. 8, i \in 0 .. 15 :
          ws[i] \in Argon!Group(p, ws) <=> \E k \in 1 .. 4 : i = Argon!Quarters[p][k]
  <2> SUFFICES ASSUME NEW p \in 1 .. 8, NEW i \in 0 .. 15
               PROVE  ws[i] \in Argon!Group(p, ws) <=> \E k \in 1 .. 4 : i = Argon!Quarters[p][k]
    OBVIOUS
  <2>1. \A k \in 1 .. 4 : ws[i] = ws[Argon!Quarters[p][k]] <=> i = Argon!Quarters[p][k]
    <3> SUFFICES ASSUME NEW k \in 1 .. 4
                 PROVE  ws[i] = ws[Argon!Quarters[p][k]] <=> i = Argon!Quarters[p][k]
      OBVIOUS
    <3> DEFINE j == Argon!Quarters[p][k]
    <3>1. j \in 0 .. 15
      BY QuartersIn
    <3> HIDE DEF j
    <3>2. \A a, b \in 0 .. 15 : a # b => ws[a] # ws[b]
      BY DEF At
    <3>3. ws[i] = ws[j] <=> i = j
      BY <3>1, <3>2, Zenon
    <3> QED
      BY <3>3 DEF j
  <2>2. ws[i] \in Argon!Group(p, ws) <=> \E k \in 1 .. 4 : ws[i] = ws[Argon!Quarters[p][k]]
    BY <1>1
  <2> QED
    BY <2>1, <2>2, Zenon
<1>3. \A i \in 0 .. 15 : (\E k \in 1 .. 4 : i = Argon!Quarters[q][k]) <=> i % 4 = q - 1
  <2> SUFFICES ASSUME NEW i \in 0 .. 15
               PROVE  (\E k \in 1 .. 4 : i = Argon!Quarters[q][k]) <=> i % 4 = q - 1
    OBVIOUS
  <2>1. (\E k \in 1 .. 4 : i = Argon!Quarters[q][k])
            <=> i = Argon!Quarters[q][1] \/ i = Argon!Quarters[q][2] \/ i = Argon!Quarters[q][3] \/ i = Argon!Quarters[q][4]
    OBVIOUS
  <2>2. CASE q = 1
    BY <2>1, <2>2 DEF Argon!Quarters
  <2>3. CASE q = 2
    BY <2>1, <2>3 DEF Argon!Quarters
  <2>4. CASE q = 3
    BY <2>1, <2>4 DEF Argon!Quarters
  <2>5. CASE q = 4
    BY <2>1, <2>5 DEF Argon!Quarters
  <2> QED
    BY <2>2, <2>3, <2>4, <2>5
<1>4. \A i \in 0 .. 15 :
          (\E k \in 1 .. 4 : i = Argon!Quarters[q + 4][k]) <=> ((i % 4) + 4 - (i \div 4)) % 4 = q - 1
  <2> SUFFICES ASSUME NEW i \in 0 .. 15
               PROVE  (\E k \in 1 .. 4 : i = Argon!Quarters[q + 4][k]) <=> ((i % 4) + 4 - (i \div 4)) % 4 = q - 1
    OBVIOUS
  <2> DEFINE r == q + 4
  <2>1. (\E k \in 1 .. 4 : i = Argon!Quarters[r][k])
            <=> i = Argon!Quarters[r][1] \/ i = Argon!Quarters[r][2] \/ i = Argon!Quarters[r][3] \/ i = Argon!Quarters[r][4]
    OBVIOUS
  <2>2. CASE q = 1
    <3>1. r = 5
      BY <2>2
    <3> QED
      BY <2>1, <2>2, <3>1 DEF Argon!Quarters
  <2>3. CASE q = 2
    <3>1. r = 6
      BY <2>3
    <3> QED
      BY <2>1, <2>3, <3>1 DEF Argon!Quarters
  <2>4. CASE q = 3
    <3>1. r = 7
      BY <2>4
    <3> QED
      BY <2>1, <2>4, <3>1 DEF Argon!Quarters
  <2>5. CASE q = 4
    <3>1. r = 8
      BY <2>5
    <3> QED
      BY <2>1, <2>5, <3>1 DEF Argon!Quarters
  <2> QED
    BY <2>2, <2>3, <2>4, <2>5
<1>5. q \in 1 .. 8 /\ q + 4 \in 1 .. 8
  OBVIOUS
<1>6. \A w \in Argon!Group(q, ws) \cup Argon!Group(q + 4, ws) : \E i \in 0 .. 15 : w = ws[i]
  <2> SUFFICES ASSUME NEW p \in 1 .. 8, NEW w, w \in Argon!Group(p, ws)
               PROVE  \E i \in 0 .. 15 : w = ws[i]
    BY <1>5, Zenon
  <2>1. PICK k \in 1 .. 4 : w = ws[Argon!Quarters[p][k]]
    BY <1>1, Zenon
  <2>2. Argon!Quarters[p][k] \in 0 .. 15
    BY QuartersIn, Zenon
  <2> QED
    BY <2>1, <2>2, Zenon
<1> QED
  BY <1>2, <1>3, <1>4, <1>5, <1>6, Zenon

\* After a round each of the sixteen words depends on what all of them did.
LEMMA RoundIs ==
    ASSUME NEW deps \in Deps, NEW ws \in At
    PROVE  /\ Argon!Round(deps, ws) \in Deps
           /\ \A i \in 0 .. 15 : Argon!Round(deps, ws)[ws[i]] = UNION {deps[ws[k]] : k \in 0 .. 15}
           /\ \A w \in Words128 : (\A i \in 0 .. 15 : w # ws[i]) => Argon!Round(deps, ws)[w] = deps[w]
<1> DEFINE All == UNION {deps[ws[k]] : k \in 0 .. 15}
           Part(j) == UNION {deps[ws[k]] : k \in {i \in 0 .. 15 : i % 4 = j}}
           Diagonal(i) == ((i % 4) + 4 - (i \div 4)) % 4
           Four(q) == {i \in 0 .. 15 : i % 4 = q - 1}
           Diag(q) == {i \in 0 .. 15 : Diagonal(i) = q - 1}
<1>1. PICK f \in [0 .. 8 -> Deps] :
              /\ f[0] = deps /\ Argon!Round(deps, ws) = f[8]
              /\ \A q \in 1 .. 8 : f[q] = Argon!G(f[q - 1], Argon!Group(q, ws))
  BY RoundSteps
<1>2. \A i \in 0 .. 15 : ws[i] \in Words128
  BY DEF At
\* One step, in terms of the sixteen.
<1>3. ASSUME NEW q \in 1 .. 4
      PROVE  /\ \A i \in 0 .. 15 : f[q][ws[i]] = IF i \in Four(q) THEN UNION {f[q - 1][ws[k]] : k \in Four(q)}
                                                 ELSE f[q - 1][ws[i]]
             /\ \A w \in Words128 : (\A i \in 0 .. 15 : w # ws[i]) => f[q][w] = f[q - 1][w]
  <2> DEFINE Gr == Argon!Group(q, ws)
             d == f[q - 1]
  <2>1. Gr = {ws[k] : k \in Four(q)}
    <3>1. (\A i \in 0 .. 15 : ws[i] \in Gr <=> i % 4 = q - 1) /\ \A w \in Gr : \E i \in 0 .. 15 : w = ws[i]
      BY ColumnsAndDiagonals
    <3> HIDE DEF Gr
    <3> QED
      BY <3>1
  <2>2. d \in Deps /\ f[q] = Argon!G(d, Gr) /\ Gr \in SUBSET Words128
    <3>1. q \in 1 .. 8 /\ q - 1 \in 0 .. 8
      OBVIOUS
    <3>2. d \in Deps /\ f[q] = Argon!G(d, Gr)
      BY <1>1, <3>1, Zenon
    <3> QED
      BY <1>2, <2>1, <3>2
  <2> HIDE DEF Gr, d
  <2>3. \A w \in Words128 : f[q][w] = IF w \in Gr THEN UNION {d[v] : v \in Gr} ELSE d[w]
    <3>1. \A w \in Words128 : Argon!G(d, Gr)[w] = IF w \in Gr THEN UNION {d[v] : v \in Gr} ELSE d[w]
      BY <2>2, GIs
    <3> QED
      BY <2>2, <3>1, Zenon
  <2>4. UNION {d[v] : v \in Gr} = UNION {d[ws[k]] : k \in Four(q)}
    BY <2>1
  <2>5. \A i \in 0 .. 15 : ws[i] \in Gr <=> i \in Four(q)
    BY <2>1, Zenon DEF At
  <2>6. \A w : (\A i \in 0 .. 15 : w # ws[i]) => w \notin Gr
    BY <2>1
  <2> QED
    BY <1>2, <2>3, <2>4, <2>5, <2>6, Zenon DEF d
<1>4. ASSUME NEW q \in 1 .. 4
      PROVE  /\ \A i \in 0 .. 15 : f[q + 4][ws[i]] = IF i \in Diag(q) THEN UNION {f[q + 3][ws[k]] : k \in Diag(q)}
                                                     ELSE f[q + 3][ws[i]]
             /\ \A w \in Words128 : (\A i \in 0 .. 15 : w # ws[i]) => f[q + 4][w] = f[q + 3][w]
  <2> DEFINE Gr == Argon!Group(q + 4, ws)
             d == f[q + 3]
  <2>1. Gr = {ws[k] : k \in Diag(q)}
    <3>1. (\A i \in 0 .. 15 : ws[i] \in Gr <=> Diagonal(i) = q - 1) /\ \A w \in Gr : \E i \in 0 .. 15 : w = ws[i]
      BY ColumnsAndDiagonals
    <3> HIDE DEF Gr, Diagonal
    <3> QED
      BY <3>1
  <2>2. d \in Deps /\ f[q + 4] = Argon!G(d, Gr) /\ Gr \in SUBSET Words128
    <3>1. q + 4 \in 1 .. 8 /\ q + 3 \in 0 .. 8 /\ (q + 4) - 1 = q + 3
      OBVIOUS
    <3>2. d \in Deps /\ f[q + 4] = Argon!G(d, Gr)
      BY <1>1, <3>1, Zenon
    <3> QED
      BY <1>2, <2>1, <3>2
  <2> HIDE DEF Gr, d, Diagonal
  <2>3. \A w \in Words128 : f[q + 4][w] = IF w \in Gr THEN UNION {d[v] : v \in Gr} ELSE d[w]
    <3>1. \A w \in Words128 : Argon!G(d, Gr)[w] = IF w \in Gr THEN UNION {d[v] : v \in Gr} ELSE d[w]
      BY <2>2, GIs
    <3> QED
      BY <2>2, <3>1, Zenon
  <2>4. UNION {d[v] : v \in Gr} = UNION {d[ws[k]] : k \in Diag(q)}
    BY <2>1
  <2>5. \A i \in 0 .. 15 : ws[i] \in Gr <=> i \in Diag(q)
    BY <2>1, Zenon DEF At
  <2>6. \A w : (\A i \in 0 .. 15 : w # ws[i]) => w \notin Gr
    BY <2>1
  <2> QED
    BY <1>2, <2>3, <2>4, <2>5, <2>6, Zenon DEF d
<1> HIDE DEF Diagonal
\* The columns.
<1>5. ASSUME NEW q \in 1 .. 4,
             \A i \in 0 .. 15 : f[q - 1][ws[i]] = IF i % 4 < q - 1 THEN Part(i % 4) ELSE deps[ws[i]]
      PROVE  \A i \in 0 .. 15 : f[q][ws[i]] = IF i % 4 < q THEN Part(i % 4) ELSE deps[ws[i]]
  <2>1. \A k \in Four(q) : f[q - 1][ws[k]] = deps[ws[k]]
    BY <1>5
  <2>2. UNION {f[q - 1][ws[k]] : k \in Four(q)} = Part(q - 1)
    BY <2>1
  <2> HIDE DEF Part
  <2> SUFFICES ASSUME NEW i \in 0 .. 15
               PROVE  f[q][ws[i]] = IF i % 4 < q THEN Part(i % 4) ELSE deps[ws[i]]
    OBVIOUS
  <2>3. CASE i % 4 = q - 1
    <3>1. f[q][ws[i]] = UNION {f[q - 1][ws[k]] : k \in Four(q)}
      BY <1>3, <2>3, Zenon
    <3>2. i % 4 < q
      BY <2>3
    <3> QED
      BY <2>2, <2>3, <3>1, <3>2, Zenon
  <2>4. CASE i % 4 # q - 1
    <3>1. f[q][ws[i]] = f[q - 1][ws[i]]
      BY <1>3, <2>4
    <3>2. i % 4 < q - 1 <=> i % 4 < q
      BY <2>4
    <3> QED
      BY <1>5, <3>1, <3>2
  <2> QED
    BY <2>3, <2>4
<1>6. \A i \in 0 .. 15 : f[4][ws[i]] = Part(i % 4)
  <2> HIDE DEF Part
  <2>0. \A i \in 0 .. 15 : f[1 - 1][ws[i]] = IF i % 4 < 1 - 1 THEN Part(i % 4) ELSE deps[ws[i]]
    BY <1>1
  <2>1. \A i \in 0 .. 15 : f[2 - 1][ws[i]] = IF i % 4 < 2 - 1 THEN Part(i % 4) ELSE deps[ws[i]]
    BY <1>5, <2>0
  <2>2. \A i \in 0 .. 15 : f[3 - 1][ws[i]] = IF i % 4 < 3 - 1 THEN Part(i % 4) ELSE deps[ws[i]]
    BY <1>5, <2>1
  <2>3. \A i \in 0 .. 15 : f[4 - 1][ws[i]] = IF i % 4 < 4 - 1 THEN Part(i % 4) ELSE deps[ws[i]]
    BY <1>5, <2>2
  <2>4. \A i \in 0 .. 15 : f[4][ws[i]] = IF i % 4 < 4 THEN Part(i % 4) ELSE deps[ws[i]]
    BY <1>5, <2>3
  <2>5. \A i \in 0 .. 15 : i % 4 < 4
    OBVIOUS
  <2> QED
    BY <2>4, <2>5
\* The diagonals: one word of every column each.
<1>7. All = UNION {Part(j) : j \in 0 .. 3}
  <2>1. \A k \in 0 .. 15 : k % 4 \in 0 .. 3
    OBVIOUS
  <2> QED
    BY <2>1
<1>8. \A q \in 1 .. 4 : UNION {Part(k % 4) : k \in Diag(q)} = All
  <2> SUFFICES ASSUME NEW q \in 1 .. 4
               PROVE  UNION {Part(k % 4) : k \in Diag(q)} = All
    OBVIOUS
  <2>1. \A k \in Diag(q) : k % 4 \in 0 .. 3
    OBVIOUS
  <2>2. \A j \in 0 .. 3 : \E k \in 0 .. 15 : k % 4 = j /\ Diagonal(k) = q - 1
    <3> SUFFICES ASSUME NEW j \in 0 .. 3
                 PROVE  \E k \in 0 .. 15 : k % 4 = j /\ Diagonal(k) = q - 1
      OBVIOUS
    <3> DEFINE r == (j + 4 - (q - 1)) % 4
    <3>1. r \in 0 .. 3
      OBVIOUS
    <3>2. 4 * r + j \in 0 .. 15 /\ (4 * r + j) % 4 = j /\ (4 * r + j) \div 4 = r
      BY <3>1
    <3>3. (j + 4 - r) % 4 = q - 1
      OBVIOUS
    <3>4. Diagonal(4 * r + j) = q - 1
      BY <3>2, <3>3, Zenon DEF Diagonal
    <3> QED
      BY <3>2, <3>4, Zenon
  <2>3. {Part(k % 4) : k \in Diag(q)} = {Part(j) : j \in 0 .. 3}
    <3>1. \A j \in 0 .. 3 : \E k \in Diag(q) : k % 4 = j
      BY <2>2
    <3> HIDE DEF Part, Diag
    <3> QED
      BY <2>1, <3>1
  <2> HIDE DEF All
  <2> QED
    BY <1>7, <2>3, Zenon
<1> HIDE DEF All, Part
<1>9. ASSUME NEW q \in 1 .. 4,
             \A i \in 0 .. 15 : f[q + 3][ws[i]] = IF Diagonal(i) < q - 1 THEN All ELSE Part(i % 4)
      PROVE  \A i \in 0 .. 15 : f[q + 4][ws[i]] = IF Diagonal(i) < q THEN All ELSE Part(i % 4)
  <2>1. \A k \in Diag(q) : f[q + 3][ws[k]] = Part(k % 4)
    BY <1>9
  <2>2. UNION {f[q + 3][ws[k]] : k \in Diag(q)} = All
    <3>1. {f[q + 3][ws[k]] : k \in Diag(q)} = {Part(k % 4) : k \in Diag(q)}
      BY <2>1
    <3> QED
      BY <1>8, <3>1
  <2> SUFFICES ASSUME NEW i \in 0 .. 15
               PROVE  f[q + 4][ws[i]] = IF Diagonal(i) < q THEN All ELSE Part(i % 4)
    OBVIOUS
  <2>3. CASE Diagonal(i) = q - 1
    <3>1. f[q + 4][ws[i]] = UNION {f[q + 3][ws[k]] : k \in Diag(q)}
      BY <1>4, <2>3, Zenon
    <3>2. Diagonal(i) < q
      BY <2>3
    <3> QED
      BY <2>2, <3>1, <3>2, Zenon
  <2>4. CASE Diagonal(i) # q - 1
    <3>1. f[q + 4][ws[i]] = f[q + 3][ws[i]]
      BY <1>4, <2>4
    <3>2. Diagonal(i) < q - 1 <=> Diagonal(i) < q
      <4>1. Diagonal(i) \in Int
        BY DEF Diagonal
      <4> QED
        BY <2>4, <4>1
    <3> QED
      BY <1>9, <3>1, <3>2
  <2> QED
    BY <2>3, <2>4
<1>10. \A i \in 0 .. 15 : f[8][ws[i]] = All
  <2>d. \A i \in 0 .. 15 : Diagonal(i) \in 0 .. 3
    BY DEF Diagonal
  <2>0. \A i \in 0 .. 15 : f[1 + 3][ws[i]] = IF Diagonal(i) < 1 - 1 THEN All ELSE Part(i % 4)
    BY <1>6, <2>d
  <2>1. \A i \in 0 .. 15 : f[2 + 3][ws[i]] = IF Diagonal(i) < 2 - 1 THEN All ELSE Part(i % 4)
    BY <1>9, <2>0
  <2>2. \A i \in 0 .. 15 : f[3 + 3][ws[i]] = IF Diagonal(i) < 3 - 1 THEN All ELSE Part(i % 4)
    BY <1>9, <2>1
  <2>3. \A i \in 0 .. 15 : f[4 + 3][ws[i]] = IF Diagonal(i) < 4 - 1 THEN All ELSE Part(i % 4)
    BY <1>9, <2>2
  <2>4. \A i \in 0 .. 15 : f[4 + 4][ws[i]] = IF Diagonal(i) < 4 THEN All ELSE Part(i % 4)
    BY <1>9, <2>3
  <2> QED
    BY <2>d, <2>4
<1>11. \A w \in Words128 : (\A i \in 0 .. 15 : w # ws[i]) => f[8][w] = deps[w]
  <2> SUFFICES ASSUME NEW w \in Words128, \A i \in 0 .. 15 : w # ws[i]
               PROVE  f[8][w] = deps[w]
    OBVIOUS
  <2>1. \A q \in 1 .. 4 : f[q][w] = f[q - 1][w] /\ f[q + 4][w] = f[q + 3][w]
    BY <1>3, <1>4
  <2>2. f[1][w] = f[0][w] /\ f[2][w] = f[1][w] /\ f[3][w] = f[2][w] /\ f[4][w] = f[3][w]
    BY <2>1
  <2>3. f[5][w] = f[4][w] /\ f[6][w] = f[5][w] /\ f[7][w] = f[6][w] /\ f[8][w] = f[7][w]
    BY <2>1
  <2> QED
    BY <1>1, <2>2, <2>3
<1>12. f[8] \in Deps
  BY <1>1
<1> QED
  BY <1>1, <1>10, <1>11, <1>12, Zenon DEF All

LEMMA EightIs ==
    ASSUME NEW deps \in Deps, NEW ws \in [1 .. 8 -> At]
    PROVE  \E f \in [0 .. 8 -> Deps] :
              /\ f[0] = deps /\ Argon!Eight(deps, ws) = f[8]
              /\ \A q \in 1 .. 8 : f[q] = Argon!Round(f[q - 1], ws[q])
<1> DEFINE g == [q \in 1 .. 8 |-> [d \in Deps |-> Argon!Round(d, ws[q])]]
           step == CHOOSE step : step = [q \in 0 .. 8 |->
                       IF q = 0 THEN deps ELSE Argon!Round(step[q - 1], ws[q])]
<1>1. \A q \in 1 .. 8 : ws[q] \in At
  OBVIOUS
<1>2. g \in [1 .. 8 -> [Deps -> Deps]]
  <2>1. \A q \in 1 .. 8, d \in Deps : Argon!Round(d, ws[q]) \in Deps
    BY <1>1, RoundIs
  <2> QED
    BY <2>1, Zenon
<1>3. PICK f \in [0 .. 8 -> Deps] : f[0] = deps /\ \A q \in 1 .. 8 : f[q] = g[q][f[q - 1]]
  <2> HIDE DEF g, step
  <2> QED
    BY <1>2, DepsSteps, Zenon
<1>4. \A q \in 1 .. 8 : f[q] = Argon!Round(f[q - 1], ws[q])
  <2>1. \A q \in 1 .. 8 : q - 1 \in 0 .. 8
    OBVIOUS
  <2>2. \A q \in 1 .. 8 : f[q - 1] \in Deps
    BY <1>3, <2>1, Zenon
  <2> QED
    BY <1>3, <2>2, Zenon
<1>5. f = [q \in 0 .. 8 |-> IF q = 0 THEN deps ELSE Argon!Round(f[q - 1], ws[q])]
  <2>1. \A q \in 0 .. 8 : q # 0 => q \in 1 .. 8
    OBVIOUS
  <2>2. f = [q \in 0 .. 8 |-> f[q]]
    OBVIOUS
  <2>3. \A q \in 0 .. 8 : f[q] = IF q = 0 THEN deps ELSE Argon!Round(f[q - 1], ws[q])
    BY <1>3, <1>4, <2>1, Zenon
  <2> QED
    BY <2>2, <2>3, Zenon
<1>6. step = [q \in 0 .. 8 |-> IF q = 0 THEN deps ELSE Argon!Round(step[q - 1], ws[q])]
  BY <1>5, Zenon DEF step
<1>7. Argon!Eight(deps, ws) = step[8]
  BY Zenon DEF Argon!Eight
<1> HIDE DEF step
<1>8. \A q \in 0 .. 8 : step[q] = f[q]
  <2> DEFINE T == {q \in Nat : q <= 8 => step[q] = f[q]}
  <2>1. 0 \in T
    BY <1>3, <1>6
  <2>2. ASSUME NEW q \in Nat, q \in T
        PROVE  q + 1 \in T
    <3>1. CASE q + 1 <= 8
      <4>1. q + 1 \in 1 .. 8 /\ q + 1 \in 0 .. 8 /\ q + 1 # 0 /\ (q + 1) - 1 = q
        BY <3>1
      <4>2. step[q] = f[q]
        BY <2>2, <3>1
      <4>3. step[q + 1] = Argon!Round(step[q], ws[q + 1])
        BY <1>6, <4>1, Zenon
      <4>4. f[q + 1] = Argon!Round(f[q], ws[q + 1])
        BY <1>4, <4>1
      <4>5. step[q + 1] = f[q + 1]
        BY <4>2, <4>3, <4>4, Zenon
      <4> QED
        BY <4>5
    <3> QED
      BY <3>1
  <2> HIDE DEF T
  <2>3. \A q \in Nat : q \in T
    BY <2>1, <2>2, Induction
  <2> QED
    BY <2>3 DEF T
<1>9. step[8] = f[8]
  BY <1>8
<1> QED
  BY <1>3, <1>4, <1>7, <1>9

RowOf(c) == {w \in Words128 : w \div 16 = c}

\* The columns are the blocks of sixteen words in turn.
LEMMA ColumnsMix ==
    LET d == Argon!Eight([v \in Words128 |-> {v}], [i \in 1 .. 8 |-> Argon!Column(i - 1)]) IN
    d \in Deps /\ \A w \in Words128 : d[w] = RowOf(w \div 16)
<1> DEFINE deps == [v \in Words128 |-> {v}]
           ws == [i \in 1 .. 8 |-> Argon!Column(i - 1)]
<1>1. deps \in Deps
  BY DEF Deps
<1>2. ws \in [1 .. 8 -> At]
  <2> SUFFICES ASSUME NEW i \in 1 .. 8
               PROVE  Argon!Column(i - 1) \in At
    OBVIOUS
  <2> DEFINE c == Argon!Column(i - 1)
  <2>1. c = [k \in 0 .. 15 |-> 16 * (i - 1) + k]
    BY Zenon DEF Argon!Column
  <2>2. \A k \in 0 .. 15 : 16 * (i - 1) + k \in Words128
    BY DEF Words128
  <2> HIDE DEF c
  <2>3. \A k, l \in 0 .. 15 : k # l => c[k] # c[l]
    BY <2>1
  <2>4. c \in [0 .. 15 -> Words128]
    BY <2>1, <2>2, Zenon
  <2> QED
    BY <2>3, <2>4, Zenon DEF At, c
<1>3. PICK f \in [0 .. 8 -> Deps] :
          /\ f[0] = deps /\ Argon!Eight(deps, ws) = f[8]
          /\ \A q \in 1 .. 8 : f[q] = Argon!Round(f[q - 1], ws[q])
  <2> HIDE DEF deps, ws
  <2> QED
    BY <1>1, <1>2, EightIs
<1> DEFINE Mixed(q) == \A w \in Words128 : f[q][w] = IF w \div 16 < q THEN RowOf(w \div 16) ELSE {w}
<1>4. Mixed(0)
  BY <1>3 DEF Words128
<1>5. ASSUME NEW q \in 1 .. 8, Mixed(q - 1)
      PROVE  Mixed(q)
  <2> DEFINE d == f[q - 1]
             a == ws[q]
             r == Argon!Round(d, a)
  <2>1. d \in Deps /\ f[q] = r /\ a \in At
    <3>1. q - 1 \in 0 .. 8
      OBVIOUS
    <3>2. a \in At
      BY <1>2
    <3> QED
      BY <1>3, <3>1, <3>2, Zenon
  <2>2. /\ \A i \in 0 .. 15 : r[a[i]] = UNION {d[a[k]] : k \in 0 .. 15}
        /\ \A w \in Words128 : (\A i \in 0 .. 15 : w # a[i]) => r[w] = d[w]
    <3> HIDE DEF d, a
    <3> QED
      BY <2>1, RoundIs
  <2>3. \A i \in 0 .. 15 : a[i] = 16 * (q - 1) + i
    BY DEF Argon!Column
  <2>4. \A w \in Words128 : d[w] = IF w \div 16 < q - 1 THEN RowOf(w \div 16) ELSE {w}
    BY <1>5, Zenon
  <2> HIDE DEF d, a, r
  <2>5. \A i \in 0 .. 15 : a[i] \in Words128 /\ a[i] \div 16 = q - 1
    BY <2>3 DEF Words128
  <2>6. \A w \in Words128 : w \div 16 = q - 1 => \E i \in 0 .. 15 : w = a[i]
    <3> SUFFICES ASSUME NEW w \in Words128, w \div 16 = q - 1
                 PROVE  \E i \in 0 .. 15 : w = a[i]
      OBVIOUS
    <3>1. w % 16 \in 0 .. 15 /\ w = 16 * (q - 1) + (w % 16)
      BY DEF Words128
    <3> QED
      BY <2>3, <3>1
  <2>7. UNION {d[a[k]] : k \in 0 .. 15} = RowOf(q - 1)
    <3>1. \A k \in 0 .. 15 : d[a[k]] = {a[k]}
      <4>1. \A k \in 0 .. 15 : ~(a[k] \div 16 < q - 1)
        BY <2>5
      <4> QED
        BY <2>4, <2>5, <4>1, Zenon
    <3>2. UNION {d[a[k]] : k \in 0 .. 15} = {a[k] : k \in 0 .. 15}
      BY <3>1
    <3>3. {a[k] : k \in 0 .. 15} = RowOf(q - 1)
      BY <2>5, <2>6 DEF RowOf
    <3> QED
      BY <3>2, <3>3, Zenon
  <2> SUFFICES ASSUME NEW w \in Words128
               PROVE  r[w] = IF w \div 16 < q THEN RowOf(w \div 16) ELSE {w}
    BY <2>1, Zenon
  <2>8. w \div 16 \in Int
    BY DEF Words128
  <2>9. CASE w \div 16 = q - 1
    <3>1. r[w] = RowOf(q - 1)
      <4>1. PICK i \in 0 .. 15 : w = a[i]
        BY <2>6, <2>9, Zenon
      <4>2. r[a[i]] = UNION {d[a[k]] : k \in 0 .. 15}
        BY <2>2
      <4> QED
        BY <2>7, <4>1, <4>2, Zenon
    <3>2. w \div 16 < q
      BY <2>9
    <3> QED
      BY <2>9, <3>1, <3>2, Zenon
  <2>10. CASE w \div 16 # q - 1
    <3>1. r[w] = d[w]
      BY <2>2, <2>5, <2>10, Zenon
    <3>2. w \div 16 < q <=> w \div 16 < q - 1
      BY <2>8, <2>10
    <3> QED
      BY <2>4, <3>1, <3>2, Zenon
  <2> QED
    BY <2>9, <2>10
<1> HIDE DEF Mixed, ws, deps
<1>6. Mixed(8)
  <2>0. Mixed(1 - 1)
    BY <1>4
  <2>1. Mixed(2 - 1)
    BY <1>5, <2>0
  <2>2. Mixed(3 - 1)
    BY <1>5, <2>1
  <2>3. Mixed(4 - 1)
    BY <1>5, <2>2
  <2>4. Mixed(5 - 1)
    BY <1>5, <2>3
  <2>5. Mixed(6 - 1)
    BY <1>5, <2>4
  <2>6. Mixed(7 - 1)
    BY <1>5, <2>5
  <2>7. Mixed(8 - 1)
    BY <1>5, <2>6
  <2> QED
    BY <1>5, <2>7
<1>7. \A w \in Words128 : f[8][w] = RowOf(w \div 16)
  <2>1. \A w \in Words128 : w \div 16 < 8
    BY DEF Words128
  <2> QED
    BY <1>6, <2>1, Zenon DEF Mixed
<1>8. f[8] \in Deps
  BY <1>3
<1> QED
  BY <1>3, <1>7, <1>8, Zenon DEF deps, ws

\* Every row has two words of every column.
LEMMA RowsMix ==
    ASSUME NEW deps \in Deps, \A w \in Words128 : deps[w] = RowOf(w \div 16)
    PROVE  LET d == Argon!Eight(deps, [i \in 1 .. 8 |-> Argon!Row(i - 1)]) IN
           \A w \in Words128 : d[w] = Words128
<1> DEFINE ws == [i \in 1 .. 8 |-> Argon!Row(i - 1)]
           Turn(w) == (w % 16) \div 2
<1>1. \A q \in 1 .. 8 : /\ DOMAIN ws[q] = 0 .. 15
                        /\ \A k \in 0 .. 15 : ws[q][k] = 2 * (q - 1) + (k % 2) + 16 * (k \div 2)
  BY DEF Argon!Row
<1>2. \A q \in 1 .. 8, k \in 0 .. 15 :
          /\ ws[q][k] \in Words128 /\ Turn(ws[q][k]) = q - 1 /\ ws[q][k] \div 16 = k \div 2
          /\ ws[q][k] % 2 = k % 2
  <2> SUFFICES ASSUME NEW q \in 1 .. 8, NEW k \in 0 .. 15
               PROVE  /\ ws[q][k] \in Words128 /\ Turn(ws[q][k]) = q - 1 /\ ws[q][k] \div 16 = k \div 2
                      /\ ws[q][k] % 2 = k % 2
    OBVIOUS
  <2>1. ws[q][k] = 2 * (q - 1) + (k % 2) + 16 * (k \div 2)
    BY <1>1
  <2> HIDE DEF ws
  <2> DEFINE x == ws[q][k]
             h == k \div 2
             e == k % 2
  <2>2. h \in 0 .. 7 /\ e \in 0 .. 1 /\ x = 2 * (q - 1) + e + 16 * h
    BY <2>1
  <2> HIDE DEF x, h, e
  <2>3. x \in 0 .. 127 /\ x \div 16 = h /\ x % 16 = 2 * (q - 1) + e /\ x % 2 = e
    BY <2>2
  <2>4. (2 * (q - 1) + e) \div 2 = q - 1
    BY <2>2
  <2> QED
    BY <2>3, <2>4 DEF x, h, e, Words128
<1>3. ws \in [1 .. 8 -> At]
  <2> SUFFICES ASSUME NEW q \in 1 .. 8
               PROVE  ws[q] \in At
    OBVIOUS
  <2> DEFINE c == ws[q]
  <2>1. c = [k \in 0 .. 15 |-> 2 * (q - 1) + (k % 2) + 16 * (k \div 2)]
    BY DEF Argon!Row
  <2>2. \A k \in 0 .. 15 : c[k] \in Words128
    BY <1>2
  <2>3. \A k, l \in 0 .. 15 : k # l => c[k] # c[l]
    <3> SUFFICES ASSUME NEW k \in 0 .. 15, NEW l \in 0 .. 15, c[k] = c[l]
                 PROVE  k = l
      OBVIOUS
    <3>1. k \div 2 = l \div 2 /\ k % 2 = l % 2
      BY <1>2
    <3> QED
      BY <3>1
  <2> HIDE DEF c
  <2>4. c \in [0 .. 15 -> Words128]
    BY <2>1, <2>2
  <2> QED
    BY <2>3, <2>4, Zenon DEF At, c
<1>4. PICK f \in [0 .. 8 -> Deps] :
          /\ f[0] = deps /\ Argon!Eight(deps, ws) = f[8]
          /\ \A q \in 1 .. 8 : f[q] = Argon!Round(f[q - 1], ws[q])
  <2> HIDE DEF ws
  <2> QED
    BY <1>3, EightIs
<1> HIDE DEF ws
<1> DEFINE Mixed(q) == \A w \in Words128 : f[q][w] = IF Turn(w) < q THEN Words128 ELSE RowOf(w \div 16)
<1>t. \A w \in Words128 : Turn(w) \in 0 .. 7
  BY DEF Words128
<1>5. Mixed(0)
  BY <1>4, <1>t
<1>6. ASSUME NEW q \in 1 .. 8, Mixed(q - 1)
      PROVE  Mixed(q)
  <2> DEFINE d == f[q - 1]
             a == ws[q]
             r == Argon!Round(d, a)
  <2>1. d \in Deps /\ f[q] = r /\ a \in At
    <3>1. q - 1 \in 0 .. 8
      OBVIOUS
    <3>2. a \in At
      BY <1>3
    <3> QED
      BY <1>4, <3>1, <3>2, Zenon
  <2>2. /\ \A i \in 0 .. 15 : r[a[i]] = UNION {d[a[k]] : k \in 0 .. 15}
        /\ \A w \in Words128 : (\A i \in 0 .. 15 : w # a[i]) => r[w] = d[w]
    <3> HIDE DEF d, a
    <3> QED
      BY <2>1, RoundIs
  <2>3. \A i \in 0 .. 15 : /\ a[i] = 2 * (q - 1) + (i % 2) + 16 * (i \div 2)
                           /\ a[i] \in Words128 /\ Turn(a[i]) = q - 1 /\ a[i] \div 16 = i \div 2
    BY <1>1, <1>2, Zenon
  <2>4. \A w \in Words128 : d[w] = IF Turn(w) < q - 1 THEN Words128 ELSE RowOf(w \div 16)
    BY <1>6, Zenon
  <2> HIDE DEF d, a, r
  <2>5. \A w \in Words128 : Turn(w) = q - 1 => \E i \in 0 .. 15 : w = a[i]
    <3> SUFFICES ASSUME NEW w \in Words128, Turn(w) = q - 1
                 PROVE  \E i \in 0 .. 15 : w = a[i]
      OBVIOUS
    <3> DEFINE c == w \div 16
               e == w % 2
               i == 2 * c + e
    <3>1. c \in 0 .. 7 /\ e \in 0 .. 1 /\ w = 16 * c + 2 * (q - 1) + e
      BY DEF Words128
    <3> HIDE DEF c, e
    <3>2. i \in 0 .. 15 /\ i % 2 = e /\ i \div 2 = c
      BY <3>1
    <3>3. a[i] = 2 * (q - 1) + (i % 2) + 16 * (i \div 2)
      BY <2>3, <3>2, Zenon
    <3>4. a[i] = w
      BY <3>1, <3>2, <3>3
    <3> QED
      BY <3>2, <3>4
  <2> HIDE DEF Turn
  <2>6. UNION {d[a[k]] : k \in 0 .. 15} = Words128
    <3>1. \A k \in 0 .. 15 : d[a[k]] = RowOf(k \div 2)
      <4>1. \A k \in 0 .. 15 : ~(Turn(a[k]) < q - 1)
        BY <2>3
      <4> QED
        BY <2>3, <2>4, <4>1, Zenon
    <3>2. \A w \in Words128 : \E k \in 0 .. 15 : w \in RowOf(k \div 2)
      <4> SUFFICES ASSUME NEW w \in Words128
                   PROVE  \E k \in 0 .. 15 : w \in RowOf(k \div 2)
        OBVIOUS
      <4>1. 2 * (w \div 16) \in 0 .. 15 /\ (2 * (w \div 16)) \div 2 = w \div 16
        BY DEF Words128
      <4> QED
        BY <4>1 DEF RowOf
    <3>3. \A k \in 0 .. 15 : RowOf(k \div 2) \subseteq Words128
      BY DEF RowOf
    <3>4. UNION {d[a[k]] : k \in 0 .. 15} = UNION {RowOf(k \div 2) : k \in 0 .. 15}
      BY <3>1
    <3>5. UNION {RowOf(k \div 2) : k \in 0 .. 15} = Words128
      BY <3>2, <3>3
    <3> QED
      BY <3>4, <3>5, Zenon
  <2> SUFFICES ASSUME NEW w \in Words128
               PROVE  r[w] = IF Turn(w) < q THEN Words128 ELSE RowOf(w \div 16)
    BY <2>1, Zenon
  <2>8. CASE Turn(w) = q - 1
    <3>1. r[w] = Words128
      <4>1. PICK i \in 0 .. 15 : w = a[i]
        BY <2>5, <2>8, Zenon
      <4>2. r[a[i]] = UNION {d[a[k]] : k \in 0 .. 15}
        BY <2>2
      <4> QED
        BY <2>6, <4>1, <4>2, Zenon
    <3>2. Turn(w) < q
      BY <2>8
    <3> QED
      BY <3>1, <3>2, Zenon
  <2>9. CASE Turn(w) # q - 1
    <3>1. r[w] = d[w]
      BY <2>2, <2>3, <2>9, Zenon
    <3>2. Turn(w) < q <=> Turn(w) < q - 1
      BY <1>t, <2>9
    <3> QED
      BY <2>4, <3>1, <3>2, Zenon
  <2> QED
    BY <2>8, <2>9
<1> HIDE DEF Mixed, Turn
<1>7. Mixed(8)
  <2>0. Mixed(1 - 1)
    BY <1>5
  <2>1. Mixed(2 - 1)
    BY <1>6, <2>0
  <2>2. Mixed(3 - 1)
    BY <1>6, <2>1
  <2>3. Mixed(4 - 1)
    BY <1>6, <2>2
  <2>4. Mixed(5 - 1)
    BY <1>6, <2>3
  <2>5. Mixed(6 - 1)
    BY <1>6, <2>4
  <2>6. Mixed(7 - 1)
    BY <1>6, <2>5
  <2>7. Mixed(8 - 1)
    BY <1>6, <2>6
  <2> QED
    BY <1>6, <2>7
<1>8. \A w \in Words128 : f[8][w] = Words128
  <2>1. \A w \in Words128 : Turn(w) < 8
    BY <1>t
  <2> QED
    BY <1>7, <2>1, Zenon DEF Mixed
<1> QED
  BY <1>4, <1>8, Zenon DEF ws

LEMMA WordsMix == Argon!WordsAreMixed
<1> DEFINE c == Argon!Eight([v \in Words128 |-> {v}], [i \in 1 .. 8 |-> Argon!Column(i - 1)])
           d == Argon!Eight(c, [i \in 1 .. 8 |-> Argon!Row(i - 1)])
<1>1. c \in Deps /\ \A w \in Words128 : c[w] = RowOf(w \div 16)
  BY ColumnsMix
<1>2. Argon!Rounds([v \in 0 .. 127 |-> {v}]) = d
  BY Zenon DEF Argon!Rounds, Words128
<1> HIDE DEF c
<1>3. \A w \in Words128 : d[w] = Words128
  BY <1>1, RowsMix
<1> HIDE DEF d
<1> QED
  BY <1>2, <1>3, Zenon DEF Argon!WordsAreMixed, Words128

-----------------------------------------------------------------------------
(* The invariant of Argon2. *)

ArgonInv ==
    /\ ArgonTyping /\ ArgonFilled /\ ArgonIndexed /\ ArgonSpent
    /\ Argon!LanesAreIndependent /\ Argon!AddressesUsedOnce /\ Argon!HashTakesEveryLane

LEMMA ArgonInvInit == Argon!Init => ArgonInv
<1> SUFFICES ASSUME Argon!Init
             PROVE  ArgonInv
  OBVIOUS
<1>1. v8 = <<>> /\ v9 = {} /\ v10 = {}
  BY DEF Argon!Init
<1>2. ArgonTyping /\ ArgonFilled /\ ArgonIndexed
  BY ArgonTypingInit, ArgonFilledInit, ArgonIndexedInit
<1>3. ArgonSpent
  BY <1>1 DEF ArgonSpent
<1>4. Argon!LanesAreIndependent /\ Argon!AddressesUsedOnce /\ Argon!HashTakesEveryLane
  BY <1>1, Zenon DEF Argon!LanesAreIndependent, Argon!AddressesUsedOnce, Argon!HashTakesEveryLane
<1> QED
  BY <1>2, <1>3, <1>4, Zenon DEF ArgonInv

LEMMA ArgonInvStep == ArgonInv /\ [Argon!Next]_Argon!vars => ArgonInv'
<1> SUFFICES ASSUME ArgonInv, [Argon!Next]_Argon!vars
             PROVE  ArgonInv'
  OBVIOUS
<1>1. /\ ArgonTyping /\ ArgonFilled /\ ArgonIndexed /\ ArgonSpent
      /\ Argon!LanesAreIndependent /\ Argon!AddressesUsedOnce /\ Argon!HashTakesEveryLane
  BY DEF ArgonInv
<1>2. ArgonTyping' /\ ArgonFilled' /\ ArgonIndexed'
  BY <1>1, ArgonTypingStep, ArgonFilledStep, ArgonIndexedStep
<1>3. ArgonSpent' /\ Argon!AddressesUsedOnce'
  BY <1>1, AddressesStep
<1>4. Argon!LanesAreIndependent' /\ Argon!HashTakesEveryLane'
  BY <1>1, IndependentStep, HashTakesStep
<1> QED
  BY <1>2, <1>3, <1>4 DEF ArgonInv

\* Whatever the calls are, and in whatever order the lanes of a slice run, what a block
\* is made of is settled and filled, no address serves twice, different arguments have
\* different first hashes, every word of a mixed block depends on all, and the hash is
\* over the last block of every lane after the last pass (monocypher.c:730-907).
THEOREM LanesMakeOneHashAlways == PartsSpec => []LanesMakeOneHash
<1> DEFINE I == part = "argon2" => ArgonInv
<1>1. PartsInit => I
  BY CryptoPartInit, ArgonInvInit
<1>2. I /\ [PartsNext]_partsVars => I'
  BY CryptoPartStep, ArgonInvStep
<1>3. I => LanesMakeOneHash
  BY Separated, WordsMix DEF LanesMakeOneHash, ArgonInv
<1> QED
  BY <1>1, <1>2, <1>3, PTL DEF PartsSpec

-----------------------------------------------------------------------------
(* Eddsa.  The cells of the memory hold sequences of symbols, so that bytes     *)
(* made of the same symbols were made of the same terms: of one key, message    *)
(* and scheme.                                                                  *)

\* The symbols that bytes are made of.
Letters ==
    {".", "lo", "hi", "0", "B", "S", "SigEd25519", "free", "scalar", "prefix", "blake2b", "sha512"}
        \cup UNION {c.seeds \cup c.messages : c \in Callers}
Strs == Seq(Letters)

LEMMA LettersAre ==
    /\ "." \in Letters /\ "lo" \in Letters /\ "hi" \in Letters /\ "0" \in Letters
    /\ "B" \in Letters /\ "S" \in Letters /\ "SigEd25519" \in Letters /\ "free" \in Letters
    /\ "scalar" \in Letters /\ "prefix" \in Letters /\ "blake2b" \in Letters
    /\ "sha512" \in Letters
  BY Zenon DEF Letters

\* h is x with p behind it: kept folded, for the provers.
Joins(h, x, p) == h = x \o p

LEMMA JoinedIs ==
    ASSUME NEW S, NEW x \in Seq(S), NEW p \in Seq(S), NEW h, Joins(h, x, p)
    PROVE  /\ h \in Seq(S) /\ Len(h) = Len(x) + Len(p)
           /\ \A i \in 1 .. Len(x) + Len(p) : h[i] = IF i <= Len(x) THEN x[i] ELSE p[i - Len(x)]
  BY ConcatProperties DEF Joins

\* What two sequences that make one are, if they are as long as two others that do.
LEMMA SameParts ==
    ASSUME NEW S, NEW x \in Seq(S), NEW y \in Seq(S), NEW p \in Seq(S), NEW q \in Seq(S),
           NEW h, Joins(h, x, p), Joins(h, y, q), Len(x) = Len(y) \/ Len(p) = Len(q)
    PROVE  x = y /\ p = q
<1>1. /\ Len(h) = Len(x) + Len(p)
      /\ \A i \in 1 .. Len(x) + Len(p) : h[i] = IF i <= Len(x) THEN x[i] ELSE p[i - Len(x)]
  BY JoinedIs
<1>2. /\ Len(h) = Len(y) + Len(q)
      /\ \A i \in 1 .. Len(y) + Len(q) : h[i] = IF i <= Len(y) THEN y[i] ELSE q[i - Len(y)]
  BY JoinedIs
<1>3. Len(x) \in Nat /\ Len(y) \in Nat /\ Len(p) \in Nat /\ Len(q) \in Nat
  OBVIOUS
<1>4. Len(x) = Len(y) /\ Len(p) = Len(q)
  BY <1>1, <1>2, <1>3
<1>5. ASSUME NEW i \in 1 .. Len(x)
      PROVE  x[i] = y[i]
  BY <1>1, <1>2, <1>3, <1>4
<1>6. ASSUME NEW i \in 1 .. Len(p)
      PROVE  p[i] = q[i]
  <2> DEFINE k == Len(x) + i
  <2>1. k \in 1 .. Len(x) + Len(p) /\ ~(k <= Len(x)) /\ k - Len(x) = i
    BY <1>3
  <2> HIDE DEF k
  <2>2. h[k] = p[i]
    BY <1>1, <2>1
  <2>3. h[k] = q[i]
    BY <1>2, <1>4, <2>1
  <2> QED
    BY <2>2, <2>3
<1> QED
  BY <1>4, <1>5, <1>6, SeqEqual

LEMMA OneElement ==
    ASSUME NEW S, NEW e \in S
    PROVE  <<e>> \in Seq(S) /\ Len(<<e>>) = 1 /\ <<e>>[1] = e
  OBVIOUS

\* A name, bytes and an end.
LEMMA Enclosed ==
    ASSUME NEW S, NEW n \in S, NEW b \in Seq(S), NEW d \in S
    PROVE  LET t == <<n>> \o b \o <<d>>
           IN  t \in Seq(S) /\ Len(t) = Len(b) + 2 /\ t[1] = n
<1>1. <<n>> \in Seq(S) /\ <<d>> \in Seq(S) /\ Len(<<n>>) = 1 /\ Len(<<d>>) = 1 /\ <<n>>[1] = n
  BY OneElement
<1> DEFINE x == <<n>> \o b
<1>2. x \in Seq(S) /\ Len(x) = 1 + Len(b) /\ x[1] = n
  BY <1>1, ConcatProperties
<1> HIDE DEF x
<1>3. x \o <<d>> \in Seq(S) /\ Len(x \o <<d>>) = Len(b) + 2 /\ (x \o <<d>>)[1] = n
  BY <1>1, <1>2, ConcatProperties
<1> QED
  BY <1>3 DEF x

\* h is name n, bytes b, end d.
Encloses(h, n, b, d) == h = <<n>> \o b \o <<d>>

LEMMA SameEnclosed ==
    ASSUME NEW S, NEW n \in S, NEW b \in Seq(S), NEW d \in S, NEW m \in S, NEW c \in Seq(S),
           NEW h, Encloses(h, n, b, d), Encloses(h, m, c, d)
    PROVE  n = m /\ b = c
<1>1. n = m
  BY Enclosed DEF Encloses
<1> DEFINE nn == <<n>>
           mm == <<m>>
           dd == <<d>>
           x == nn \o b
           y == mm \o c
<1>2. /\ nn \in Seq(S) /\ mm \in Seq(S) /\ dd \in Seq(S)
      /\ Len(nn) = Len(mm)
  BY OneElement
<1>3. Joins(h, x, dd) /\ Joins(h, y, dd)
  BY Zenon DEF Encloses, Joins
<1>4. Joins(x, nn, b) /\ Joins(y, mm, c)
  BY Zenon DEF Joins
<1> HIDE DEF nn, mm, dd
<1>5. x \in Seq(S) /\ y \in Seq(S)
  BY <1>2, ConcatProperties
<1> HIDE DEF x, y
<1>6. x = y
  BY <1>2, <1>3, <1>5, SameParts
<1>7. b = c
  BY <1>2, <1>4, <1>6, SameParts
<1> QED
  BY <1>1, <1>7

LEMMA TermIs ==
    \A n \in Letters : \A b \in Strs :
        /\ Sig!Term(n, b) \in Strs /\ Len(Sig!Term(n, b)) = Len(b) + 2
        /\ Sig!Term(n, b)[1] = n
<1>1. \A S : \A n, d \in S : \A b \in Seq(S) :
        LET t == <<n>> \o b \o <<d>>
        IN  t \in Seq(S) /\ Len(t) = Len(b) + 2 /\ t[1] = n
  BY Enclosed
<1> QED
  BY <1>1, LettersAre, Zenon DEF Sig!Term, Strs

LEMMA SameTerm ==
    \A n, m \in Letters : \A b, c \in Strs :
        Sig!Term(n, b) = Sig!Term(m, c) => n = m /\ b = c
<1> SUFFICES ASSUME NEW n \in Letters, NEW m \in Letters, NEW b \in Strs, NEW c \in Strs,
                    Sig!Term(n, b) = Sig!Term(m, c)
             PROVE  n = m /\ b = c
  BY Zenon
<1> DEFINE d == "."
           h == Sig!Term(n, b)
<1>1. d \in Letters
  BY LettersAre, Zenon
<1>2. Encloses(h, n, b, d) /\ Encloses(h, m, c, d)
  BY Zenon DEF Sig!Term, Encloses
<1> HIDE DEF d, h
<1> QED
  BY <1>1, <1>2, SameEnclosed DEF Strs

LEMMA Lengthened ==
    ASSUME NEW S, NEW b \in Seq(S), NEW c \in Seq(S), NEW e \in S, NEW d \in S
    PROVE  /\ Append(b, e) \in Seq(S) /\ Len(Append(b, e)) = Len(b) + 1
           /\ Append(b, e)[Len(b) + 1] = e
           /\ Append(b, e) = Append(c, d) => b = c /\ e = d
<1>1. /\ Append(b, e) \in Seq(S) /\ Len(Append(b, e)) = Len(b) + 1
      /\ \A i \in 1 .. Len(b) : Append(b, e)[i] = b[i]
      /\ Append(b, e)[Len(b) + 1] = e
  BY AppendProperties
<1>2. /\ Append(c, d) \in Seq(S) /\ Len(Append(c, d)) = Len(c) + 1
      /\ \A i \in 1 .. Len(c) : Append(c, d)[i] = c[i]
      /\ Append(c, d)[Len(c) + 1] = d
  BY AppendProperties
<1>3. Len(b) \in Nat /\ Len(c) \in Nat
  OBVIOUS
<1>4. ASSUME Append(b, e) = Append(c, d)
      PROVE  b = c /\ e = d
  <2>1. Len(b) = Len(c)
    BY <1>1, <1>2, <1>3, <1>4
  <2>2. \A i \in 1 .. Len(b) : b[i] = c[i]
    BY <1>1, <1>2, <1>4, <2>1, Zenon
  <2>3. e = d
    BY <1>1, <1>2, <1>4, <2>1, Zenon
  <2> QED
    BY <2>1, <2>2, <2>3, SeqEqual
<1> QED
  BY <1>1, <1>4

LEMMA TwoElements ==
    ASSUME NEW S, NEW x \in S, NEW y \in S
    PROVE  <<x, y>> \in [1 .. 2 -> S] /\ <<x, y>>[1] = x /\ <<x, y>>[2] = y /\ Len(<<x, y>>) = 2
  OBVIOUS

LEMMA HalvesAre ==
    \A b \in Strs :
        /\ Sig!Half(b, 0) \in Strs /\ Sig!Half(b, 1) \in Strs
        /\ Len(Sig!Half(b, 0)) = Len(b) + 1 /\ Len(Sig!Half(b, 1)) = Len(b) + 1
        /\ Sig!Bytes32(b) = <<Sig!Half(b, 0), Sig!Half(b, 1)>>
        /\ Sig!Bytes32(b) \in [1 .. 2 -> Strs] /\ Len(Sig!Bytes32(b)) = 2
        /\ Sig!Bytes32(b)[1] = Sig!Half(b, 0) /\ Sig!Bytes32(b)[2] = Sig!Half(b, 1)
        /\ \A c \in Strs : Sig!Half(b, 0) = Sig!Half(c, 0) => b = c
<1> SUFFICES ASSUME NEW b \in Strs
             PROVE  /\ Sig!Half(b, 0) \in Strs /\ Sig!Half(b, 1) \in Strs
                    /\ Len(Sig!Half(b, 0)) = Len(b) + 1 /\ Len(Sig!Half(b, 1)) = Len(b) + 1
                    /\ Sig!Bytes32(b) = <<Sig!Half(b, 0), Sig!Half(b, 1)>>
                    /\ Sig!Bytes32(b) \in [1 .. 2 -> Strs] /\ Len(Sig!Bytes32(b)) = 2
                    /\ Sig!Bytes32(b)[1] = Sig!Half(b, 0) /\ Sig!Bytes32(b)[2] = Sig!Half(b, 1)
                    /\ \A c \in Strs : Sig!Half(b, 0) = Sig!Half(c, 0) => b = c
  BY Zenon
<1>0. 1 # 0
  OBVIOUS
<1>1. \A c : Sig!Half(c, 0) = Append(c, "lo") /\ Sig!Half(c, 1) = Append(c, "hi")
  BY <1>0, Zenon DEF Sig!Half
<1>2. \A e \in Letters :
        /\ Append(b, e) \in Strs /\ Len(Append(b, e)) = Len(b) + 1
        /\ \A c \in Strs : Append(b, e) = Append(c, e) => b = c
  BY Lengthened DEF Strs
<1>3. /\ Sig!Half(b, 0) \in Strs /\ Sig!Half(b, 1) \in Strs
      /\ Len(Sig!Half(b, 0)) = Len(b) + 1 /\ Len(Sig!Half(b, 1)) = Len(b) + 1
      /\ \A c \in Strs : Sig!Half(b, 0) = Sig!Half(c, 0) => b = c
  BY <1>1, <1>2, LettersAre, Zenon
<1>4. Sig!Bytes32(b) = <<Sig!Half(b, 0), Sig!Half(b, 1)>>
  BY Zenon DEF Sig!Bytes32
<1>5. /\ Sig!Bytes32(b) \in [1 .. 2 -> Strs] /\ Len(Sig!Bytes32(b)) = 2
      /\ Sig!Bytes32(b)[1] = Sig!Half(b, 0) /\ Sig!Bytes32(b)[2] = Sig!Half(b, 1)
  BY <1>3, <1>4, TwoElements
<1> QED
  BY <1>3, <1>4, <1>5, Zenon

Mem(n) == [0 .. n - 1 -> Strs]
TwoCells == {b \in Seq(Strs) : Len(b) = 2}

\* Two cells joined.
LEMMA TwoJoined ==
    ASSUME NEW c \in TwoCells
    PROVE  Sig!Joined(c) = c[1] \o c[2] /\ Sig!Joined(c) \in Strs
           /\ Len(Sig!Joined(c)) = Len(c[1]) + Len(c[2])
<1> DEFINE join == CHOOSE join : join = [i \in 0 .. Len(c) |-> IF i = 0 THEN <<>> ELSE join[i - 1] \o c[i]]
           f == [i \in 0 .. 2 |-> IF i = 0 THEN <<>> ELSE IF i = 1 THEN <<>> \o c[1] ELSE (<<>> \o c[1]) \o c[2]]
<1>0. c \in Seq(Strs) /\ Len(c) = 2
  BY Zenon DEF TwoCells
<1>1. Sig!Joined(c) = join[2]
  BY <1>0, Zenon DEF Sig!Joined
<1>2. f = [i \in 0 .. Len(c) |-> IF i = 0 THEN <<>> ELSE f[i - 1] \o c[i]]
  <2>1. \A i \in 0 .. 2 : i = 0 \/ i = 1 \/ i = 2
    OBVIOUS
  <2>2. f[0] = <<>> /\ f[1] = <<>> \o c[1] /\ f[2] = (<<>> \o c[1]) \o c[2]
    <3> DEFINE e1 == <<>> \o c[1]
               e2 == (<<>> \o c[1]) \o c[2]
               g == [i \in 0 .. 2 |-> IF i = 0 THEN <<>> ELSE IF i = 1 THEN e1 ELSE e2]
    <3> HIDE DEF e1, e2
    <3>1. g[0] = <<>> /\ g[1] = e1 /\ g[2] = e2
      OBVIOUS
    <3> HIDE DEF g
    <3>2. f = g
      BY Zenon DEF g, e1, e2
    <3> QED
      BY <3>1, <3>2, Zenon DEF e1, e2
  <2>3. ASSUME NEW i \in 0 .. 2
        PROVE  f[i] = IF i = 0 THEN <<>> ELSE f[i - 1] \o c[i]
    <3> HIDE DEF f
    <3>1. CASE i = 0
      BY <2>2, <3>1
    <3>2. CASE i = 1
      <4>1. i - 1 = 0 /\ i # 0
        BY <3>2
      <4> QED
        BY <2>2, <3>2, <4>1, Zenon
    <3>3. CASE i = 2
      <4>1. i - 1 = 1 /\ i # 0
        BY <3>3
      <4> QED
        BY <2>2, <3>3, <4>1, Zenon
    <3> QED
      BY <2>1, <3>1, <3>2, <3>3
  <2> DEFINE g == [i \in 0 .. 2 |-> IF i = 0 THEN <<>> ELSE f[i - 1] \o c[i]]
  <2>4. f = g
    BY <2>3, Zenon
  <2> QED
    BY <1>0, <2>4, Zenon
<1>3. join = [i \in 0 .. Len(c) |-> IF i = 0 THEN <<>> ELSE join[i - 1] \o c[i]]
  BY <1>2, Zenon
<1> HIDE DEF join
<1>4. join[0] = <<>> /\ join[1] = join[0] \o c[1] /\ join[2] = join[1] \o c[2]
  <2>1. 0 \in 0 .. Len(c) /\ 1 \in 0 .. Len(c) /\ 2 \in 0 .. Len(c)
        /\ 1 # 0 /\ 2 # 0 /\ 1 - 1 = 0 /\ 2 - 1 = 1
    BY <1>0
  <2> QED
    BY <1>3, <2>1, Zenon
<1>5. c[1] \in Strs /\ c[2] \in Strs
  BY <1>0
<1>6. <<>> \o c[1] = c[1]
  BY <1>5, ConcatEmptySeq DEF Strs
<1>7. c[1] \o c[2] \in Strs /\ Len(c[1] \o c[2]) = Len(c[1]) + Len(c[2])
  BY <1>5, ConcatProperties DEF Strs
<1> QED
  BY <1>1, <1>4, <1>6, <1>7, Zenon

\* Two cells copied, the lower one first.
LEMMA TwoCopied ==
    \A n \in Nat : \A m \in Mem(n) : \A to, from \in 0 .. n - 2 :
        LET m1 == [m EXCEPT ![to] = m[from]]
        IN  Sig!Copy(m, to, from, 2) = [m1 EXCEPT ![to + 1] = m1[from + 1]]
<1> SUFFICES ASSUME NEW n \in Nat, NEW m \in Mem(n), NEW to \in 0 .. n - 2, NEW from \in 0 .. n - 2
             PROVE  LET m1 == [m EXCEPT ![to] = m[from]]
                    IN  Sig!Copy(m, to, from, 2) = [m1 EXCEPT ![to + 1] = m1[from + 1]]
  BY Zenon
<1> DEFINE copied == CHOOSE copied : copied = [i \in 0 .. 2 |->
                        IF i = 0 THEN m
                        ELSE [copied[i - 1] EXCEPT ![to + i - 1] = copied[i - 1][from + i - 1]]]
           m1 == [m EXCEPT ![to + 1 - 1] = m[from + 1 - 1]]
           m2 == [m1 EXCEPT ![to + 2 - 1] = m1[from + 2 - 1]]
           f == [i \in 0 .. 2 |-> IF i = 0 THEN m ELSE IF i = 1 THEN m1 ELSE m2]
<1>1. Sig!Copy(m, to, from, 2) = copied[2]
  BY Zenon DEF Sig!Copy
<1>2. f = [i \in 0 .. 2 |-> IF i = 0 THEN m ELSE [f[i - 1] EXCEPT ![to + i - 1] = f[i - 1][from + i - 1]]]
  <2>1. \A i \in 0 .. 2 : i = 0 \/ i = 1 \/ i = 2
    OBVIOUS
  <2>2. f[0] = m /\ f[1] = m1 /\ f[2] = m2
    <3> HIDE DEF m1, m2
    <3> QED
      OBVIOUS
  <2>3. ASSUME NEW i \in 0 .. 2
        PROVE  f[i] = IF i = 0 THEN m ELSE [f[i - 1] EXCEPT ![to + i - 1] = f[i - 1][from + i - 1]]
    <3> HIDE DEF f
    <3>1. CASE i = 0
      BY <2>2, <3>1, Zenon
    <3>2. CASE i = 1
      <4>1. i - 1 = 0 /\ i # 0
        BY <3>2
      <4> QED
        BY <2>2, <3>2, <4>1, Zenon
    <3>3. CASE i = 2
      <4>1. i - 1 = 1 /\ i # 0
        BY <3>3
      <4> QED
        BY <2>2, <3>3, <4>1, Zenon
    <3> QED
      BY <2>1, <3>1, <3>2, <3>3, Zenon
  <2> DEFINE g == [i \in 0 .. 2 |-> IF i = 0 THEN m ELSE [f[i - 1] EXCEPT ![to + i - 1] = f[i - 1][from + i - 1]]]
  <2>4. f = [i \in 0 .. 2 |-> f[i]]
    <3> DEFINE e(i) == IF i = 0 THEN m ELSE IF i = 1 THEN m1 ELSE m2
    <3>1. f = [i \in 0 .. 2 |-> e(i)]
      OBVIOUS
    <3> HIDE DEF e
    <3> QED
      BY <3>1
  <2> HIDE DEF f
  <2>5. [i \in 0 .. 2 |-> f[i]] = g
    BY <2>3, Zenon
  <2> QED
    BY <2>4, <2>5, Zenon
<1>3. copied = [i \in 0 .. 2 |->
                 IF i = 0 THEN m ELSE [copied[i - 1] EXCEPT ![to + i - 1] = copied[i - 1][from + i - 1]]]
  <2> HIDE DEF f
  <2> QED
    BY <1>2, Zenon
<1> HIDE DEF copied
<1>4. 0 \in 0 .. 2 /\ 1 \in 0 .. 2 /\ 2 \in 0 .. 2 /\ 1 # 0 /\ 2 # 0 /\ 1 - 1 = 0 /\ 2 - 1 = 1
  OBVIOUS
<1>5. copied[0] = m
  BY <1>3, <1>4, Zenon
<1>6. copied[1] = m1
  BY <1>3, <1>4, <1>5, Zenon
<1>7. copied[2] = m2
  <2> HIDE DEF m1
  <2> QED
    BY <1>3, <1>4, <1>6, Zenon DEF m2
<1>8. to + 1 - 1 = to /\ from + 1 - 1 = from /\ to + 2 - 1 = to + 1 /\ from + 2 - 1 = from + 1
  OBVIOUS
<1> QED
  BY <1>1, <1>7, <1>8, Zenon

-----------------------------------------------------------------------------
(* The memory after a pair was made *)

\* w is m with cells b written from a on.
Writes(w, n, m, a, b) ==
    /\ w \in Mem(n)
    /\ \A c \in 0 .. n - 1 : w[c] = IF c >= a /\ c < a + Len(b) THEN b[c - a + 1] ELSE m[c]

LEMMA WriteIs ==
    \A n \in Nat : \A m \in Mem(n) : \A a \in Nat : \A b \in Seq(Strs) :
        a + Len(b) <= n => Writes(Sig!Write(m, a, b), n, m, a, b)
<1> SUFFICES ASSUME NEW n \in Nat, NEW m \in Mem(n), NEW a \in Nat, NEW b \in Seq(Strs),
                    a + Len(b) <= n
             PROVE  Writes(Sig!Write(m, a, b), n, m, a, b)
  BY Zenon
<1> DEFINE V == Strs
<1>0. m \in [0 .. n - 1 -> V] /\ b \in Seq(V)
  BY Zenon DEF Mem
<1> HIDE DEF V
<1> DEFINE w == [c \in 0 .. n - 1 |-> IF c >= a /\ c < a + Len(b) THEN b[c - a + 1] ELSE m[c]]
<1>1. Sig!Write(m, a, b) = w
  <2>1. DOMAIN m = 0 .. n - 1
    BY <1>0
  <2> QED
    BY <2>1, Zenon DEF Sig!Write
<1>2. ASSUME NEW c \in 0 .. n - 1
      PROVE  (IF c >= a /\ c < a + Len(b) THEN b[c - a + 1] ELSE m[c]) \in V
  <2>1. CASE c >= a /\ c < a + Len(b)
    <3>1. c - a + 1 \in 1 .. Len(b)
      BY <2>1
    <3> QED
      BY <1>0, <2>1, <3>1
  <2> QED
    BY <1>0, <2>1
<1>3. w \in [0 .. n - 1 -> V]
  BY <1>2
<1>4. \A c \in 0 .. n - 1 : w[c] = IF c >= a /\ c < a + Len(b) THEN b[c - a + 1] ELSE m[c]
  BY <1>2
<1> HIDE DEF w
<1> QED
  BY <1>1, <1>3, <1>4, Zenon DEF Writes, Mem, V

LEMMA TwoWritten ==
    \A n \in Nat : \A m \in Mem(n) : \A a \in 0 .. n - 2 : \A b \in TwoCells :
        Writes(Sig!Write(m, a, b), n, m, a, b)
<1> SUFFICES ASSUME NEW n \in Nat, NEW m \in Mem(n), NEW a \in 0 .. n - 2, NEW b \in TwoCells
             PROVE  Writes(Sig!Write(m, a, b), n, m, a, b)
  BY Zenon
<1>1. a \in Nat /\ a + 2 <= n
  OBVIOUS
<1>2. b \in Seq(Strs) /\ Len(b) = 2
  BY Zenon DEF TwoCells
<1> QED
  BY <1>1, <1>2, WriteIs, Zenon

LEMMA TwoCellsAre ==
    \A x, y \in Strs : <<x, y>> \in TwoCells /\ <<x, y>>[1] = x /\ <<x, y>>[2] = y
  BY TwoElements DEF TwoCells

LEMMA CellsOfTwo ==
    \A t \in TwoCells : t[1] \in Strs /\ t[2] \in Strs
<1> SUFFICES ASSUME NEW t \in TwoCells
             PROVE  t[1] \in Strs /\ t[2] \in Strs
  BY Zenon
<1> DEFINE V == Strs
<1>1. t \in Seq(V) /\ Len(t) = 2
  BY Zenon DEF TwoCells
<1> HIDE DEF V
<1>2. t[1] \in V /\ t[2] \in V
  BY <1>1
<1> QED
  BY <1>2, Zenon DEF V

\* Where cells of two stand.
LEMMA OneOfTwo ==
    ASSUME NEW a \in Int, NEW c \in Int
    PROVE  /\ c >= a /\ c < a + 2 <=> c = a \/ c = a + 1
           /\ c = a => c - a + 1 = 1
           /\ c = a + 1 => c - a + 1 = 2 /\ c # a
  OBVIOUS

\* The same, cell by cell.
Cell(w, c, m, a, b) ==
    /\ c = a => w[c] = b[1]
    /\ c = a + 1 => w[c] = b[2]
    /\ c # a /\ c # a + 1 => w[c] = m[c]

LEMMA WritesCells ==
    \A n \in Nat : \A a \in Int : \A b \in TwoCells : \A m, w :
        Writes(w, n, m, a, b) => \A c \in 0 .. n - 1 : Cell(w, c, m, a, b)
<1> SUFFICES ASSUME NEW n \in Nat, NEW a \in Int, NEW b \in TwoCells, NEW m, NEW w, NEW c \in 0 .. n - 1,
                    Writes(w, n, m, a, b)
             PROVE  Cell(w, c, m, a, b)
  BY Zenon
<1>1. c \in Int
  OBVIOUS
<1>2. w[c] = IF c >= a /\ c < a + 2 THEN b[c - a + 1] ELSE m[c]
  BY Zenon DEF Writes, TwoCells
<1> QED
  BY <1>1, <1>2, OneOfTwo, Zenon DEF Cell

\* Two cells copied, cell by cell.
LEMMA CopiesCells ==
    ASSUME NEW n \in Nat, NEW m \in Mem(n), NEW to \in 0 .. n - 2, NEW from \in 0 .. n - 2,
           from # to - 1
    PROVE  /\ Sig!Copy(m, to, from, 2) \in Mem(n)
           /\ \A c \in 0 .. n - 1 :
                /\ c = to => Sig!Copy(m, to, from, 2)[c] = m[from]
                /\ c = to + 1 => Sig!Copy(m, to, from, 2)[c] = m[from + 1]
                /\ c # to /\ c # to + 1 => Sig!Copy(m, to, from, 2)[c] = m[c]
<1> DEFINE m1 == [m EXCEPT ![to] = m[from]]
           m2 == [m1 EXCEPT ![to + 1] = m1[from + 1]]
<1>1. m \in [0 .. n - 1 -> Strs]
  BY Zenon DEF Mem
<1>2. Sig!Copy(m, to, from, 2) = m2
  BY TwoCopied
<1>3. /\ to \in 0 .. n - 1 /\ to + 1 \in 0 .. n - 1 /\ from \in 0 .. n - 1 /\ from + 1 \in 0 .. n - 1
      /\ from + 1 # to /\ to # to + 1
  OBVIOUS
<1>4. /\ m1 \in [0 .. n - 1 -> Strs]
      /\ \A c \in 0 .. n - 1 : m1[c] = IF c = to THEN m[from] ELSE m[c]
  BY <1>1, <1>3
<1> HIDE DEF m1
<1>5. m1[from + 1] = m[from + 1]
  BY <1>3, <1>4, Zenon
<1>6. /\ m2 \in [0 .. n - 1 -> Strs]
      /\ \A c \in 0 .. n - 1 : m2[c] = IF c = to + 1 THEN m1[from + 1] ELSE m1[c]
  BY <1>3, <1>4
<1> HIDE DEF m2
<1>7. ASSUME NEW c \in 0 .. n - 1
      PROVE  /\ c = to => m2[c] = m[from]
             /\ c = to + 1 => m2[c] = m[from + 1]
             /\ c # to /\ c # to + 1 => m2[c] = m[c]
  BY <1>3, <1>4, <1>5, <1>6, Zenon
<1> QED
  BY <1>2, <1>6, <1>7, Zenon DEF Mem

\* What is where after a pair was made: the public key last, the secret key
\* with the seed in front, zeros where the seed was.
Made(w, n, b, k, p, e, s, t, z) ==
    /\ w \in Mem(n)
    /\ \A c \in 0 .. n - 1 :
        /\ c = p => w[c] = t[1]
        /\ c = p + 1 => w[c] = t[2]
        /\ c # p /\ c # p + 1 =>
            /\ c = k => w[c] = s[1]
            /\ c = k + 1 => w[c] = s[2]
            /\ c = k + 2 => w[c] = t[1]
            /\ c = k + 3 => w[c] = t[2]
            /\ c # k /\ c # k + 1 /\ c # k + 2 /\ c # k + 3 =>
                /\ c = e \/ c = e + 1 => w[c] = z
                /\ c # e /\ c # e + 1 => w[c] = b[c]

\* The seed is wiped, and two cells are written at each of two places.
Wiped(b, e, z, x, s, y, t) == Sig!Write(Sig!Write(Sig!Write(b, e, <<z, z>>), x, s), y, t)

WipedTo(w, n, b, e, z, x, s, y, t) ==
    /\ w \in Mem(n)
    /\ \A c \in 0 .. n - 1 :
        /\ c = y => w[c] = t[1]
        /\ c = y + 1 => w[c] = t[2]
        /\ c # y /\ c # y + 1 =>
            /\ c = x => w[c] = s[1]
            /\ c = x + 1 => w[c] = s[2]
            /\ c # x /\ c # x + 1 =>
                /\ c = e \/ c = e + 1 => w[c] = z
                /\ c # e /\ c # e + 1 => w[c] = b[c]

LEMMA WipedIs ==
    \A n \in Nat : \A b \in Mem(n) : \A z \in Strs : \A s, t \in TwoCells : \A e, x, y \in 0 .. n - 2 :
        WipedTo(Wiped(b, e, z, x, s, y, t), n, b, e, z, x, s, y, t)
<1> SUFFICES ASSUME NEW n \in Nat, NEW b \in Mem(n), NEW z \in Strs,
                    NEW s \in TwoCells, NEW t \in TwoCells,
                    NEW e \in 0 .. n - 2, NEW x \in 0 .. n - 2, NEW y \in 0 .. n - 2
             PROVE  WipedTo(Wiped(b, e, z, x, s, y, t), n, b, e, z, x, s, y, t)
  BY Zenon
<1> DEFINE zz == <<z, z>>
           w1 == Sig!Write(b, e, zz)
           w2 == Sig!Write(w1, x, s)
           w3 == Sig!Write(w2, y, t)
<1>1. zz \in TwoCells /\ zz[1] = z /\ zz[2] = z
  BY TwoCellsAre, Zenon
<1> HIDE DEF zz
<1>2. Writes(w1, n, b, e, zz) /\ w1 \in Mem(n)
  BY <1>1, TwoWritten, Zenon DEF Writes
<1> HIDE DEF w1
<1>3. Writes(w2, n, w1, x, s) /\ w2 \in Mem(n)
  BY <1>2, TwoWritten, Zenon DEF Writes
<1> HIDE DEF w2
<1>4. Writes(w3, n, w2, y, t) /\ w3 \in Mem(n)
  BY <1>3, TwoWritten, Zenon DEF Writes
<1> HIDE DEF w3
<1>5. Wiped(b, e, z, x, s, y, t) = w3
  BY Zenon DEF Wiped, w3, w2, w1, zz
<1>6. ASSUME NEW c \in 0 .. n - 1
      PROVE  /\ c = y => w3[c] = t[1]
             /\ c = y + 1 => w3[c] = t[2]
             /\ c # y /\ c # y + 1 =>
                /\ c = x => w3[c] = s[1]
                /\ c = x + 1 => w3[c] = s[2]
                /\ c # x /\ c # x + 1 =>
                    /\ c = e \/ c = e + 1 => w3[c] = z
                    /\ c # e /\ c # e + 1 => w3[c] = b[c]
  <2>0. e \in Int /\ x \in Int /\ y \in Int
    OBVIOUS
  <2>1. Cell(w1, c, b, e, zz) /\ Cell(w2, c, w1, x, s) /\ Cell(w3, c, w2, y, t)
    BY <1>1, <1>2, <1>3, <1>4, <2>0, WritesCells, Zenon
  <2>2. (c = e \/ c = e + 1 => w1[c] = z) /\ (c # e /\ c # e + 1 => w1[c] = b[c])
    BY <1>1, <2>1, Zenon DEF Cell
  <2>3. /\ c = x => w2[c] = s[1]
        /\ c = x + 1 => w2[c] = s[2]
        /\ c # x /\ c # x + 1 => w2[c] = w1[c]
    BY <2>1, Zenon DEF Cell
  <2>4. /\ c = y => w3[c] = t[1]
        /\ c = y + 1 => w3[c] = t[2]
        /\ c # y /\ c # y + 1 => w3[c] = w2[c]
    BY <2>1, Zenon DEF Cell
  <2> QED
    BY <2>2, <2>3, <2>4, Zenon
<1> QED
  BY <1>4, <1>5, <1>6, Zenon DEF WipedTo

\* crypto_eddsa_key_pair, if the copy does not start behind what it copies.
LEMMA EddsaMakes ==
    ASSUME NEW n \in Nat, NEW b \in Mem(n), NEW z \in Strs, NEW s \in TwoCells, NEW t \in TwoCells,
           NEW e \in 0 .. n - 2, NEW k \in 0 .. n - 4, NEW p \in 0 .. n - 2, p # k + 3
    PROVE  Made(Sig!Copy(Wiped(b, e, z, k, s, k + 2, t), p, k + 2, 2), n, b, k, p, e, s, t, z)
<1> DEFINE y == k + 2
           w == Wiped(b, e, z, k, s, y, t)
           m == Sig!Copy(w, p, y, 2)
<1>1. /\ y \in 0 .. n - 2 /\ k \in 0 .. n - 2 /\ y # p - 1 /\ y = k + 2 /\ y + 1 = k + 3
      /\ y \in 0 .. n - 1 /\ k + 3 \in 0 .. n - 1 /\ k + 3 # k + 2
      /\ k # k + 2 /\ k # k + 3 /\ k + 1 # k + 2 /\ k + 1 # k + 3
  OBVIOUS
<1> HIDE DEF y
<1>2. /\ w \in Mem(n)
      /\ \A c \in 0 .. n - 1 :
            /\ c = y => w[c] = t[1]
            /\ c = y + 1 => w[c] = t[2]
            /\ c # y /\ c # y + 1 =>
                /\ c = k => w[c] = s[1]
                /\ c = k + 1 => w[c] = s[2]
                /\ c # k /\ c # k + 1 =>
                    /\ c = e \/ c = e + 1 => w[c] = z
                    /\ c # e /\ c # e + 1 => w[c] = b[c]
  <2>1. WipedTo(w, n, b, e, z, k, s, y, t)
    BY <1>1, WipedIs, Zenon
  <2> HIDE DEF w
  <2> QED
    BY <2>1, Zenon DEF WipedTo
<1> HIDE DEF w
<1>3. /\ m \in Mem(n)
      /\ \A c \in 0 .. n - 1 :
            /\ c = p => m[c] = w[y]
            /\ c = p + 1 => m[c] = w[y + 1]
            /\ c # p /\ c # p + 1 => m[c] = w[c]
  BY <1>1, <1>2, CopiesCells
<1> HIDE DEF m
<1>4. w[y] = t[1] /\ w[y + 1] = t[2]
  BY <1>1, <1>2, Zenon
<1>5. Made(m, n, b, k, p, e, s, t, z)
  BY <1>1, <1>2, <1>3, <1>4, Zenon DEF Made
<1> QED
  BY <1>5, Zenon DEF m, w, y

\* crypto_ed25519_key_pair, if the keys are apart.
LEMMA Ed25519Makes ==
    ASSUME NEW n \in Nat, NEW b \in Mem(n), NEW z \in Strs, NEW s \in TwoCells, NEW t \in TwoCells,
           NEW e \in 0 .. n - 2, NEW k \in 0 .. n - 4, NEW p \in 0 .. n - 2,
           k + 4 <= p \/ p + 2 <= k
    PROVE  Made(Sig!Copy(Wiped(b, e, z, k, s, p, t), k + 2, p, 2), n, b, k, p, e, s, t, z)
<1> DEFINE y == k + 2
           w == Wiped(b, e, z, k, s, p, t)
           m == Sig!Copy(w, y, p, 2)
<1>1. /\ y \in 0 .. n - 2 /\ k \in 0 .. n - 2 /\ p # y - 1 /\ y = k + 2 /\ y + 1 = k + 3
      /\ p \in 0 .. n - 1 /\ p + 1 \in 0 .. n - 1 /\ k + 3 # k + 2 /\ p # p + 1
      /\ p # k + 2 /\ p + 1 # k + 2 /\ p # k + 3 /\ p + 1 # k + 3
      /\ p # k /\ p # k + 1 /\ p + 1 # k /\ p + 1 # k + 1
      /\ k # k + 2 /\ k # k + 3 /\ k + 1 # k + 2 /\ k + 1 # k + 3
  OBVIOUS
<1> HIDE DEF y
<1>2. /\ w \in Mem(n)
      /\ \A c \in 0 .. n - 1 :
            /\ c = p => w[c] = t[1]
            /\ c = p + 1 => w[c] = t[2]
            /\ c # p /\ c # p + 1 =>
                /\ c = k => w[c] = s[1]
                /\ c = k + 1 => w[c] = s[2]
                /\ c # k /\ c # k + 1 =>
                    /\ c = e \/ c = e + 1 => w[c] = z
                    /\ c # e /\ c # e + 1 => w[c] = b[c]
  <2>1. WipedTo(w, n, b, e, z, k, s, p, t)
    BY <1>1, WipedIs, Zenon
  <2> HIDE DEF w
  <2> QED
    BY <2>1, Zenon DEF WipedTo
<1> HIDE DEF w
<1>3. /\ m \in Mem(n)
      /\ \A c \in 0 .. n - 1 :
            /\ c = y => m[c] = w[p]
            /\ c = y + 1 => m[c] = w[p + 1]
            /\ c # y /\ c # y + 1 => m[c] = w[c]
  BY <1>1, <1>2, CopiesCells
<1> HIDE DEF m
<1>4. w[p] = t[1] /\ w[p + 1] = t[2]
  BY <1>1, <1>2, Zenon
<1>5. Made(m, n, b, k, p, e, s, t, z)
  BY <1>1, <1>2, <1>3, <1>4, Zenon DEF Made
<1> QED
  BY <1>5, Zenon DEF m, w, y

-----------------------------------------------------------------------------
(* Terms that are one only if they were made of the same *)

Schemes == {"blake2b", "ed25519", "ed25519ph"}

LEMMA CallersAre ==
    \A c \in Callers :
        /\ c.schemes \subseteq Schemes /\ c.seeds \subseteq Letters /\ c.messages \subseteq Letters
        /\ c.cells \in Nat
        /\ \A place \in c.keyPlaces :
            /\ place[1] \in 0 .. c.cells - 4 /\ place[2] \in 0 .. c.cells - 2
            /\ place[3] \in 0 .. c.cells - 2
        /\ \A place \in c.signPlaces :
            /\ place[1] \in 0 .. c.cells - 4 /\ place[2] \in 0 .. c.cells - 4
            /\ place[3] \in 0 .. c.cells - 1
<1> SUFFICES ASSUME NEW c \in Callers
             PROVE  /\ c.schemes \subseteq Schemes /\ c.seeds \subseteq Letters /\ c.messages \subseteq Letters
                    /\ c.cells \in Nat
                    /\ \A place \in c.keyPlaces :
                        /\ place[1] \in 0 .. c.cells - 4 /\ place[2] \in 0 .. c.cells - 2
                        /\ place[3] \in 0 .. c.cells - 2
                    /\ \A place \in c.signPlaces :
                        /\ place[1] \in 0 .. c.cells - 4 /\ place[2] \in 0 .. c.cells - 4
                        /\ place[3] \in 0 .. c.cells - 1
  BY Zenon
<1>1. /\ c.cells \in Nat /\ c.schemes \subseteq Schemes
      /\ c.keyPlaces \subseteq (0 .. c.cells - 4) \X (0 .. c.cells - 2) \X (0 .. c.cells - 2)
      /\ c.signPlaces \subseteq (0 .. c.cells - 4) \X (0 .. c.cells - 4) \X (0 .. c.cells - 1)
  BY SigOk, Zenon DEF Sig!EddsaAssumption, Schemes
<1>2. c.seeds \subseteq Letters /\ c.messages \subseteq Letters
  <2>1. \A x : x \in c.seeds \cup c.messages => x \in UNION {d.seeds \cup d.messages : d \in Callers}
    OBVIOUS
  <2> QED
    BY <2>1, Zenon DEF Letters
<1>3. \A place \in c.keyPlaces :
        /\ place[1] \in 0 .. c.cells - 4 /\ place[2] \in 0 .. c.cells - 2
        /\ place[3] \in 0 .. c.cells - 2
  BY <1>1
<1>4. \A place \in c.signPlaces :
        /\ place[1] \in 0 .. c.cells - 4 /\ place[2] \in 0 .. c.cells - 4
        /\ place[3] \in 0 .. c.cells - 1
  BY <1>1
<1> QED
  BY <1>1, <1>2, <1>3, <1>4, Zenon

LEMMA NothingIs == <<>> \in Strs /\ Len(<<>>) = 0
  BY DEF Strs

LEMMA OneLetter ==
    \A e \in Letters : <<e>> \in Strs /\ Len(<<e>>) = 1 /\ <<e>>[1] = e
  BY OneElement DEF Strs

LEMMA StrsJoin ==
    \A x, y \in Strs :
        /\ x \o y \in Strs /\ Len(x \o y) = Len(x) + Len(y)
        /\ Len(x) # 0 => (x \o y)[1] = x[1]
        /\ Len(x) = 0 => (x \o y)[1] = y[1] \/ Len(y) = 0
<1> SUFFICES ASSUME NEW x \in Strs, NEW y \in Strs
             PROVE  /\ x \o y \in Strs /\ Len(x \o y) = Len(x) + Len(y)
                    /\ Len(x) # 0 => (x \o y)[1] = x[1]
                    /\ Len(x) = 0 => (x \o y)[1] = y[1] \/ Len(y) = 0
  BY Zenon
<1> DEFINE h == x \o y
<1>1. Joins(h, x, y)
  BY Zenon DEF Joins
<1> HIDE DEF h
<1>2. x \in Seq(Letters) /\ y \in Seq(Letters)
  BY Zenon DEF Strs
<1>3. /\ h \in Seq(Letters) /\ Len(h) = Len(x) + Len(y)
      /\ \A i \in 1 .. Len(x) + Len(y) : h[i] = IF i <= Len(x) THEN x[i] ELSE y[i - Len(x)]
  BY <1>1, <1>2, JoinedIs
<1>4. Len(x) \in Nat /\ Len(y) \in Nat
  BY <1>2
<1>5. (Len(x) # 0 => h[1] = x[1]) /\ (Len(x) = 0 => h[1] = y[1] \/ Len(y) = 0)
  BY <1>3, <1>4
<1> QED
  BY <1>3, <1>5, Zenon DEF h, Strs

\* SameParts, of letters.
LEMMA SameJoined ==
    \A h : \A x, y, p, q \in Strs :
        Joins(h, x, p) /\ Joins(h, y, q) /\ (Len(x) = Len(y) \/ Len(p) = Len(q)) => x = y /\ p = q
  BY SameParts DEF Strs

LEMMA SameStrs ==
    \A x, y, p, q \in Strs :
        x \o p = y \o q /\ (Len(x) = Len(y) \/ Len(p) = Len(q)) => x = y /\ p = q
<1> SUFFICES ASSUME NEW x \in Strs, NEW y \in Strs, NEW p \in Strs, NEW q \in Strs,
                    x \o p = y \o q, Len(x) = Len(y) \/ Len(p) = Len(q)
             PROVE  x = y /\ p = q
  BY Zenon
<1> DEFINE h == x \o p
<1>1. Joins(h, x, p) /\ Joins(h, y, q)
  BY Zenon DEF Joins
<1> HIDE DEF h
<1> QED
  BY <1>1, SameParts DEF Strs

LEMMA SchemesAre ==
    \A s \in Schemes :
        /\ Sig!Hash(s) \in Letters /\ Sig!Domain(s) \in Strs
        /\ s = "blake2b" => Sig!Hash(s) = "blake2b"
        /\ s # "blake2b" => Sig!Hash(s) = "sha512"
        /\ s = "ed25519ph" => Sig!Domain(s) = <<"SigEd25519">> /\ Len(Sig!Domain(s)) = 1
                              /\ Sig!Domain(s)[1] = "SigEd25519"
        /\ s # "ed25519ph" => Sig!Domain(s) = <<>> /\ Len(Sig!Domain(s)) = 0
  BY LettersAre, OneLetter, NothingIs, Zenon DEF Sig!Hash, Sig!Domain, Schemes

LEMMA ScalarsAre ==
    \A s, t \in Schemes : \A x, y \in Strs :
        /\ Sig!Scalar(s, x) \in Strs /\ Sig!Prefix(s, x) \in Strs
        /\ Len(Sig!Prefix(s, x)) = Len(x) + 3 /\ Sig!Prefix(s, x)[1] = "prefix"
        /\ Sig!Prefix(s, x) = Sig!Prefix(t, y) => x = y
<1> SUFFICES ASSUME NEW s \in Schemes, NEW t \in Schemes, NEW x \in Strs, NEW y \in Strs
             PROVE  /\ Sig!Scalar(s, x) \in Strs /\ Sig!Prefix(s, x) \in Strs
                    /\ Len(Sig!Prefix(s, x)) = Len(x) + 3 /\ Sig!Prefix(s, x)[1] = "prefix"
                    /\ Sig!Prefix(s, x) = Sig!Prefix(t, y) => x = y
  BY Zenon
<1> DEFINE hs == <<Sig!Hash(s)>>
           ht == <<Sig!Hash(t)>>
           bs == hs \o x
           bt == ht \o y
<1>1. hs \in Strs /\ ht \in Strs /\ Len(hs) = 1 /\ Len(ht) = 1
  BY SchemesAre, OneLetter, Zenon
<1> HIDE DEF hs, ht
<1>2. bs \in Strs /\ bt \in Strs /\ Len(bs) = 1 + Len(x)
  <2>1. bs \in Strs /\ bt \in Strs /\ Len(bs) = Len(hs) + Len(x)
    BY <1>1, StrsJoin, Zenon
  <2> QED
    BY <1>1, <2>1, Zenon
<1>3. bs = bt => x = y
  BY <1>1, SameStrs, Zenon
<1> HIDE DEF bs, bt
<1>4. /\ Sig!Scalar(s, x) = Sig!Term("scalar", bs)
      /\ Sig!Prefix(s, x) = Sig!Term("prefix", bs) /\ Sig!Prefix(t, y) = Sig!Term("prefix", bt)
  BY Zenon DEF Sig!Scalar, Sig!Prefix, bs, bt, hs, ht
<1>5. "scalar" \in Letters /\ "prefix" \in Letters
  BY LettersAre, Zenon
<1>6. Len(x) \in Nat
  BY DEF Strs
<1>7. /\ Sig!Term("scalar", bs) \in Strs /\ Sig!Term("prefix", bs) \in Strs
      /\ Len(Sig!Term("prefix", bs)) = Len(bs) + 2 /\ Sig!Term("prefix", bs)[1] = "prefix"
  BY <1>2, <1>5, TermIs, Zenon
<1>8. Len(bs) + 2 = Len(x) + 3
  BY <1>2, <1>6
<1>9. Sig!Term("prefix", bs) = Sig!Term("prefix", bt) => bs = bt
  BY <1>2, <1>5, SameTerm, Zenon
<1> QED
  BY <1>3, <1>4, <1>7, <1>8, <1>9, Zenon

LEMMA HalvesAreOne ==
    \A b, c \in Strs :
        /\ Sig!Bytes32(b) \in TwoCells
        /\ Sig!Bytes32(b) = Sig!Bytes32(c) => b = c
<1> SUFFICES ASSUME NEW b \in Strs, NEW c \in Strs
             PROVE  /\ Sig!Bytes32(b) \in TwoCells
                    /\ Sig!Bytes32(b) = Sig!Bytes32(c) => b = c
  BY Zenon
<1>1. /\ Sig!Half(b, 0) \in Strs /\ Sig!Half(b, 1) \in Strs
      /\ Sig!Bytes32(b) = <<Sig!Half(b, 0), Sig!Half(b, 1)>>
      /\ Sig!Bytes32(b)[1] = Sig!Half(b, 0) /\ Sig!Bytes32(c)[1] = Sig!Half(c, 0)
      /\ Sig!Half(b, 0) = Sig!Half(c, 0) => b = c
  BY HalvesAre, Zenon
<1>2. Sig!Bytes32(b) \in TwoCells
  BY <1>1, TwoCellsAre, Zenon
<1> QED
  BY <1>1, <1>2, Zenon

LEMMA SeedIs ==
    \A x \in Letters :
        /\ <<x>> \in Strs /\ Sig!Bytes32(<<x>>) \in TwoCells
        /\ Len(Sig!Bytes32(<<x>>)[1]) = 2 /\ Len(Sig!Bytes32(<<x>>)[2]) = 2
        /\ Sig!Joined(Sig!Bytes32(<<x>>)) \in Strs /\ Len(Sig!Joined(Sig!Bytes32(<<x>>))) = 4
<1> SUFFICES ASSUME NEW x \in Letters
             PROVE  /\ <<x>> \in Strs /\ Sig!Bytes32(<<x>>) \in TwoCells
                    /\ Len(Sig!Bytes32(<<x>>)[1]) = 2 /\ Len(Sig!Bytes32(<<x>>)[2]) = 2
                    /\ Sig!Joined(Sig!Bytes32(<<x>>)) \in Strs
                    /\ Len(Sig!Joined(Sig!Bytes32(<<x>>))) = 4
  BY Zenon
<1> DEFINE b == <<x>>
           c == Sig!Bytes32(b)
<1>1. b \in Strs /\ Len(b) = 1
  BY OneLetter, Zenon
<1> HIDE DEF b
<1>2. c \in TwoCells
  BY <1>1, HalvesAreOne, Zenon
<1>3. c[1] = Sig!Half(b, 0) /\ c[2] = Sig!Half(b, 1) /\ Len(Sig!Half(b, 0)) = Len(b) + 1
      /\ Len(Sig!Half(b, 1)) = Len(b) + 1
  BY <1>1, HalvesAre, Zenon
<1> HIDE DEF c
<1>4. Len(c[1]) = 2 /\ Len(c[2]) = 2
  BY <1>1, <1>3
<1>5. Sig!Joined(c) \in Strs /\ Len(Sig!Joined(c)) = Len(c[1]) + Len(c[2])
  BY <1>2, TwoJoined
<1>6. Len(Sig!Joined(c)) = 4
  BY <1>4, <1>5
<1> QED
  BY <1>1, <1>2, <1>4, <1>5, <1>6, Zenon DEF c, b

LEMMA MultiplesAre ==
    \A a, b \in Strs :
        /\ Sig!Multiple(a) \in TwoCells
        /\ Len(Sig!Multiple(a)[1]) > 2 /\ Len(Sig!Multiple(a)[2]) > 2
        /\ Sig!Joined(Sig!Multiple(a)) \in Strs /\ Len(Sig!Joined(Sig!Multiple(a))) # 0
        /\ Sig!Joined(Sig!Multiple(a))[1] = "B"
        /\ Sig!Multiple(a) = Sig!Multiple(b) => a = b
<1> SUFFICES ASSUME NEW a \in Strs, NEW b \in Strs
             PROVE  /\ Sig!Multiple(a) \in TwoCells
                    /\ Len(Sig!Multiple(a)[1]) > 2 /\ Len(Sig!Multiple(a)[2]) > 2
                    /\ Sig!Joined(Sig!Multiple(a)) \in Strs /\ Len(Sig!Joined(Sig!Multiple(a))) # 0
                    /\ Sig!Joined(Sig!Multiple(a))[1] = "B"
                    /\ Sig!Multiple(a) = Sig!Multiple(b) => a = b
  BY Zenon
<1> DEFINE ta == Sig!Term("B", a)
           tb == Sig!Term("B", b)
           c == Sig!Bytes32(ta)
<1>1. "B" \in Letters
  BY LettersAre, Zenon
<1>2. ta \in Strs /\ tb \in Strs /\ Len(ta) = Len(a) + 2 /\ ta[1] = "B"
  BY <1>1, TermIs, Zenon
<1>3. ta = tb => a = b
  BY <1>1, SameTerm, Zenon
<1>4. Sig!Multiple(a) = c /\ Sig!Multiple(b) = Sig!Bytes32(tb)
  BY Zenon DEF Sig!Multiple
<1> HIDE DEF ta, tb
<1>5. c \in TwoCells /\ (c = Sig!Bytes32(tb) => ta = tb)
  BY <1>2, HalvesAreOne, Zenon
<1>6. /\ c[1] = Sig!Half(ta, 0) /\ c[2] = Sig!Half(ta, 1)
      /\ Len(Sig!Half(ta, 0)) = Len(ta) + 1 /\ Len(Sig!Half(ta, 1)) = Len(ta) + 1
      /\ Sig!Half(ta, 0) \in Strs /\ Sig!Half(ta, 1) \in Strs
  BY <1>2, HalvesAre, Zenon
<1> HIDE DEF c
<1>7. Len(a) \in Nat
  BY DEF Strs
<1>8. Len(c[1]) > 2 /\ Len(c[2]) > 2
  BY <1>2, <1>6, <1>7
<1>9. c[1][1] = "B"
  <2>1. Sig!Half(ta, 0) = Append(ta, "lo")
    BY Zenon DEF Sig!Half
  <2>2. ta \in Seq(Letters) /\ Len(ta) > 0
    BY <1>2, <1>7 DEF Strs
  <2>3. "lo" \in Letters
    BY LettersAre, Zenon
  <2>4. Append(ta, "lo")[1] = ta[1]
    BY <2>2, <2>3, AppendProperties
  <2> QED
    BY <1>2, <1>6, <2>1, <2>4, Zenon
<1>10. Sig!Joined(c) = c[1] \o c[2] /\ Sig!Joined(c) \in Strs
       /\ Len(Sig!Joined(c)) = Len(c[1]) + Len(c[2])
  BY <1>5, TwoJoined
<1>11. c[1] \in Strs /\ c[2] \in Strs /\ Len(c[1]) # 0
  BY <1>6, <1>8
<1>12. (c[1] \o c[2])[1] = c[1][1]
  BY <1>11, StrsJoin, Zenon
<1>13. Len(Sig!Joined(c)) # 0
  BY <1>6, <1>8, <1>10
<1>14. Sig!Joined(c)[1] = "B"
  BY <1>9, <1>10, <1>12, Zenon
<1>15. /\ c \in TwoCells /\ Len(c[1]) > 2 /\ Len(c[2]) > 2
       /\ Sig!Joined(c) \in Strs /\ Len(Sig!Joined(c)) # 0
  BY <1>5, <1>8, <1>10, <1>13, Zenon
<1>16. Sig!Multiple(a) = Sig!Multiple(b) => a = b
  BY <1>3, <1>4, <1>5, Zenon
<1> QED
  BY <1>4, <1>14, <1>15, <1>16, Zenon

\* A hash of a domain, of bytes that start with no domain's, and of a message
\* behind them names its scheme and its message.
Alike(p, q) == Len(p) # 0 /\ Len(p) = Len(q) /\ p[1] = q[1] /\ p[1] # "SigEd25519"
HashIsOf(h, s, p, m) == h = Sig!Term(Sig!Hash(s), (Sig!Domain(s) \o p) \o m)

LEMMA SameHashed ==
    \A s, t \in Schemes : \A p, q, m, o \in Strs : \A h :
        Alike(p, q) /\ HashIsOf(h, s, p, m) /\ HashIsOf(h, t, q, o)
        => s = t /\ p = q /\ m = o
<1> SUFFICES ASSUME NEW s \in Schemes, NEW t \in Schemes, NEW p \in Strs, NEW q \in Strs,
                    NEW m \in Strs, NEW o \in Strs, NEW h,
                    Alike(p, q), HashIsOf(h, s, p, m), HashIsOf(h, t, q, o)
             PROVE  s = t /\ p = q /\ m = o
  BY Zenon
<1>0. Len(p) # 0 /\ Len(q) # 0 /\ Len(p) = Len(q) /\ p[1] = q[1] /\ p[1] # "SigEd25519"
  BY Zenon DEF Alike
<1> DEFINE ds == Sig!Domain(s)
           dt == Sig!Domain(t)
           a == ds \o p
           b == dt \o q
           c == a \o m
           d == b \o o
<1>1. ds \in Strs /\ dt \in Strs /\ Sig!Hash(s) \in Letters /\ Sig!Hash(t) \in Letters
  BY SchemesAre, Zenon
<1>2. /\ s = "ed25519ph" => Len(ds) = 1 /\ ds[1] = "SigEd25519"
      /\ t = "ed25519ph" => Len(dt) = 1 /\ dt[1] = "SigEd25519"
      /\ s # "ed25519ph" => Len(ds) = 0 /\ ds = <<>>
      /\ t # "ed25519ph" => Len(dt) = 0 /\ dt = <<>>
  BY SchemesAre, Zenon
<1> HIDE DEF ds, dt
<1>3. /\ a \in Strs /\ b \in Strs
      /\ Len(ds) # 0 => a[1] = ds[1]
      /\ Len(dt) # 0 => b[1] = dt[1]
      /\ Len(ds) = 0 => a[1] = p[1]
      /\ Len(dt) = 0 => b[1] = q[1]
  BY <1>0, <1>1, StrsJoin, Zenon
<1>4. Len(a) = Len(ds) + Len(p) /\ Len(b) = Len(dt) + Len(q)
  BY <1>1, StrsJoin, Zenon
<1>5. Len(ds) \in Nat /\ Len(dt) \in Nat /\ Len(p) \in Nat /\ Len(q) \in Nat
  BY <1>1 DEF Strs
<1>6. Joins(a, ds, p) /\ Joins(b, dt, q) /\ Joins(c, a, m) /\ Joins(d, b, o)
  BY Zenon DEF Joins
<1> HIDE DEF a, b
<1>7. Len(a) # 0 /\ Len(b) # 0
  BY <1>0, <1>4, <1>5
<1>8. /\ c \in Strs /\ d \in Strs /\ c[1] = a[1] /\ d[1] = b[1]
  BY <1>3, <1>7, StrsJoin, Zenon
<1> HIDE DEF c, d
<1>10. h = Sig!Term(Sig!Hash(s), c) /\ h = Sig!Term(Sig!Hash(t), d)
  <2>1. c = (Sig!Domain(s) \o p) \o m /\ d = (Sig!Domain(t) \o q) \o o
    BY Zenon DEF c, d, a, b, ds, dt
  <2> QED
    BY <2>1, Zenon DEF HashIsOf
<1>11. Sig!Hash(s) = Sig!Hash(t) /\ c = d
  <2>1. Sig!Term(Sig!Hash(s), c) = Sig!Term(Sig!Hash(t), d)
    BY <1>10, Zenon
  <2>2. c \in Strs /\ d \in Strs
    BY <1>8
  <2>3. Sig!Term(Sig!Hash(s), c) = Sig!Term(Sig!Hash(t), d) => Sig!Hash(s) = Sig!Hash(t) /\ c = d
    BY <1>1, <2>2, SameTerm
  <2> QED
    BY <2>1, <2>3, Zenon
<1>12. a[1] = b[1]
  BY <1>8, <1>11, Zenon
<1>13. (s = "ed25519ph") = (t = "ed25519ph")
  <2>1. 1 # 0
    OBVIOUS
  <2>2. CASE s = "ed25519ph" /\ t # "ed25519ph"
    <3>1. a[1] = "SigEd25519" /\ b[1] = q[1]
      BY <1>2, <1>3, <2>1, <2>2, Zenon
    <3> QED
      BY <1>0, <1>12, <3>1, Zenon
  <2>3. CASE s # "ed25519ph" /\ t = "ed25519ph"
    <3>1. b[1] = "SigEd25519" /\ a[1] = p[1]
      BY <1>2, <1>3, <2>1, <2>3, Zenon
    <3> QED
      BY <1>0, <1>12, <3>1, Zenon
  <2> QED
    BY <2>2, <2>3, Zenon
<1>14. Len(ds) = Len(dt) /\ Len(a) = Len(b)
  <2>1. Len(ds) = Len(dt)
    BY <1>2, <1>13, Zenon
  <2> QED
    BY <1>0, <1>4, <2>1, Zenon
<1>15. a = b /\ m = o
  BY <1>3, <1>6, <1>11, <1>14, SameJoined, Zenon
<1>16. p = q
  BY <1>0, <1>1, <1>6, <1>15, SameJoined, Zenon
<1>17. s = t
  <2>1. Sig!Hash(s) = "blake2b" => s = "blake2b"
    <3>1. "sha512" # "blake2b"
      OBVIOUS
    <3> QED
      BY <3>1, SchemesAre, Zenon
  <2>2. Sig!Hash(t) = "blake2b" => t = "blake2b"
    <3>1. "sha512" # "blake2b"
      OBVIOUS
    <3> QED
      BY <3>1, SchemesAre, Zenon
  <2>3. (s = "blake2b") = (t = "blake2b")
    BY <1>11, <2>1, <2>2, SchemesAre, Zenon
  <2> QED
    BY <1>13, <2>3, Zenon DEF Schemes
<1> QED
  BY <1>15, <1>16, <1>17, Zenon

\* What a nonce was taken for.
LEMMA SameNonce ==
    ASSUME NEW s \in Schemes, NEW t \in Schemes, NEW x \in Strs, NEW y \in Strs,
           NEW m \in Strs, NEW o \in Strs, Len(x) = Len(y),
           Sig!Nonce(s, Sig!Prefix(s, x), m) = Sig!Nonce(t, Sig!Prefix(t, y), o)
    PROVE  s = t /\ x = y /\ m = o
<1> DEFINE p == Sig!Prefix(s, x)
           q == Sig!Prefix(t, y)
<1>1. /\ p \in Strs /\ q \in Strs /\ Len(p) = Len(x) + 3 /\ Len(q) = Len(y) + 3
      /\ p[1] = "prefix" /\ q[1] = "prefix" /\ (p = q => x = y)
  BY ScalarsAre, Zenon
<1>2. Sig!Nonce(s, p, m) = Sig!Nonce(t, q, o)
  OBVIOUS
<1> HIDE DEF p, q
<1>3. Alike(p, q)
  <2>1. Len(x) \in Nat /\ Len(y) \in Nat
    BY DEF Strs
  <2>2. Len(p) # 0
    BY <1>1, <2>1
  <2>3. Len(p) = Len(q)
    BY <1>1, Zenon
  <2>4. "prefix" # "SigEd25519"
    OBVIOUS
  <2> QED
    BY <1>1, <2>2, <2>3, <2>4, Zenon DEF Alike
<1> DEFINE h == Sig!Nonce(s, p, m)
<1>4. HashIsOf(h, s, p, m) /\ HashIsOf(h, t, q, o)
  BY <1>2, Zenon DEF Sig!Nonce, HashIsOf
<1> HIDE DEF h
<1>5. s = t /\ p = q /\ m = o
  BY <1>1, <1>3, <1>4, SameHashed, Zenon
<1> QED
  BY <1>1, <1>5, Zenon

LEMMA NonceIs ==
    \A s \in Schemes : \A x, m \in Strs : Sig!Nonce(s, Sig!Prefix(s, x), m) \in Strs
  BY SchemesAre, ScalarsAre, StrsJoin, TermIs, Zenon DEF Sig!Nonce

\* What a signature's hash was taken of.
LEMMA SameHashRam ==
    \A s, t \in Schemes : \A a, b, m, o \in Strs :
        Sig!HashRam(s, Sig!Multiple(a), Sig!Multiple(b), m)
            = Sig!HashRam(t, Sig!Multiple(a), Sig!Multiple(b), o)
        => s = t /\ m = o
<1> SUFFICES ASSUME NEW s \in Schemes, NEW t \in Schemes, NEW a \in Strs, NEW b \in Strs,
                    NEW m \in Strs, NEW o \in Strs,
                    Sig!HashRam(s, Sig!Multiple(a), Sig!Multiple(b), m)
                        = Sig!HashRam(t, Sig!Multiple(a), Sig!Multiple(b), o)
             PROVE  s = t /\ m = o
  BY Zenon
<1> DEFINE R == Sig!Joined(Sig!Multiple(a))
           k == Sig!Joined(Sig!Multiple(b))
           p == R \o k
<1>1. R \in Strs /\ k \in Strs /\ Len(R) # 0 /\ R[1] = "B"
  BY MultiplesAre, Zenon
<1>2. /\ Sig!HashRam(s, Sig!Multiple(a), Sig!Multiple(b), m)
            = Sig!Term(Sig!Hash(s), ((Sig!Domain(s) \o R) \o k) \o m)
      /\ Sig!HashRam(t, Sig!Multiple(a), Sig!Multiple(b), o)
            = Sig!Term(Sig!Hash(t), ((Sig!Domain(t) \o R) \o k) \o o)
  BY Zenon DEF Sig!HashRam
<1> HIDE DEF R, k
<1>3. Sig!Domain(s) \in Strs /\ Sig!Domain(t) \in Strs
  BY SchemesAre, Zenon
<1>4. ASSUME NEW d \in Strs
      PROVE  (d \o R) \o k = d \o p
  <2>1. d \in Seq(Letters) /\ R \in Seq(Letters) /\ k \in Seq(Letters)
    BY <1>1, Zenon DEF Strs
  <2> QED
    BY <2>1, ConcatAssociative
<1>5. p \in Strs /\ Len(p) = Len(R) + Len(k) /\ p[1] = "B"
  <2>1. p \in Strs /\ Len(p) = Len(R) + Len(k) /\ p[1] = R[1]
    BY <1>1, StrsJoin, Zenon
  <2> QED
    BY <1>1, <2>1, Zenon
<1> HIDE DEF p
<1>6. Len(p) # 0
  <2>1. Len(R) \in Nat /\ Len(k) \in Nat
    BY <1>1 DEF Strs
  <2> QED
    BY <1>1, <1>5, <2>1
<1> DEFINE h == Sig!HashRam(s, Sig!Multiple(a), Sig!Multiple(b), m)
<1>7. HashIsOf(h, s, p, m) /\ HashIsOf(h, t, p, o)
  BY <1>2, <1>3, <1>4, Zenon DEF HashIsOf
<1> HIDE DEF h
<1>8. Alike(p, p)
  <2>1. p[1] # "SigEd25519"
    BY <1>5
  <2> QED
    BY <1>6, <2>1, Zenon DEF Alike
<1> QED
  <2>1. Alike(p, p) /\ HashIsOf(h, s, p, m) /\ HashIsOf(h, t, p, o) => s = t /\ p = p /\ m = o
    BY <1>5, SameHashed
  <2> QED
    BY <1>7, <1>8, <2>1, Zenon

LEMMA HashRamIs ==
    \A s \in Schemes : \A a, b, m \in Strs :
        Sig!HashRam(s, Sig!Multiple(a), Sig!Multiple(b), m) \in Strs
  BY SchemesAre, MultiplesAre, StrsJoin, TermIs, Zenon DEF Sig!HashRam

\* One second half, of one scalar and nonce: of one hash.
LEMMA SecondHalves ==
    \A h, g, a, r \in Strs :
        /\ Sig!SecondHalf(h, a, r) \in TwoCells
        /\ Sig!SecondHalf(h, a, r) = Sig!SecondHalf(g, a, r) => h = g
<1> SUFFICES ASSUME NEW h \in Strs, NEW g \in Strs, NEW a \in Strs, NEW r \in Strs
             PROVE  /\ Sig!SecondHalf(h, a, r) \in TwoCells
                    /\ Sig!SecondHalf(h, a, r) = Sig!SecondHalf(g, a, r) => h = g
  BY Zenon
<1> DEFINE ha == h \o a
           ga == g \o a
           x == ha \o r
           y == ga \o r
           t == Sig!Term("S", x)
           u == Sig!Term("S", y)
<1>1. ha \in Strs /\ ga \in Strs
  BY StrsJoin, Zenon
<1>2. ha = ga => h = g
  BY SameStrs, Zenon
<1> HIDE DEF ha, ga
<1>3. x \in Strs /\ y \in Strs
  BY <1>1, StrsJoin, Zenon
<1>4. x = y => ha = ga
  BY <1>1, SameStrs, Zenon
<1> HIDE DEF x, y
<1>5. "S" \in Letters
  BY LettersAre, Zenon
<1>6. t \in Strs /\ u \in Strs /\ (t = u => x = y)
  BY <1>3, <1>5, TermIs, SameTerm, Zenon
<1> HIDE DEF t, u
<1>7. Sig!Bytes32(t) \in TwoCells /\ (Sig!Bytes32(t) = Sig!Bytes32(u) => t = u)
  BY <1>6, HalvesAreOne, Zenon
<1>8. Sig!SecondHalf(h, a, r) = Sig!Bytes32(t) /\ Sig!SecondHalf(g, a, r) = Sig!Bytes32(u)
  BY Zenon DEF Sig!SecondHalf, t, u, x, y, ha, ga
<1> QED
  BY <1>2, <1>4, <1>6, <1>7, <1>8, Zenon

-----------------------------------------------------------------------------
(* What two and four cells read *)

LEMMA ReadsAre ==
    \A n \in Nat : \A m \in Mem(n) : \A a, l \in Nat :
        a + l <= n =>
            /\ Sig!Read(m, a, l) \in Seq(Strs) /\ Len(Sig!Read(m, a, l)) = l
            /\ \A i \in 1 .. l : Sig!Read(m, a, l)[i] = m[a + i - 1]
<1> SUFFICES ASSUME NEW n \in Nat, NEW m \in Mem(n), NEW a \in Nat, NEW l \in Nat, a + l <= n
             PROVE  /\ Sig!Read(m, a, l) \in Seq(Strs) /\ Len(Sig!Read(m, a, l)) = l
                    /\ \A i \in 1 .. l : Sig!Read(m, a, l)[i] = m[a + i - 1]
  BY Zenon
<1> DEFINE V == Strs
<1>1. m \in [0 .. n - 1 -> V]
  BY Zenon DEF Mem
<1> HIDE DEF V
<1> DEFINE r == [i \in 1 .. l |-> m[a + i - 1]]
<1>2. Sig!Read(m, a, l) = r
  BY Zenon DEF Sig!Read
<1>3. \A i \in 1 .. l : a + i - 1 \in 0 .. n - 1
  OBVIOUS
<1>4. r \in [1 .. l -> V]
  BY <1>1, <1>3
<1>5. r \in Seq(V) /\ Len(r) = l
  BY <1>4
<1>6. \A i \in 1 .. l : r[i] = m[a + i - 1]
  OBVIOUS
<1> HIDE DEF r
<1> QED
  BY <1>2, <1>5, <1>6, Zenon DEF V

LEMMA ReadTwo ==
    \A n \in Nat : \A m \in Mem(n) : \A a \in 0 .. n - 2 :
        /\ Sig!Read(m, a, 2) \in TwoCells
        /\ \A s \in TwoCells : Sig!Read(m, a, 2) = s <=> m[a] = s[1] /\ m[a + 1] = s[2]
<1> SUFFICES ASSUME NEW n \in Nat, NEW m \in Mem(n), NEW a \in 0 .. n - 2
             PROVE  /\ Sig!Read(m, a, 2) \in TwoCells
                    /\ \A s \in TwoCells : Sig!Read(m, a, 2) = s <=> m[a] = s[1] /\ m[a + 1] = s[2]
  BY Zenon
<1> DEFINE r == Sig!Read(m, a, 2)
<1>1. a \in Nat /\ 2 \in Nat /\ a + 2 <= n /\ 1 \in 1 .. 2 /\ 2 \in 1 .. 2
      /\ a + 1 - 1 = a /\ a + 2 - 1 = a + 1
  OBVIOUS
<1>2. r \in Seq(Strs) /\ Len(r) = 2 /\ \A i \in 1 .. 2 : r[i] = m[a + i - 1]
  BY <1>1, ReadsAre, Zenon
<1> HIDE DEF r
<1>3. r[1] = m[a] /\ r[2] = m[a + 1]
  BY <1>1, <1>2, Zenon
<1>4. r \in TwoCells
  BY <1>2, Zenon DEF TwoCells
<1>5. ASSUME NEW s \in TwoCells
      PROVE  r = s <=> r[1] = s[1] /\ r[2] = s[2]
  <2>1. s \in Seq(Strs) /\ Len(s) = 2
    BY Zenon DEF TwoCells
  <2>2. ASSUME r[1] = s[1], r[2] = s[2]
        PROVE  r = s
    <3>1. \A i \in 1 .. Len(r) : i = 1 \/ i = 2
      BY <1>2
    <3>2. \A i \in 1 .. Len(r) : r[i] = s[i]
      BY <2>2, <3>1, Zenon
    <3> QED
      BY <1>2, <2>1, <3>2, SeqEqual
  <2> QED
    BY <2>2, Zenon
<1> QED
  BY <1>3, <1>4, <1>5, Zenon DEF r

LEMMA FourIs ==
    \A s, t \in TwoCells :
        /\ s \o t \in Seq(Strs) /\ Len(s \o t) = 4
        /\ (s \o t)[1] = s[1] /\ (s \o t)[2] = s[2] /\ (s \o t)[3] = t[1] /\ (s \o t)[4] = t[2]
<1> SUFFICES ASSUME NEW s \in TwoCells, NEW t \in TwoCells
             PROVE  /\ s \o t \in Seq(Strs) /\ Len(s \o t) = 4
                    /\ (s \o t)[1] = s[1] /\ (s \o t)[2] = s[2]
                    /\ (s \o t)[3] = t[1] /\ (s \o t)[4] = t[2]
  BY Zenon
<1> DEFINE h == s \o t
           V == Strs
<1>1. s \in Seq(V) /\ Len(s) = 2 /\ t \in Seq(V) /\ Len(t) = 2
  BY Zenon DEF TwoCells
<1> HIDE DEF V
<1>3. h \in Seq(V) /\ Len(h) = Len(s) + Len(t)
      /\ \A i \in 1 .. Len(s) + Len(t) : h[i] = IF i <= Len(s) THEN s[i] ELSE t[i - Len(s)]
  BY <1>1, ConcatProperties
<1> HIDE DEF h
<1>4. Len(h) = 4 /\ h[1] = s[1] /\ h[2] = s[2] /\ h[3] = t[1] /\ h[4] = t[2]
  <2>1. /\ Len(s) + Len(t) = 4 /\ 1 \in 1 .. 4 /\ 2 \in 1 .. 4 /\ 3 \in 1 .. 4 /\ 4 \in 1 .. 4
        /\ 1 <= Len(s) /\ 2 <= Len(s) /\ ~(3 <= Len(s)) /\ ~(4 <= Len(s))
        /\ 3 - Len(s) = 1 /\ 4 - Len(s) = 2
    BY <1>1
  <2> QED
    BY <1>3, <2>1, Zenon
<1> QED
  BY <1>3, <1>4, Zenon DEF h, V

LEMMA ReadFour ==
    \A n \in Nat : \A m \in Mem(n) : \A a \in 0 .. n - 4 : \A s, t \in TwoCells :
        Sig!Read(m, a, 4) = s \o t
            <=> m[a] = s[1] /\ m[a + 1] = s[2] /\ m[a + 2] = t[1] /\ m[a + 3] = t[2]
<1> SUFFICES ASSUME NEW n \in Nat, NEW m \in Mem(n), NEW a \in 0 .. n - 4,
                    NEW s \in TwoCells, NEW t \in TwoCells
             PROVE  Sig!Read(m, a, 4) = s \o t
                        <=> m[a] = s[1] /\ m[a + 1] = s[2] /\ m[a + 2] = t[1] /\ m[a + 3] = t[2]
  BY Zenon
<1> DEFINE r == Sig!Read(m, a, 4)
           h == s \o t
<1>1. /\ a \in Nat /\ 4 \in Nat /\ a + 4 <= n
      /\ 1 \in 1 .. 4 /\ 2 \in 1 .. 4 /\ 3 \in 1 .. 4 /\ 4 \in 1 .. 4
      /\ a + 1 - 1 = a /\ a + 2 - 1 = a + 1 /\ a + 3 - 1 = a + 2 /\ a + 4 - 1 = a + 3
  OBVIOUS
<1>2. r \in Seq(Strs) /\ Len(r) = 4 /\ \A i \in 1 .. 4 : r[i] = m[a + i - 1]
  BY <1>1, ReadsAre, Zenon
<1> HIDE DEF r
<1>3. r[1] = m[a] /\ r[2] = m[a + 1] /\ r[3] = m[a + 2] /\ r[4] = m[a + 3]
  BY <1>1, <1>2, Zenon
<1>4. /\ h \in Seq(Strs) /\ Len(h) = 4
      /\ h[1] = s[1] /\ h[2] = s[2] /\ h[3] = t[1] /\ h[4] = t[2]
  BY FourIs, Zenon
<1> HIDE DEF h
<1>5. ASSUME r[1] = h[1], r[2] = h[2], r[3] = h[3], r[4] = h[4]
      PROVE  r = h
  <2>1. \A i \in 1 .. Len(r) : i = 1 \/ i = 2 \/ i = 3 \/ i = 4
    BY <1>2
  <2>2. \A i \in 1 .. Len(r) : r[i] = h[i]
    BY <1>5, <2>1, Zenon
  <2> QED
    BY <1>2, <1>4, <2>2, SeqEqual
<1>6. r = h <=> m[a] = s[1] /\ m[a + 1] = s[2] /\ m[a + 2] = t[1] /\ m[a + 3] = t[2]
  BY <1>3, <1>4, <1>5, Zenon
<1> QED
  BY <1>6, Zenon DEF r, h

ReadsFour(m, a, s, t) == Sig!Read(m, a, 4) = s \o t
HasFour(m, a, s, t) == m[a] = s[1] /\ m[a + 1] = s[2] /\ m[a + 2] = t[1] /\ m[a + 3] = t[2]

LEMMA FourAreRead ==
    \A n \in Nat : \A m \in Mem(n) : \A a \in 0 .. n - 4 : \A s, t \in TwoCells :
        ReadsFour(m, a, s, t) <=> HasFour(m, a, s, t)
  BY ReadFour, Zenon DEF ReadsFour, HasFour

-----------------------------------------------------------------------------
(* The pair is of the seed *)

\* What PairIsOfSeed says of a memory w, made of memory b.
OfSeed(w, b, k, p, e, pk) ==
    /\ Sig!Read(w, k, 4) = Sig!Read(b, e, 2) \o pk
    /\ Sig!Read(w, p, 2) = pk
    /\ \A c \in e .. e + 1 : w[c] = b[c] => c \in k .. k + 1

\* Zeros, the seed and the public key are of different lengths.
LEMMA MadeIsOfSeed ==
    ASSUME NEW n \in Nat, NEW b \in Mem(n), NEW w, NEW z \in Strs, NEW s \in TwoCells, NEW t \in TwoCells,
           NEW e \in 0 .. n - 2, NEW k \in 0 .. n - 4, NEW p \in 0 .. n - 2,
           k + 4 <= p \/ p + 2 <= k,
           Made(w, n, b, k, p, e, s, t, z), Sig!Read(b, e, 2) = s,
           Len(z) = 1, Len(s[1]) = 2, Len(s[2]) = 2, Len(t[1]) > 2, Len(t[2]) > 2
    PROVE  OfSeed(w, b, k, p, e, t)
<1>1. w \in Mem(n)
  BY Zenon DEF Made
<1>2. /\ k \in 0 .. n - 1 /\ k + 1 \in 0 .. n - 1 /\ k + 2 \in 0 .. n - 1 /\ k + 3 \in 0 .. n - 1
      /\ p \in 0 .. n - 1 /\ p + 1 \in 0 .. n - 1 /\ e \in 0 .. n - 1 /\ e + 1 \in 0 .. n - 1
  OBVIOUS
<1>3. /\ k # p /\ k # p + 1 /\ k + 1 # p /\ k + 1 # p + 1 /\ k + 2 # p /\ k + 2 # p + 1
      /\ k + 3 # p /\ k + 3 # p + 1
  OBVIOUS
<1>4. w[p] = t[1] /\ w[p + 1] = t[2]
  BY <1>2, Zenon DEF Made
<1>5. w[k] = s[1] /\ w[k + 1] = s[2] /\ w[k + 2] = t[1] /\ w[k + 3] = t[2]
  BY <1>2, <1>3, Zenon DEF Made
<1>6. Sig!Read(w, p, 2) = t
  BY <1>1, <1>4, ReadTwo, Zenon
<1>7. Sig!Read(w, k, 4) = s \o t
  <2>1. HasFour(w, k, s, t)
    BY <1>5, Zenon DEF HasFour
  <2>2. ReadsFour(w, k, s, t)
    BY <1>1, <2>1, FourAreRead, Zenon
  <2> QED
    BY <2>2, Zenon DEF ReadsFour
<1>8. b[e] = s[1] /\ b[e + 1] = s[2]
  BY ReadTwo, Zenon
<1>9. ASSUME NEW c \in e .. e + 1, c \notin k .. k + 1
      PROVE  w[c] # b[c]
  <2>1. c = e \/ c = e + 1
    OBVIOUS
  <2>2. c \in 0 .. n - 1 /\ c # k /\ c # k + 1
    BY <1>2, <1>9, <2>1
  <2>3. Len(b[c]) = 2
    BY <1>8, <2>1, Zenon
  <2>4. w[c] = t[1] \/ w[c] = t[2] \/ w[c] = z
    BY <2>1, <2>2, Zenon DEF Made
  <2>5. Len(w[c]) # 2
    <3>1. Len(t[1]) # 2 /\ Len(t[2]) # 2 /\ Len(z) # 2
      <4>1. Len(t[1]) \in Nat /\ Len(t[2]) \in Nat
        BY CellsOfTwo DEF Strs
      <4>2. 1 # 2 /\ \A i \in Nat : i > 2 => i # 2
        OBVIOUS
      <4> QED
        BY <4>1, <4>2, Zenon
    <3> QED
      BY <2>4, <3>1, Zenon
  <2> QED
    BY <2>3, <2>5, Zenon
<1> QED
  BY <1>6, <1>7, <1>9, Zenon DEF OfSeed

\* The writes are seen in order: in four cells, the seed and the public key.
LEMMA MadeInOrder ==
    ASSUME NEW n \in Nat, NEW b \in Mem(n), NEW w, NEW z \in Strs, NEW s \in TwoCells, NEW t \in TwoCells,
           NEW e \in 0 .. n - 2, NEW k \in 0 .. n - 4, NEW p \in 0 .. n - 2,
           Made(w, n, b, k, p, e, s, t, z)
    PROVE  w = Sig!Write(Sig!Write(Sig!Write(b, e, <<z, z>>), k, s \o t), p, t)
<1> DEFINE zz == <<z, z>>
           h == s \o t
           w1 == Sig!Write(b, e, zz)
           w2 == Sig!Write(w1, k, h)
           w3 == Sig!Write(w2, p, t)
<1>1. zz \in TwoCells /\ zz[1] = z /\ zz[2] = z
  BY TwoCellsAre, Zenon
<1>2. /\ h \in Seq(Strs) /\ Len(h) = 4
      /\ h[1] = s[1] /\ h[2] = s[2] /\ h[3] = t[1] /\ h[4] = t[2]
  BY FourIs, Zenon
<1> HIDE DEF zz, h
<1>3. Writes(w1, n, b, e, zz) /\ w1 \in Mem(n)
  BY <1>1, TwoWritten, Zenon DEF Writes
<1> HIDE DEF w1
<1>4. k \in Nat /\ k + 4 <= n /\ e \in Int /\ p \in Int
  OBVIOUS
<1>5. Writes(w2, n, w1, k, h) /\ w2 \in Mem(n)
  BY <1>2, <1>3, <1>4, WriteIs, Zenon DEF Writes
<1> HIDE DEF w2
<1>6. Writes(w3, n, w2, p, t) /\ w3 \in Mem(n)
  BY <1>5, TwoWritten, Zenon DEF Writes
<1> HIDE DEF w3
<1>7. ASSUME NEW c \in 0 .. n - 1
      PROVE  w3[c] = w[c]
  <2>1. Cell(w1, c, b, e, zz) /\ Cell(w3, c, w2, p, t)
    BY <1>1, <1>3, <1>4, <1>6, WritesCells, Zenon
  <2>2. w2[c] = IF c >= k /\ c < k + 4 THEN h[c - k + 1] ELSE w1[c]
    BY <1>2, <1>5, Zenon DEF Writes
  <2>3. /\ c = k => w2[c] = s[1]
        /\ c = k + 1 => w2[c] = s[2]
        /\ c = k + 2 => w2[c] = t[1]
        /\ c = k + 3 => w2[c] = t[2]
        /\ c # k /\ c # k + 1 /\ c # k + 2 /\ c # k + 3 => w2[c] = w1[c]
    <3>1. /\ c >= k /\ c < k + 4 <=> c = k \/ c = k + 1 \/ c = k + 2 \/ c = k + 3
          /\ c = k => c - k + 1 = 1
          /\ c = k + 1 => c - k + 1 = 2
          /\ c = k + 2 => c - k + 1 = 3
          /\ c = k + 3 => c - k + 1 = 4
      OBVIOUS
    <3> QED
      BY <1>2, <2>2, <3>1, Zenon
  <2>4. /\ c = e \/ c = e + 1 => w1[c] = z
        /\ c # e /\ c # e + 1 => w1[c] = b[c]
    BY <1>1, <2>1, Zenon DEF Cell
  <2>5. /\ c = p => w3[c] = t[1]
        /\ c = p + 1 => w3[c] = t[2]
        /\ c # p /\ c # p + 1 => w3[c] = w2[c]
    BY <2>1, Zenon DEF Cell
  <2>6. /\ c = p => w[c] = t[1]
        /\ c = p + 1 => w[c] = t[2]
        /\ c # p /\ c # p + 1 =>
            /\ c = k => w[c] = s[1]
            /\ c = k + 1 => w[c] = s[2]
            /\ c = k + 2 => w[c] = t[1]
            /\ c = k + 3 => w[c] = t[2]
            /\ c # k /\ c # k + 1 /\ c # k + 2 /\ c # k + 3 =>
                /\ c = e \/ c = e + 1 => w[c] = z
                /\ c # e /\ c # e + 1 => w[c] = b[c]
    BY Zenon DEF Made
  <2> QED
    BY <2>3, <2>4, <2>5, <2>6, Zenon
<1>8. w = w3
  <2>1. w \in [0 .. n - 1 -> Strs] /\ w3 \in [0 .. n - 1 -> Strs]
    BY <1>6, Zenon DEF Made, Mem
  <2> QED
    BY <1>7, <2>1
<1> QED
  BY <1>8, Zenon DEF w3, w2, w1, h, zz

-----------------------------------------------------------------------------
(* A signature verifies *)

IsSigned(s) ==
    /\ s = [scheme |-> s.scheme, seed |-> s.seed, message |-> s.message, r |-> s.r]
    /\ s.scheme \in Schemes /\ s.seed \in Strs /\ Len(s.seed) = 4 /\ s.message \in Strs
    /\ s.r = Sig!Nonce(s.scheme, Sig!Prefix(s.scheme, s.seed), s.message)

\* Of what was signed, one has the equation of a signature R, S2.
EquationHolds(all, scheme, R, S2, pk, message) ==
    \E s \in all :
        /\ pk = Sig!Multiple(Sig!Scalar(s.scheme, s.seed)) /\ R = Sig!Multiple(s.r)
        /\ S2 = Sig!SecondHalf(Sig!HashRam(scheme, R, pk, message), Sig!Scalar(s.scheme, s.seed), s.r)

\* R, S2 is the signature of s under key pk.
IsSignature(s, R, S2, pk) ==
    /\ pk = Sig!Multiple(Sig!Scalar(s.scheme, s.seed)) /\ R = Sig!Multiple(s.r)
    /\ S2 = Sig!SecondHalf(Sig!HashRam(s.scheme, R, pk, s.message), Sig!Scalar(s.scheme, s.seed), s.r)

AllSigned(all) == \A s \in all : IsSigned(s)

LEMMA HoldsForOne ==
    \A all : AllSigned(all) =>
        \A s \in all : \A R, S2, pk : IsSignature(s, R, S2, pk) =>
            \A scheme \in Schemes : \A message \in Strs :
                EquationHolds(all, scheme, R, S2, pk, message) <=> scheme = s.scheme /\ message = s.message
<1> SUFFICES ASSUME NEW all, AllSigned(all), NEW s \in all,
                    NEW scheme \in Schemes, NEW message \in Strs, NEW pk, NEW R, NEW S2,
                    IsSignature(s, R, S2, pk)
             PROVE  EquationHolds(all, scheme, R, S2, pk, message) <=> scheme = s.scheme /\ message = s.message
  BY Zenon
<1>0. /\ \A t \in all : IsSigned(t)
      /\ pk = Sig!Multiple(Sig!Scalar(s.scheme, s.seed)) /\ R = Sig!Multiple(s.r)
      /\ S2 = Sig!SecondHalf(Sig!HashRam(s.scheme, R, pk, s.message), Sig!Scalar(s.scheme, s.seed), s.r)
  BY Zenon DEF AllSigned, IsSignature
<1>1. ASSUME scheme = s.scheme, message = s.message
      PROVE  EquationHolds(all, scheme, R, S2, pk, message)
  BY <1>0, <1>1, Zenon DEF EquationHolds
<1>2. ASSUME NEW t \in all,
             pk = Sig!Multiple(Sig!Scalar(t.scheme, t.seed)), R = Sig!Multiple(t.r),
             S2 = Sig!SecondHalf(Sig!HashRam(scheme, R, pk, message), Sig!Scalar(t.scheme, t.seed), t.r)
      PROVE  scheme = s.scheme /\ message = s.message
  <2> DEFINE a == Sig!Scalar(s.scheme, s.seed)
             b == Sig!Scalar(t.scheme, t.seed)
             r == s.r
             q == t.r
             sc == s.scheme
             m == s.message
  <2>1. IsSigned(s) /\ IsSigned(t)
    BY <1>0, Zenon
  <2>2. sc \in Schemes /\ m \in Strs /\ a \in Strs /\ b \in Strs /\ r \in Strs /\ q \in Strs
    <3>1. /\ s.scheme \in Schemes /\ s.seed \in Strs /\ s.message \in Strs
          /\ s.r = Sig!Nonce(s.scheme, Sig!Prefix(s.scheme, s.seed), s.message)
      BY <2>1, Zenon DEF IsSigned
    <3>2. /\ t.scheme \in Schemes /\ t.seed \in Strs /\ t.message \in Strs
          /\ t.r = Sig!Nonce(t.scheme, Sig!Prefix(t.scheme, t.seed), t.message)
      BY <2>1, Zenon DEF IsSigned
    <3>3. r \in Strs
      BY <3>1, NonceIs, Zenon
    <3>4. q \in Strs
      BY <3>2, NonceIs, Zenon
    <3>5. a \in Strs /\ b \in Strs
      BY <3>1, <3>2, ScalarsAre, Zenon
    <3> QED
      BY <3>1, <3>3, <3>4, <3>5, Zenon
  <2>3. /\ pk = Sig!Multiple(a) /\ pk = Sig!Multiple(b) /\ R = Sig!Multiple(r) /\ R = Sig!Multiple(q)
        /\ S2 = Sig!SecondHalf(Sig!HashRam(sc, R, pk, m), a, r)
        /\ S2 = Sig!SecondHalf(Sig!HashRam(scheme, R, pk, message), b, q)
    BY <1>0, <1>2, Zenon
  <2> HIDE DEF a, b, r, q, sc, m
  <2>4. a = b
    <3>1. Sig!Multiple(a) = Sig!Multiple(b)
      BY <2>3, Zenon
    <3> QED
      BY <2>2, <3>1, MultiplesAre, Zenon
  <2>5. r = q
    <3>1. Sig!Multiple(r) = Sig!Multiple(q)
      BY <2>3, Zenon
    <3> QED
      BY <2>2, <3>1, MultiplesAre, Zenon
  <2> DEFINE h == Sig!HashRam(sc, Sig!Multiple(r), Sig!Multiple(a), m)
             g == Sig!HashRam(scheme, Sig!Multiple(r), Sig!Multiple(a), message)
  <2>6. h \in Strs /\ g \in Strs
    BY <2>2, HashRamIs, Zenon
  <2>7. Sig!SecondHalf(h, a, r) = Sig!SecondHalf(g, a, r)
    BY <2>3, <2>4, <2>5, Zenon
  <2>8. h = g => sc = scheme /\ m = message
    BY <2>2, SameHashRam
  <2> HIDE DEF h, g
  <2>9. h = g
    BY <2>2, <2>6, <2>7, SecondHalves, Zenon
  <2> QED
    BY <2>8, <2>9, Zenon DEF sc, m
<1> QED
  BY <1>1, <1>2, Zenon DEF EquationHolds

LEMMA NoncesDiffer ==
    ASSUME NEW s, NEW t, IsSigned(s), IsSigned(t), s.r = t.r
    PROVE  s = t
<1> DEFINE sc == s.scheme
           tc == t.scheme
           x == s.seed
           y == t.seed
           m == s.message
           o == t.message
<1>1. /\ sc \in Schemes /\ tc \in Schemes /\ x \in Strs /\ y \in Strs /\ m \in Strs /\ o \in Strs
      /\ Len(x) = Len(y)
      /\ Sig!Nonce(sc, Sig!Prefix(sc, x), m) = Sig!Nonce(tc, Sig!Prefix(tc, y), o)
  BY Zenon DEF IsSigned
<1> HIDE DEF sc, tc, x, y, m, o
<1>2. sc = tc /\ x = y /\ m = o
  BY <1>1, SameNonce
<1>3. /\ s = [scheme |-> sc, seed |-> x, message |-> m, r |-> s.r]
      /\ t = [scheme |-> tc, seed |-> y, message |-> o, r |-> t.r]
  BY Zenon DEF IsSigned, sc, tc, x, y, m, o
<1> QED
  BY <1>2, <1>3, Zenon

-----------------------------------------------------------------------------
(* The steps *)

SigTyping ==
    /\ v1 \in Callers
    /\ v2 \in Mem(v1.cells)
    /\ \A s \in v4 : IsSigned(s)

SigInv == SigTyping /\ Sig!PairIsOfSeed /\ Sig!WritesInOrderElsewhere /\ Sig!SignatureVerifies

LEMMA ZerosAre ==
    /\ <<"0">> \in Strs /\ Len(<<"0">>) = 1 /\ Sig!Zeros = << <<"0">>, <<"0">> >>
<1>1. "0" \in Letters
  BY LettersAre, Zenon
<1>2. \A e \in Letters : <<e>> \in Strs /\ Len(<<e>>) = 1
  BY OneLetter, Zenon
<1> QED
  BY <1>1, <1>2, Zenon DEF Sig!Zeros

LEMMA SigInvInit == Sig!Init => SigInv
<1> SUFFICES ASSUME Sig!Init
             PROVE  SigInv
  OBVIOUS
<1>1. /\ v1 \in Callers /\ v2 = [c \in 0 .. v1.cells - 1 |-> <<"free">>]
      /\ v3 = Sig!Nothing /\ v4 = {} /\ v5 = Sig!Nothing
  BY Zenon DEF Sig!Init
<1>2. <<"free">> \in Strs
  BY LettersAre, OneLetter, Zenon
<1>3. v2 \in Mem(v1.cells)
  <2> DEFINE n == v1.cells
             f == <<"free">>
  <2> HIDE DEF n, f
  <2>1. [c \in 0 .. n - 1 |-> f] \in [0 .. n - 1 -> Strs]
    BY <1>2, Zenon DEF f
  <2> QED
    BY <1>1, <2>1, Zenon DEF n, f, Mem
<1>4. SigTyping
  BY <1>1, <1>3 DEF SigTyping
<1>5. Sig!PairIsOfSeed /\ Sig!WritesInOrderElsewhere /\ Sig!SignatureVerifies
  BY <1>1, Zenon DEF Sig!PairIsOfSeed, Sig!WritesInOrderElsewhere, Sig!SignatureVerifies
<1> QED
  BY <1>4, <1>5, Zenon DEF SigInv

LEMMA CopyIn ==
    \A n \in Nat : \A m \in Mem(n) : \A to, from \in 0 .. n - 2 : Sig!Copy(m, to, from, 2) \in Mem(n)
<1> SUFFICES ASSUME NEW n \in Nat, NEW m \in Mem(n), NEW to \in 0 .. n - 2, NEW from \in 0 .. n - 2
             PROVE  Sig!Copy(m, to, from, 2) \in Mem(n)
  BY Zenon
<1> DEFINE m1 == [m EXCEPT ![to] = m[from]]
           m2 == [m1 EXCEPT ![to + 1] = m1[from + 1]]
<1>1. m \in [0 .. n - 1 -> Strs]
  BY Zenon DEF Mem
<1>2. Sig!Copy(m, to, from, 2) = m2
  BY TwoCopied
<1>3. from \in 0 .. n - 1 /\ from + 1 \in 0 .. n - 1
  OBVIOUS
<1>4. m1 \in [0 .. n - 1 -> Strs]
  BY <1>1, <1>3
<1> HIDE DEF m1
<1>5. m2 \in [0 .. n - 1 -> Strs]
  BY <1>3, <1>4
<1> HIDE DEF m2
<1> QED
  BY <1>2, <1>5, Zenon DEF Mem

\* Two cells written, and read again.
LEMMA ReadsBack ==
    \A n \in Nat : \A m \in Mem(n) : \A a \in 0 .. n - 2 : \A s \in TwoCells :
        Sig!Write(m, a, s) \in Mem(n) /\ Sig!Read(Sig!Write(m, a, s), a, 2) = s
<1> SUFFICES ASSUME NEW n \in Nat, NEW m \in Mem(n), NEW a \in 0 .. n - 2, NEW s \in TwoCells
             PROVE  Sig!Write(m, a, s) \in Mem(n) /\ Sig!Read(Sig!Write(m, a, s), a, 2) = s
  BY Zenon
<1> DEFINE w == Sig!Write(m, a, s)
<1>1. Writes(w, n, m, a, s) /\ w \in Mem(n)
  BY TwoWritten, Zenon DEF Writes
<1> HIDE DEF w
<1>2. a \in 0 .. n - 1 /\ a + 1 \in 0 .. n - 1 /\ a \in Int
  OBVIOUS
<1>3. Cell(w, a, m, a, s) /\ Cell(w, a + 1, m, a, s)
  BY <1>1, <1>2, WritesCells, Zenon
<1>4. w[a] = s[1] /\ w[a + 1] = s[2]
  BY <1>3, Zenon DEF Cell
<1>5. Sig!Read(w, a, 2) = s
  BY <1>1, <1>4, ReadTwo, Zenon
<1> QED
  BY <1>1, <1>5, Zenon DEF w

\* The memory after a call that makes a pair.
LEMMA PairIsMade ==
    ASSUME NEW c \in Callers, NEW m \in Mem(c.cells), NEW scheme \in Schemes, NEW x \in c.seeds,
           NEW place \in c.keyPlaces
    PROVE  LET s == Sig!Bytes32(<<x>>)
               before == Sig!Write(m, place[3], s)
               pk == Sig!PublicKey(scheme, Sig!Joined(s))
               blake == Sig!EddsaKeyPair(before, scheme, place[1], place[2], place[3])
               sha == Sig!Ed25519KeyPair(before, scheme, place[1], place[2], place[3])
           IN  /\ blake \in Mem(c.cells) /\ sha \in Mem(c.cells)
               /\ place[2] # place[1] + 3 =>
                    blake = Sig!Write(Sig!Write(Sig!Write(before, place[3], Sig!Zeros),
                                                place[1], Sig!Read(before, place[3], 2) \o pk),
                                      place[2], pk)
               /\ place[1] + 4 <= place[2] \/ place[2] + 2 <= place[1] =>
                    /\ OfSeed(blake, before, place[1], place[2], place[3], pk)
                    /\ OfSeed(sha, before, place[1], place[2], place[3], pk)
<1> DEFINE n == c.cells
           k == place[1]
           p == place[2]
           e == place[3]
           s == Sig!Bytes32(<<x>>)
           seed == Sig!Joined(s)
           b == Sig!Write(m, e, s)
           pk == Sig!PublicKey(scheme, seed)
           z == <<"0">>
           y == k + 2
           w1 == Wiped(b, e, z, k, s, y, pk)
           w2 == Wiped(b, e, z, k, s, p, pk)
           blake == Sig!Copy(w1, p, y, 2)
           sha == Sig!Copy(w2, y, p, 2)
<1>1. /\ n \in Nat /\ k \in 0 .. n - 4 /\ p \in 0 .. n - 2 /\ e \in 0 .. n - 2
      /\ x \in Letters
  BY CallersAre, Zenon
<1>2. m \in Mem(n)
  OBVIOUS
<1> HIDE DEF n, k, p, e
<1>3. /\ s \in TwoCells /\ Len(s[1]) = 2 /\ Len(s[2]) = 2 /\ seed \in Strs
  BY <1>1, SeedIs, Zenon
<1> HIDE DEF s, seed
<1>4. pk \in TwoCells /\ Len(pk[1]) > 2 /\ Len(pk[2]) > 2
  BY <1>3, ScalarsAre, MultiplesAre, Zenon DEF Sig!PublicKey
<1>5. b \in Mem(n) /\ Sig!Read(b, e, 2) = s
  BY <1>1, <1>2, <1>3, ReadsBack, Zenon
<1>6. z \in Strs /\ Len(z) = 1 /\ Sig!Zeros = <<z, z>>
  BY ZerosAre, Zenon
<1>7. pk = Sig!Multiple(Sig!Scalar(scheme, seed))
  BY Zenon DEF Sig!PublicKey
<1> HIDE DEF b, pk, z
<1>8. /\ Sig!EddsaKeyPair(b, scheme, k, p, e) = blake
      /\ Sig!Ed25519KeyPair(b, scheme, k, p, e) = sha
  BY <1>5, <1>6, <1>7, Zenon DEF Sig!EddsaKeyPair, Sig!Ed25519KeyPair, Wiped, seed
<1>9. y \in 0 .. n - 2 /\ k \in 0 .. n - 2 /\ y = k + 2
  BY <1>1
<1>10. p # k + 3 => Made(blake, n, b, k, p, e, s, pk, z)
  BY <1>1, <1>3, <1>4, <1>5, <1>6, EddsaMakes
<1>11. k + 4 <= p \/ p + 2 <= k => Made(sha, n, b, k, p, e, s, pk, z)
  BY <1>1, <1>3, <1>4, <1>5, <1>6, Ed25519Makes
<1> HIDE DEF y
<1>12. w1 \in Mem(n) /\ w2 \in Mem(n)
  BY <1>1, <1>3, <1>4, <1>5, <1>6, <1>9, WipedIs, Zenon DEF WipedTo
<1> HIDE DEF w1, w2
<1>13. blake \in Mem(n) /\ sha \in Mem(n)
  BY <1>1, <1>9, <1>12, CopyIn, Zenon
<1> HIDE DEF blake, sha
<1>14. p # k + 3 => blake = Sig!Write(Sig!Write(Sig!Write(b, e, <<z, z>>), k, s \o pk), p, pk)
  BY <1>1, <1>3, <1>4, <1>5, <1>6, <1>10, MadeInOrder
<1>15. ASSUME k + 4 <= p \/ p + 2 <= k
       PROVE  OfSeed(blake, b, k, p, e, pk) /\ OfSeed(sha, b, k, p, e, pk)
  <2>0. p # k + 3
    BY <1>1, <1>15
  <2>1. OfSeed(blake, b, k, p, e, pk)
    BY <1>1, <1>3, <1>4, <1>5, <1>6, <1>10, <1>15, <2>0, MadeIsOfSeed
  <2>2. OfSeed(sha, b, k, p, e, pk)
    BY <1>1, <1>3, <1>4, <1>5, <1>6, <1>11, <1>15, MadeIsOfSeed
  <2> QED
    BY <2>1, <2>2
<1> QED
  BY <1>5, <1>6, <1>8, <1>13, <1>14, <1>15, Zenon DEF n, k, p, e, s, seed, b, pk

LEMMA PairFields ==
    \A r, a, b, c, d :
        r = [scheme |-> a, seed |-> b, place |-> c, before |-> d]
        => r.scheme = a /\ r.seed = b /\ r.place = c /\ r.before = d
  OBVIOUS

LEMMA MakePairStep ==
    ASSUME SigTyping, Sig!MakePair
    PROVE  SigInv'
<1> PICK scheme \in v1.schemes \ {"ed25519ph"}, x \in v1.seeds, place \in v1.keyPlaces :
        LET e == place[3]
            before == Sig!Write(v2, e, Sig!Bytes32(<<x>>))
        IN  /\ v3' = [scheme |-> scheme, seed |-> Sig!Joined(Sig!Bytes32(<<x>>)), place |-> place,
                      before |-> before]
            /\ v2' = IF scheme = "blake2b" THEN Sig!EddsaKeyPair(before, scheme, place[1], place[2], e)
                     ELSE Sig!Ed25519KeyPair(before, scheme, place[1], place[2], e)
  BY Zenon DEF Sig!MakePair
<1> DEFINE s == Sig!Bytes32(<<x>>)
           seed == Sig!Joined(s)
           b == Sig!Write(v2, place[3], s)
           pk == Sig!PublicKey(scheme, seed)
<1>1. v1 \in Callers /\ v2 \in Mem(v1.cells) /\ scheme \in Schemes /\ \A t \in v4 : IsSigned(t)
  BY CallersAre DEF SigTyping
<1>2. v1' = v1 /\ v4' = v4 /\ v5' = Sig!Nothing
  BY Zenon DEF Sig!MakePair
<1>3. /\ v2' \in Mem(v1.cells)
      /\ scheme = "blake2b" /\ place[2] # place[1] + 3 =>
            v2' = Sig!Write(Sig!Write(Sig!Write(b, place[3], Sig!Zeros),
                                      place[1], Sig!Read(b, place[3], 2) \o pk), place[2], pk)
      /\ place[1] + 4 <= place[2] \/ place[2] + 2 <= place[1] =>
            OfSeed(v2', b, place[1], place[2], place[3], pk)
  <2> DEFINE blake == Sig!EddsaKeyPair(b, scheme, place[1], place[2], place[3])
             sha == Sig!Ed25519KeyPair(b, scheme, place[1], place[2], place[3])
  <2>1. /\ blake \in Mem(v1.cells) /\ sha \in Mem(v1.cells)
        /\ place[2] # place[1] + 3 =>
            blake = Sig!Write(Sig!Write(Sig!Write(b, place[3], Sig!Zeros),
                                        place[1], Sig!Read(b, place[3], 2) \o pk), place[2], pk)
        /\ place[1] + 4 <= place[2] \/ place[2] + 2 <= place[1] =>
            /\ OfSeed(blake, b, place[1], place[2], place[3], pk)
            /\ OfSeed(sha, b, place[1], place[2], place[3], pk)
    BY <1>1, PairIsMade, Zenon
  <2>2. v2' = IF scheme = "blake2b" THEN blake ELSE sha
    OBVIOUS
  <2> HIDE DEF blake, sha, b, pk
  <2> QED
    BY <2>1, <2>2, Zenon
<1>4. v3'.scheme = scheme /\ v3'.seed = seed /\ v3'.place = place /\ v3'.before = b
  <2> HIDE DEF b, seed
  <2> DEFINE q == [scheme |-> scheme, seed |-> seed, place |-> place, before |-> b]
  <2>1. v3' = q
    BY Zenon DEF b, seed
  <2>2. q.scheme = scheme /\ q.seed = seed /\ q.place = place /\ q.before = b
    BY PairFields, Zenon
  <2> HIDE DEF q
  <2> QED
    BY <2>1, <2>2, Zenon
<1> HIDE DEF b, pk, s, seed
<1>5. SigTyping'
  BY <1>1, <1>2, <1>3, Zenon DEF SigTyping
<1>6. Sig!PairIsOfSeed'
  <2>1. pk = Sig!PublicKey(v3'.scheme, v3'.seed)
    BY <1>4, Zenon DEF pk
  <2> QED
    BY <1>3, <1>4, <2>1, Zenon DEF Sig!PairIsOfSeed, Sig!Disjoint, OfSeed
<1>7. Sig!WritesInOrderElsewhere'
  <2>1. pk = Sig!PublicKey(v3'.scheme, v3'.seed)
    BY <1>4, Zenon DEF pk
  <2> QED
    BY <1>3, <1>4, <2>1, Zenon DEF Sig!WritesInOrderElsewhere, Sig!WrittenInOrder
<1>8. Sig!SignatureVerifies'
  BY <1>2, Zenon DEF Sig!SignatureVerifies
<1> QED
  BY <1>5, <1>6, <1>7, <1>8, Zenon DEF SigInv

LEMMA PutMessageStep ==
    ASSUME SigTyping, Sig!PutMessage
    PROVE  SigInv'
<1> PICK text \in v1.messages, place \in v1.signPlaces : v2' = [v2 EXCEPT ![place[3]] = <<text>>]
  BY Zenon DEF Sig!PutMessage
<1>1. v1' = v1 /\ v4' = v4 /\ v3' = Sig!Nothing /\ v5' = Sig!Nothing
  BY Zenon DEF Sig!PutMessage
<1>2. v1 \in Callers /\ v2 \in Mem(v1.cells) /\ \A t \in v4 : IsSigned(t)
  BY DEF SigTyping
<1>3. v2' \in Mem(v1.cells)
  <2>1. text \in Letters
    BY <1>2, CallersAre
  <2> DEFINE n == v1.cells
             e == <<text>>
             V == Strs
  <2>2. e \in V
    BY <2>1, OneLetter, Zenon
  <2>3. v2 \in [0 .. n - 1 -> V]
    BY <1>2, Zenon DEF Mem
  <2>4. v2' = [v2 EXCEPT ![place[3]] = e]
    OBVIOUS
  <2> HIDE DEF n, e, V
  <2>5. v2' \in [0 .. n - 1 -> V]
    BY <2>2, <2>3, <2>4
  <2> QED
    BY <2>5, Zenon DEF n, V, Mem
<1>4. SigTyping'
  BY <1>1, <1>2, <1>3, Zenon DEF SigTyping
<1>5. Sig!PairIsOfSeed' /\ Sig!WritesInOrderElsewhere' /\ Sig!SignatureVerifies'
  BY <1>1, Zenon DEF Sig!PairIsOfSeed, Sig!WritesInOrderElsewhere, Sig!SignatureVerifies
<1> QED
  BY <1>4, <1>5, Zenon DEF SigInv

LEMMA SignedFields ==
    \A r, a, b, c, d :
        r = [scheme |-> a, seed |-> b, message |-> c, r |-> d]
        => r.scheme = a /\ r.seed = b /\ r.message = c /\ r.r = d
  OBVIOUS

LEMMA LastFields ==
    \A r, a, b, c, d :
        r = [scheme |-> a, seed |-> b, message |-> c, at |-> d]
        => r.scheme = a /\ r.seed = b /\ r.message = c /\ r.at = d
  OBVIOUS

\* Two cells and two behind them written, and read again.
LEMMA ReadsFourBack ==
    \A n \in Nat : \A m \in Mem(n) : \A a \in 0 .. n - 4 : \A s, t \in TwoCells :
        LET w == Sig!Write(Sig!Write(m, a, s), a + 2, t)
        IN  w \in Mem(n) /\ ReadsFour(w, a, s, t)
<1> SUFFICES ASSUME NEW n \in Nat, NEW m \in Mem(n), NEW a \in 0 .. n - 4,
                    NEW s \in TwoCells, NEW t \in TwoCells
             PROVE  LET w == Sig!Write(Sig!Write(m, a, s), a + 2, t)
                    IN  w \in Mem(n) /\ ReadsFour(w, a, s, t)
  BY Zenon
<1> DEFINE y == a + 2
           w1 == Sig!Write(m, a, s)
           w2 == Sig!Write(w1, y, t)
<1>1. /\ a \in 0 .. n - 2 /\ y \in 0 .. n - 2 /\ a \in Int /\ y \in Int /\ y = a + 2 /\ y + 1 = a + 3
      /\ a \in 0 .. n - 1 /\ a + 1 \in 0 .. n - 1 /\ a + 2 \in 0 .. n - 1 /\ a + 3 \in 0 .. n - 1
      /\ a # y /\ a # y + 1 /\ a + 1 # y /\ a + 1 # y + 1
  OBVIOUS
<1> HIDE DEF y
<1>2. Writes(w1, n, m, a, s) /\ w1 \in Mem(n)
  BY <1>1, TwoWritten, Zenon DEF Writes
<1> HIDE DEF w1
<1>3. Writes(w2, n, w1, y, t) /\ w2 \in Mem(n)
  BY <1>1, <1>2, TwoWritten, Zenon DEF Writes
<1> HIDE DEF w2
<1>4. /\ \A c \in 0 .. n - 1 : Cell(w1, c, m, a, s)
      /\ \A c \in 0 .. n - 1 : Cell(w2, c, w1, y, t)
  BY <1>1, <1>2, <1>3, WritesCells, Zenon
<1>5. w1[a] = s[1] /\ w1[a + 1] = s[2]
  BY <1>1, <1>4, Zenon DEF Cell
<1>6. w2[a] = s[1] /\ w2[a + 1] = s[2] /\ w2[a + 2] = t[1] /\ w2[a + 3] = t[2]
  BY <1>1, <1>4, <1>5, Zenon DEF Cell
<1>7. HasFour(w2, a, s, t)
  BY <1>6, Zenon DEF HasFour
<1>8. ReadsFour(w2, a, s, t)
  BY <1>3, <1>7, FourAreRead, Zenon
<1> QED
  BY <1>3, <1>8, Zenon DEF w2, w1, y

\* What is read of a secret key, its halves.
LEMMA HalvesOfKey ==
    \A n \in Nat : \A m \in Mem(n) : \A a \in 0 .. n - 4 : \A s, t \in TwoCells :
        ReadsFour(m, a, s, t) => Sig!Read(m, a, 2) = s /\ Sig!Read(m, a + 2, 2) = t
<1> SUFFICES ASSUME NEW n \in Nat, NEW m \in Mem(n), NEW a \in 0 .. n - 4,
                    NEW s \in TwoCells, NEW t \in TwoCells, ReadsFour(m, a, s, t)
             PROVE  Sig!Read(m, a, 2) = s /\ Sig!Read(m, a + 2, 2) = t
  BY Zenon
<1>1. HasFour(m, a, s, t)
  BY FourAreRead, Zenon
<1> DEFINE y == a + 2
<1>2. a \in 0 .. n - 2 /\ y \in 0 .. n - 2 /\ y = a + 2 /\ y + 1 = a + 3
  OBVIOUS
<1> HIDE DEF y
<1>3. m[a] = s[1] /\ m[a + 1] = s[2] /\ m[y] = t[1] /\ m[y + 1] = t[2]
  BY <1>1, <1>2, Zenon DEF HasFour
<1>4. Sig!Read(m, a, 2) = s /\ Sig!Read(m, y, 2) = t
  BY <1>2, <1>3, ReadTwo, Zenon
<1> QED
  BY <1>4, Zenon DEF y

\* The memory after a call that signs, and what was signed.
LEMMA SignatureIsMade ==
    ASSUME NEW c \in Callers, NEW m \in Mem(c.cells), NEW scheme \in Schemes, NEW x \in c.seeds,
           NEW place \in c.signPlaces,
           Sig!Read(m, place[2], 4) = Sig!Bytes32(<<x>>)
                    \o Sig!Multiple(Sig!Scalar(scheme, Sig!Joined(Sig!Bytes32(<<x>>))))
    PROVE  LET seed == Sig!Joined(Sig!Bytes32(<<x>>))
               text == m[place[3]]
               r == Sig!Nonce(scheme, Sig!Prefix(scheme, seed), text)
               pk == Sig!PublicKey(scheme, seed)
               R == Sig!Multiple(r)
               S2 == Sig!SecondHalf(Sig!HashRam(scheme, R, pk, text), Sig!Scalar(scheme, seed), r)
               w == Sig!Sign(m, scheme, place[1], place[2], place[3])
           IN  /\ w \in Mem(c.cells) /\ R \in TwoCells /\ S2 \in TwoCells
               /\ Sig!Read(w, place[1], 4) = R \o S2
               /\ seed \in Strs /\ Len(seed) = 4 /\ text \in Strs
<1> DEFINE n == c.cells
           g == place[1]
           k == place[2]
           spot == place[3]
           s == Sig!Bytes32(<<x>>)
           seed == Sig!Joined(s)
           text == m[spot]
           r == Sig!Nonce(scheme, Sig!Prefix(scheme, seed), text)
           pk == Sig!PublicKey(scheme, seed)
           R == Sig!Multiple(r)
           a == Sig!Scalar(scheme, seed)
           h == Sig!HashRam(scheme, R, pk, text)
           S2 == Sig!SecondHalf(h, a, r)
           w == Sig!Sign(m, scheme, g, k, spot)
<1>1. /\ n \in Nat /\ g \in 0 .. n - 4 /\ k \in 0 .. n - 4 /\ spot \in 0 .. n - 1 /\ x \in Letters
  BY CallersAre, Zenon
<1>2. m \in Mem(n) /\ ReadsFour(m, k, s, Sig!Multiple(a))
  BY Zenon DEF ReadsFour
<1> HIDE DEF n, g, k, spot
<1>3. text \in Strs
  <2> DEFINE V == Strs
  <2>1. m \in [0 .. n - 1 -> V]
    BY <1>2, Zenon DEF Mem
  <2> HIDE DEF V
  <2>2. m[spot] \in V
    BY <1>1, <2>1
  <2> QED
    BY <2>2, Zenon DEF V
<1>4. s \in TwoCells /\ seed \in Strs /\ Len(seed) = 4
  BY <1>1, SeedIs, Zenon
<1> HIDE DEF s
<1>5. pk = Sig!Multiple(a)
  BY Zenon DEF Sig!PublicKey
<1>6. seed = Sig!Joined(s)
  OBVIOUS
<1> HIDE DEF seed, text
<1>7. a \in Strs /\ r \in Strs
  BY <1>3, <1>4, ScalarsAre, NonceIs, Zenon
<1>8. r = Sig!Nonce(scheme, Sig!Prefix(scheme, seed), m[spot]) /\ a = Sig!Scalar(scheme, seed)
  BY Zenon DEF text
<1> HIDE DEF r, a
<1>9. R \in TwoCells /\ pk \in TwoCells
  BY <1>5, <1>7, MultiplesAre, Zenon
<1>10. h \in Strs
  BY <1>3, <1>5, <1>7, HashRamIs, Zenon
<1>11. S2 \in TwoCells
  BY <1>7, <1>10, SecondHalves, Zenon
<1>12. Sig!Read(m, k, 2) = s /\ Sig!Read(m, k + 2, 2) = pk
  BY <1>1, <1>2, <1>4, <1>5, <1>9, HalvesOfKey, Zenon
<1>13. h = Sig!HashRam(scheme, R, pk, m[spot])
  BY Zenon DEF text
<1> HIDE DEF h
<1>14. w = Sig!Write(Sig!Write(m, g, R), g + 2, S2)
  BY <1>6, <1>8, <1>12, <1>13, Zenon DEF Sig!Sign
<1> HIDE DEF R, S2, pk, w
<1>15. w \in Mem(n) /\ ReadsFour(w, g, R, S2)
  BY <1>1, <1>2, <1>9, <1>11, <1>14, ReadsFourBack, Zenon
<1>16. Sig!Read(w, g, 4) = R \o S2
  BY <1>15, Zenon DEF ReadsFour
<1> QED
  BY <1>3, <1>4, <1>9, <1>11, <1>15, <1>16, Zenon
     DEF n, g, k, spot, s, seed, text, r, pk, R, a, h, S2, w

\* The halves of a signature.
LEMMA SignatureHalves ==
    \A R, S2 \in TwoCells :
        <<(R \o S2)[1], (R \o S2)[2]>> = R /\ <<(R \o S2)[3], (R \o S2)[4]>> = S2
<1> SUFFICES ASSUME NEW R \in TwoCells, NEW S2 \in TwoCells
             PROVE  <<(R \o S2)[1], (R \o S2)[2]>> = R /\ <<(R \o S2)[3], (R \o S2)[4]>> = S2
  BY Zenon
<1>1. /\ (R \o S2)[1] = R[1] /\ (R \o S2)[2] = R[2]
      /\ (R \o S2)[3] = S2[1] /\ (R \o S2)[4] = S2[2]
  BY FourIs, Zenon
<1>2. ASSUME NEW b \in TwoCells
      PROVE  <<b[1], b[2]>> = b
  <2> DEFINE V == Strs
             x == b[1]
             y == b[2]
             d == <<x, y>>
  <2>1. b \in Seq(V) /\ Len(b) = 2 /\ x \in V /\ y \in V
    BY CellsOfTwo, Zenon DEF TwoCells
  <2>2. d \in TwoCells /\ d[1] = x /\ d[2] = y
    BY <2>1, TwoCellsAre, Zenon
  <2>3. d \in Seq(V) /\ Len(d) = 2
    BY <2>2, Zenon DEF TwoCells
  <2>4. b[1] = x /\ b[2] = y
    OBVIOUS
  <2> HIDE DEF V, d, x, y
  <2>5. \A i \in 1 .. Len(d) : i = 1 \/ i = 2
    BY <2>3
  <2>6. \A i \in 1 .. Len(d) : d[i] = b[i]
    BY <2>2, <2>4, <2>5, Zenon
  <2>7. d = b
    BY <2>1, <2>3, <2>6, SeqEqual
  <2> QED
    BY <2>7, Zenon DEF d, x, y
<1> QED
  BY <1>1, <1>2, Zenon

\* Eddsa's check, of what was signed.
ChecksIn(all, scheme, signature, public_key, message) ==
    LET R == <<signature[1], signature[2]>>
    IN  \E s \in all :
            /\ public_key = Sig!Multiple(Sig!Scalar(s.scheme, s.seed)) /\ R = Sig!Multiple(s.r)
            /\ <<signature[3], signature[4]>>
                   = Sig!SecondHalf(Sig!HashRam(scheme, R, public_key, message),
                                    Sig!Scalar(s.scheme, s.seed), s.r)

\* SignatureVerifies, of a caller c, its memory, what was signed and the last signature.
Verified(c, m, all, la) ==
    la # Sig!Nothing =>
        \A scheme \in c.schemes, message \in {<<text>> : text \in c.messages} \cup {la.message} :
            ChecksIn(all, scheme, Sig!Read(m, la.at, 4), Sig!PublicKey(la.scheme, la.seed), message)
                <=> scheme = la.scheme /\ message = la.message

LEMMA MakeSignatureStep ==
    ASSUME SigTyping, Sig!MakeSignature
    PROVE  SigInv'
<1> PICK scheme \in v1.schemes, x \in v1.seeds, place \in v1.signPlaces :
        LET seed == Sig!Joined(Sig!Bytes32(<<x>>))
            m == v2[place[3]]
            r == Sig!Nonce(scheme, Sig!Prefix(scheme, seed), m)
        IN  /\ Sig!IsSecretKey(scheme, place[2], x)
            /\ v2' = Sig!Sign(v2, scheme, place[1], place[2], place[3])
            /\ v4' = v4 \cup {[scheme |-> scheme, seed |-> seed, message |-> m, r |-> r]}
            /\ v5' = [scheme |-> scheme, seed |-> seed, message |-> m, at |-> place[1]]
  BY Zenon DEF Sig!MakeSignature
<1> DEFINE seed == Sig!Joined(Sig!Bytes32(<<x>>))
           m == v2[place[3]]
           r == Sig!Nonce(scheme, Sig!Prefix(scheme, seed), m)
           s == [scheme |-> scheme, seed |-> seed, message |-> m, r |-> r]
           pk == Sig!PublicKey(scheme, seed)
           R == Sig!Multiple(r)
           S2 == Sig!SecondHalf(Sig!HashRam(scheme, R, pk, m), Sig!Scalar(scheme, seed), r)
           w == Sig!Sign(v2, scheme, place[1], place[2], place[3])
<1>1. v1' = v1 /\ v3' = Sig!Nothing
  BY Zenon DEF Sig!MakeSignature
<1>2. v1 \in Callers /\ v2 \in Mem(v1.cells) /\ scheme \in Schemes /\ \A t \in v4 : IsSigned(t)
  BY CallersAre DEF SigTyping
<1>3. /\ w \in Mem(v1.cells) /\ R \in TwoCells /\ S2 \in TwoCells
      /\ Sig!Read(w, place[1], 4) = R \o S2
      /\ seed \in Strs /\ Len(seed) = 4 /\ m \in Strs
  <2>1. Sig!Read(v2, place[2], 4) = Sig!Bytes32(<<x>>)
            \o Sig!Multiple(Sig!Scalar(scheme, Sig!Joined(Sig!Bytes32(<<x>>))))
    BY Zenon DEF Sig!IsSecretKey
  <2> QED
    BY <1>2, <2>1, SignatureIsMade, Zenon
<1>4. v2' = w /\ v4' = v4 \cup {s}
      /\ v5' = [scheme |-> scheme, seed |-> seed, message |-> m, at |-> place[1]]
  BY Zenon
<1>5. s = [scheme |-> scheme, seed |-> seed, message |-> m, r |-> r]
  OBVIOUS
<1>6. r = Sig!Nonce(scheme, Sig!Prefix(scheme, seed), m) /\ R = Sig!Multiple(r)
      /\ pk = Sig!Multiple(Sig!Scalar(scheme, seed))
      /\ S2 = Sig!SecondHalf(Sig!HashRam(scheme, R, pk, m), Sig!Scalar(scheme, seed), r)
      /\ pk = Sig!PublicKey(scheme, seed)
  BY Zenon DEF Sig!PublicKey
<1> HIDE DEF seed, m, r, s, pk, R, S2, w
<1>7. s.scheme = scheme /\ s.seed = seed /\ s.message = m /\ s.r = r
  BY <1>5, SignedFields, Zenon
<1>8. v5'.scheme = scheme /\ v5'.seed = seed /\ v5'.message = m /\ v5'.at = place[1]
  <2> DEFINE q == [scheme |-> scheme, seed |-> seed, message |-> m, at |-> place[1]]
  <2>1. q.scheme = scheme /\ q.seed = seed /\ q.message = m /\ q.at = place[1]
    BY LastFields, Zenon
  <2>2. v5' = q
    BY <1>4, Zenon
  <2> HIDE DEF q
  <2> QED
    BY <2>1, <2>2, Zenon
<1>9. IsSigned(s)
  BY <1>2, <1>3, <1>5, <1>6, <1>7, Zenon DEF IsSigned
<1>10. s \in v4' /\ \A t \in v4' : IsSigned(t)
  BY <1>2, <1>4, <1>9, Zenon
<1>11. SigTyping'
  BY <1>1, <1>2, <1>3, <1>4, <1>10, Zenon DEF SigTyping
<1>12. ASSUME NEW sch \in Schemes, NEW text \in Strs
       PROVE  EquationHolds(v4', sch, R, S2, pk, text) <=> sch = scheme /\ text = m
  <2>1. IsSignature(s, R, S2, pk)
    BY <1>6, <1>7, Zenon DEF IsSignature
  <2>2. AllSigned(v4')
    BY <1>10, Zenon DEF AllSigned
  <2>3. EquationHolds(v4', sch, R, S2, pk, text) <=> sch = s.scheme /\ text = s.message
    <3> DEFINE all == v4'
    <3>1. s \in all /\ AllSigned(all)
      BY <1>10, <2>2, Zenon
    <3> HIDE DEF all
    <3>2. \A scheme1 \in Schemes : \A text1 \in Strs :
            EquationHolds(all, scheme1, R, S2, pk, text1) <=> scheme1 = s.scheme /\ text1 = s.message
      BY <2>1, <3>1, HoldsForOne, Zenon
    <3> QED
      BY <3>2, Zenon DEF all
  <2> QED
    BY <1>7, <2>3, Zenon
<1>13. Sig!SignatureVerifies'
  <2> DEFINE sig == Sig!Read(v2', v5'.at, 4)
             key == Sig!PublicKey(v5'.scheme, v5'.seed)
  <2>1. <<sig[1], sig[2]>> = R /\ <<sig[3], sig[4]>> = S2
    <3>1. sig = R \o S2
      BY <1>3, <1>4, <1>8, Zenon
    <3> HIDE DEF sig
    <3> QED
      BY <1>3, <3>1, SignatureHalves, Zenon
  <2>2. key = pk
    BY <1>6, <1>8, Zenon
  <2> HIDE DEF sig, key
  <2>3. ASSUME NEW sch \in v1'.schemes, NEW text \in {<<u>> : u \in v1'.messages} \cup {v5'.message}
        PROVE  ChecksIn(v4', sch, sig, key, text) <=> sch = v5'.scheme /\ text = v5'.message
    <3>1. sch \in Schemes
      BY <1>1, <1>2, CallersAre
    <3>2. text \in Strs
      <4>1. v1'.messages \subseteq Letters
        BY <1>1, <1>2, CallersAre, Zenon
      <4> QED
        BY <1>3, <1>8, <4>1, OneLetter, Zenon
    <3>3. ChecksIn(v4', sch, sig, key, text) <=> EquationHolds(v4', sch, R, S2, pk, text)
      BY <2>1, <2>2, Zenon DEF ChecksIn, EquationHolds
    <3> QED
      BY <1>8, <1>12, <3>1, <3>2, <3>3, Zenon
  <2> QED
    BY <2>3, Zenon DEF Sig!SignatureVerifies, Sig!Check, ChecksIn, sig, key
<1>14. Sig!PairIsOfSeed' /\ Sig!WritesInOrderElsewhere'
  BY <1>1, Zenon DEF Sig!PairIsOfSeed, Sig!WritesInOrderElsewhere
<1> QED
  BY <1>11, <1>13, <1>14, Zenon DEF SigInv

LEMMA SigInvStep == SigInv /\ [Sig!Next]_Sig!vars => SigInv'
<1> SUFFICES ASSUME SigInv, [Sig!Next]_Sig!vars
             PROVE  SigInv'
  OBVIOUS
<1>1. SigTyping
  BY Zenon DEF SigInv
<1>2. CASE Sig!MakePair
  BY <1>1, <1>2, MakePairStep
<1>3. CASE Sig!PutMessage
  BY <1>1, <1>3, PutMessageStep
<1>4. CASE Sig!MakeSignature
  BY <1>1, <1>4, MakeSignatureStep
<1>5. CASE UNCHANGED Sig!vars
  <2>1. v1' = v1 /\ v2' = v2 /\ v3' = v3 /\ v4' = v4 /\ v5' = v5
    BY <1>5, Zenon DEF Sig!vars
  <2>2. SigTyping'
    BY <1>1, <2>1, Zenon DEF SigTyping
  <2>3. Sig!PairIsOfSeed'
    BY <2>1, Zenon DEF SigInv, Sig!PairIsOfSeed
  <2>4. Sig!WritesInOrderElsewhere'
    BY <2>1, Zenon DEF SigInv, Sig!WritesInOrderElsewhere, Sig!WrittenInOrder
  <2>5. Sig!SignatureVerifies'
    <3>1. Verified(v1, v2, v4, v5)
      BY Zenon DEF SigInv, Sig!SignatureVerifies, Sig!Check, Verified, ChecksIn
    <3>2. Verified(v1', v2', v4', v5')
      BY <2>1, <3>1, Zenon
    <3> QED
      BY <3>2, Zenon DEF Sig!SignatureVerifies, Sig!Check, Verified, ChecksIn
  <2> QED
    BY <2>2, <2>3, <2>4, <2>5, Zenon DEF SigInv
<1> QED
  BY <1>2, <1>3, <1>4, <1>5, Zenon DEF Sig!Next

LEMMA SigInvHolds == SigInv => Sig!NonceUsedOnce
  BY NoncesDiffer, Zenon DEF SigInv, SigTyping, Sig!NonceUsedOnce

\* Whatever their seed overlaps, key pairs whose keys are apart are of it; a pair
\* is written in the order seed, secret key, public key, unless the public key
\* starts inside the second half of the secret key; and whatever the buffers of
\* a call overlap, signatures verify, under their own scheme, key and message
\* only, and no nonce is taken for two (monocypher.c:2220-2341,
\* monocypher-ed25519.c:414-495).
THEOREM SignaturesVerifyAlways == PartsSpec => []SignaturesVerify
<1> DEFINE I == part = "eddsa" => SigInv
<1>1. PartsInit => I
  BY CryptoPartInit, SigInvInit
<1>2. I /\ [PartsNext]_partsVars => I'
  BY CryptoPartStep, SigInvStep
<1>3. I => SignaturesVerify
  BY SigInvHolds, Zenon DEF SigInv, SignaturesVerify
<1> QED
  BY <1>1, <1>2, <1>3, PTL DEF PartsSpec
=============================================================================
