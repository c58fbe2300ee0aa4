----------------------------- MODULE ScalarModL ------------------------------
(***************************************************************************)
(* Arithmetic modulo the order L of the base point, as monocypher.c does   *)
(* it: numbers are N words, least first, products are 2N words, and every  *)
(* loop carries through a double word.  A number is a sequence.            *)
(***************************************************************************)
EXTENDS Integers, Sequences

CONSTANTS
    Word,    \* values of a word, 2^32
    N,       \* words of a number, 8
    L,       \* the order, as a number
    TopBit,  \* its highest bit, 252
    R,       \* constant of the Barrett reduction, N + 1 words
    K,       \* constant of the Montgomery reduction
    One,     \* 1 in Montgomery form
    Bits,    \* bits per word
    Wide, Factors, Keys  \* what callers pass

Number(n) == [1 .. n -> 0 .. Word - 1]

ModLAssumption ==
    /\ N \in Nat \ {0} /\ Word = 2 ^ Bits
    /\ \A x \in {L, K, One} : x \in Number(N)
    /\ R \in Number(N + 1)

Zeros(n) == [i \in 1 .. n |-> 0]
Low(x) == SubSeq(x, 1, N)
High(x) == SubSeq(x, N + 1, 2 * N)

\* The loop of all sums: carry and words of the terms, through a double word.
Carried(terms, carry) ==
    LET add[j \in Nat, c \in Nat, words \in Seq(Nat)] ==
            IF j > Len(terms) THEN <<c, words>>
            ELSE LET sum == (terms[j] + c) % (Word * Word)
                 IN  add[j + 1, sum \div Word, Append(words, sum % Word)]
    IN  add[1, carry, <<>>]

Sum(x, y, carry) == Carried([j \in 1 .. Len(x) |-> x[j] + y[j]], carry)

\* The words of -x - 1.
Not(x) == [i \in DOMAIN x |-> Word - 1 - x[i]]

\* A row of a product: f times n words of m is added to p after `at` words; the
\* carry is the word that follows, if it is kept.
AddRow(p, at, f, m, n, keep) ==
    LET sum == Carried([j \in 1 .. n |-> p[at + j] + f * m[j]], 0)
        row == IF keep THEN Append(sum[2], sum[1]) ELSE sum[2]
    IN  SubSeq(p, 1, at) \o row \o SubSeq(p, at + Len(row) + 1, Len(p))

\* p + a * b, where b has n words, and all carries are kept.
Rows(p, a, b, n) ==
    LET add[i \in Nat, q \in Seq(Nat)] ==
            IF i > Len(a) THEN q ELSE add[i + 1, AddRow(q, i - 1, a[i], b, n, TRUE)]
    IN  add[1, p]

Multiply(p, a, b) == Rows(p, a, b, N)

\* The lower N words of a product of N words.
MultiplyLow(a, b) ==
    LET add[i \in Nat, q \in Seq(Nat)] ==
            IF i > N THEN q ELSE add[i + 1, AddRow(q, i - 1, a[i], b, N - i + 1, FALSE)]
    IN  add[1, Zeros(N)]

IsAboveL(x) == Sum(x, Not(L), 1)[1]

RemoveL(x) ==
    LET above == IsAboveL(x)
    IN  Sum(x, IF above = 1 THEN Not(L) ELSE Zeros(N), above)[2]

\* Fault: the quotient is taken one word too low.
BarrettLow(x) == SubSeq(Rows(Zeros(3 * N + 1), R, x, 2 * N), 2 * N, 3 * N - 1)

\* The upper words of x * R: the quotient, or one less.
Barrett(x) == SubSeq(Rows(Zeros(3 * N + 1), R, x, 2 * N), 2 * N + 1, 3 * N)

ModL(x) == RemoveL(Sum(Low(x), Not(MultiplyLow(Barrett(x), L)), 1)[2])

MulAdd(a, b, c) == ModL(Multiply(c \o Zeros(N), a, b))

Redc(x) ==
    LET t == Multiply(Zeros(2 * N), MultiplyLow(Low(x), K), L)
    IN  RemoveL(High(Sum(t, x, 0)[2]))

AddXL(s, x) == AddRow(s, 0, x % 8, L, N, FALSE)

ScalarBit(x, i) == (x[i \div Bits + 1] \div 2 ^ (i % Bits)) % 2

\* crypto_eddsa_trim_scalar: a multiple of 8 with the bit below the top set.
Trim(x) ==
    [[x EXCEPT ![1] = @ - (@ % 8)] EXCEPT ![N] = (@ % (Word \div 4)) + Word \div 4]

LMinus2 == [L EXCEPT ![1] = @ - 2]

BlindSalt(inverse) == AddXL(inverse, (inverse[1] * 3) % 256)

\* crypto_x25519_inverse up to the ladder: the power L - 2 of the key in
\* Montgomery form, and a multiple of L that makes it a multiple of 8.
InverseScalar(key) ==
    LET scalar == ModL(Zeros(N) \o Trim(key))
        power[i \in Int, m \in Seq(Nat)] ==  \* from the highest bit down
            IF i < 0 THEN m
            ELSE LET square == Redc(Multiply(Zeros(2 * N), m, m))
                 IN  power[i - 1, IF ScalarBit(LMinus2, i) = 1
                                  THEN Redc(Multiply(Zeros(2 * N), square, scalar))
                                  ELSE square]
    IN  BlindSalt(Redc(power[TopBit, One] \o Zeros(N)))

-----------------------------------------------------------------------------
(* A caller *)

VARIABLES call, ret

vars == <<call, ret>>

Init == call = <<"none">> /\ ret = Zeros(N)

Free == call = <<"none">>

Reduce == Free /\ \E x \in Wide : call' = <<"reduce", x>> /\ ret' = ModL(x)

MultiplyAdd ==
    /\ Free
    /\ \E a, b, c \in Factors : call' = <<"mul_add", a, b, c>> /\ ret' = MulAdd(a, b, c)

Invert ==
    Free /\ \E key \in Keys : call' = <<"inverse", key>> /\ ret' = InverseScalar(key)

Return == ~Free /\ call' = <<"none">> /\ ret' = Zeros(N)

Next == Reduce \/ MultiplyAdd \/ Invert \/ Return
Spec == Init /\ [][Next]_vars

-----------------------------------------------------------------------------
(* Properties *)

Value(x) ==
    LET sum[i \in 0 .. Len(x)] == IF i = 0 THEN 0 ELSE sum[i - 1] * Word + x[Len(x) + 1 - i]
    IN  sum[Len(x)]

OrderOfBase == Value(L)

\* Every double word reduces to its remainder, with the quotient that Barrett's
\* estimate may miss by one, and so does a product and a sum (monocypher.c:1618).
ReducesModL ==
    /\ call[1] = "reduce" => Value(ret) = Value(call[2]) % OrderOfBase
    /\ call[1] = "mul_add" =>
        Value(ret) = (Value(call[2]) * Value(call[3]) + Value(call[4])) % OrderOfBase

\* A blind salt undoes its key, has no part in the small subgroup, and fits the
\* N words although 8 L is close to half of their range (monocypher.c:2845-2855).
InverseUndoesKey ==
    call[1] = "inverse" =>
        /\ (Value(ret) * Value(Trim(call[2]))) % OrderOfBase = 1
        /\ Value(ret) % 8 = 0 /\ Value(ret) < 8 * OrderOfBase

\* A Montgomery reduction divides by W^N, with W the range of a word, all that
\* its precondition admits; is_above_l says so (monocypher.c:1590, 2746).
RedcDivides ==
    call[1] = "reduce" =>
        LET x == Value(call[2])  low == Low(call[2])
        IN  /\ x < OrderOfBase * Word ^ N =>
                /\ Value(Redc(call[2])) < OrderOfBase
                /\ (Value(Redc(call[2])) * Word ^ N - x) % OrderOfBase = 0
            /\ (IsAboveL(low) = 1) = (Value(low) >= OrderOfBase)

\* The constants are what the reductions take them for: R = W^2N div L,
\* K L = -1 modulo W^N, and One = W^N modulo L (monocypher.c:1620, 2760, 2806).
ConstantsFit ==
    call = <<"none">> =>
        LET product == Rows(Zeros(2 * N + 1), R, L, N)
            rest == Sum(Not(SubSeq(product, 1, 2 * N)), Zeros(2 * N), 1)[2]
        IN  /\ product[2 * N + 1] = 0 /\ High(rest) = Zeros(N) /\ IsAboveL(Low(rest)) = 0
            /\ MultiplyLow(K, L) = Not(Zeros(N))
            /\ One = ModL([Zeros(2 * N) EXCEPT ![N + 1] = 1])

\* A double word reduces to what its halves give by one multiplication, below
\* L, and the scalar of a blind salt times its key is 1 (monocypher.c:1671, 2796).
ReductionsAgree ==
    /\ call[1] = "reduce" =>
        IsAboveL(ret) = 0 /\ ret = MulAdd(High(call[2]), One, Low(call[2]))
    /\ call[1] = "mul_add" => MulAdd(call[3], call[2], call[4]) = ret
    /\ call[1] = "inverse" => MulAdd(ret, Trim(call[2]), Zeros(N)) = [Zeros(N) EXCEPT ![1] = 1]
=============================================================================
