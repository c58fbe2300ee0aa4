-------------------------------- MODULE Eddsa --------------------------------
(***************************************************************************)
(* Keys and signatures of monocypher.c and monocypher-ed25519.c in a       *)
(* memory of cells of 16 bytes, where the buffers of a call may overlap.   *)
(* The bytes are symbolic, as sequences of strings: hashes and multiples   *)
(* of the base point are one-to-one, and the equation of a signature holds *)
(* for the terms it was made of (Edwards has its arithmetic).              *)
(***************************************************************************)
EXTENDS Integers, Sequences, FiniteSets

\* A caller has a memory of some cells, seeds, messages and schemes, the places
\* where secret_key, public_key and seed are, <<k, p, e>>, and where signature,
\* secret_key and message are, <<g, k, m>>, and a bound of the model on its calls.
CONSTANT Callers

EddsaAssumption ==
    \A c \in Callers :
        /\ c.cells \in Nat /\ c.maxCalls \in Nat
        /\ c.schemes \subseteq {"blake2b", "ed25519", "ed25519ph"}
        /\ c.keyPlaces \subseteq (0 .. c.cells - 4) \X (0 .. c.cells - 2) \X (0 .. c.cells - 2)
        /\ c.signPlaces \subseteq (0 .. c.cells - 4) \X (0 .. c.cells - 4) \X (0 .. c.cells - 1)

VARIABLES
    caller,
    mem,    \* the cells
    pair,   \* the last pair made: scheme, seed, places, and the memory before
    signed, \* what was signed: scheme, seed, message, nonce and hash
    last,   \* the last signature: its place and the memory before
    calls

vars == <<caller, mem, pair, signed, last, calls>>

-----------------------------------------------------------------------------
(* Bytes *)

Term(name, bytes) == <<name>> \o bytes \o <<".">>
Half(bytes, n) == Append(bytes, IF n = 0 THEN "lo" ELSE "hi")
Bytes32(bytes) == <<Half(bytes, 0), Half(bytes, 1)>>
Zeros == <<<<"0">>, <<"0">>>>

\* n cells from address a, and all bytes of them.
Read(m, a, n) == [i \in 1 .. n |-> m[a + i - 1]]
Joined(cells) ==
    LET join[i \in 0 .. Len(cells)] == IF i = 0 THEN <<>> ELSE join[i - 1] \o cells[i]
    IN  join[Len(cells)]

Write(m, a, cells) ==
    [c \in DOMAIN m |-> IF c >= a /\ c < a + Len(cells) THEN cells[c - a + 1] ELSE m[c]]

\* COPY of n cells, lowest first.
Copy(m, to, from, n) ==
    LET copied[i \in 0 .. n] ==
            IF i = 0 THEN m
            ELSE [copied[i - 1] EXCEPT ![to + i - 1] = copied[i - 1][from + i - 1]]
    IN  copied[n]

-----------------------------------------------------------------------------
(* Key pairs *)

Hash(scheme) == IF scheme = "blake2b" THEN "blake2b" ELSE "sha512"
Scalar(scheme, seed) == Term("scalar", <<Hash(scheme)>> \o seed)
Prefix(scheme, seed) == Term("prefix", <<Hash(scheme)>> \o seed)
Multiple(scalar) == Bytes32(Term("B", scalar))

\* crypto_eddsa_key_pair writes the seed, the secret key and the public key.
EddsaKeyPair(m, scheme, k, p, e) ==
    LET a == Read(m, e, 2)
        pk == Multiple(Scalar(scheme, Joined(a)))
        written == Write(Write(m, e, Zeros), k, a)
    IN  Copy(Write(written, k + 2, pk), p, k + 2, 2)

\* crypto_ed25519_key_pair writes the public key first, and copies it.
Ed25519KeyPair(m, scheme, k, p, e) ==
    LET a == Read(m, e, 2)
        pk == Multiple(Scalar(scheme, Joined(a)))
        written == Write(Write(m, e, Zeros), k, a)
    IN  Copy(Write(written, p, pk), k + 2, p, 2)

-----------------------------------------------------------------------------
(* Signatures *)

Domain(scheme) == IF scheme = "ed25519ph" THEN <<"SigEd25519">> ELSE <<>>

\* Fault: the domain is left out of the hash that gives the nonce.
NonceWithoutDomain(scheme, prefix, message) == Term(Hash(scheme), prefix \o message)

\* hash_reduce of domain, prefix and message.
Nonce(scheme, prefix, message) == Term(Hash(scheme), Domain(scheme) \o prefix \o message)

HashRam(scheme, R, public_key, message) ==
    Term(Hash(scheme), Domain(scheme) \o Joined(R) \o Joined(public_key) \o message)

\* S = h a + r.
SecondHalf(h, a, r) == Bytes32(Term("S", h \o a \o r))

\* The memory that a call leaves: R is kept aside until all was read.
Sign(m, scheme, g, k, at) ==
    LET seed == Joined(Read(m, k, 2))
        r == Nonce(scheme, Prefix(scheme, seed), m[at])
        h == HashRam(scheme, Multiple(r), Read(m, k + 2, 2), m[at])
    IN  Write(Write(m, g, Multiple(r)), g + 2, SecondHalf(h, Scalar(scheme, seed), r))

\* The check of a signature by a key, the equation [S] B = R + [h] A of whose
\* terms holds exactly if S was made of them.
Check(scheme, signature, public_key, message) ==
    LET R == <<signature[1], signature[2]>>
    IN  \E s \in signed :
            /\ public_key = Multiple(Scalar(s.scheme, s.seed)) /\ R = Multiple(s.r)
            /\ <<signature[3], signature[4]>>
                   = SecondHalf(HashRam(scheme, R, public_key, message),
                                Scalar(s.scheme, s.seed), s.r)

-----------------------------------------------------------------------------
(* A caller *)

Nothing == [scheme |-> "none"]

Init ==
    /\ caller \in Callers
    /\ mem = [c \in 0 .. caller.cells - 1 |-> <<"free">>]
    /\ pair = Nothing /\ signed = {} /\ last = Nothing /\ calls = 0

Call == calls < caller.maxCalls /\ calls' = calls + 1

MakePair ==
    /\ Call
    /\ \E scheme \in caller.schemes \ {"ed25519ph"}, s \in caller.seeds, place \in caller.keyPlaces :
        LET e == place[3]
            before == Write(mem, e, Bytes32(<<s>>))
        IN  /\ pair' = [scheme |-> scheme, seed |-> Joined(Bytes32(<<s>>)), place |-> place,
                        before |-> before]
            /\ mem' = IF scheme = "blake2b" THEN EddsaKeyPair(before, scheme, place[1], place[2], e)
                      ELSE Ed25519KeyPair(before, scheme, place[1], place[2], e)
    /\ last' = Nothing
    /\ UNCHANGED <<caller, signed>>

PutMessage ==
    /\ calls < caller.maxCalls
    /\ \E text \in caller.messages, place \in caller.signPlaces :
        mem' = [mem EXCEPT ![place[3]] = <<text>>]
    /\ pair' = Nothing /\ last' = Nothing
    /\ UNCHANGED <<caller, signed, calls>>

\* The secret key of a seed is at k.
IsSecretKey(scheme, k, s) ==
    LET seed == Bytes32(<<s>>)
    IN  Read(mem, k, 4) = seed \o Multiple(Scalar(scheme, Joined(seed)))

MakeSignature ==
    /\ Call
    /\ \E scheme \in caller.schemes, s \in caller.seeds, place \in caller.signPlaces :
        LET seed == Joined(Bytes32(<<s>>))
            m == mem[place[3]]
            r == Nonce(scheme, Prefix(scheme, seed), m)
        IN  /\ IsSecretKey(scheme, place[2], s)
            /\ mem' = Sign(mem, scheme, place[1], place[2], place[3])
            /\ signed' = signed \cup {[scheme |-> scheme, seed |-> seed, message |-> m, r |-> r]}
            /\ last' = [scheme |-> scheme, seed |-> seed, message |-> m, at |-> place[1]]
    /\ pair' = Nothing
    /\ UNCHANGED caller

Next == MakePair \/ PutMessage \/ MakeSignature
Spec == Init /\ [][Next]_vars

-----------------------------------------------------------------------------
(* Properties *)

Disjoint(a, n, b, k) == a + n <= b \/ b + k <= a

PublicKey(scheme, seed) == Multiple(Scalar(scheme, seed))

\* Whatever a seed overlaps, a pair whose keys are apart is made of it, and no
\* seed is left outside the secret key (monocypher.c:2220-2235, monocypher-ed25519.c:414-425).
PairIsOfSeed ==
    pair # Nothing =>
        LET k == pair.place[1]  p == pair.place[2]  e == pair.place[3]
            pk == PublicKey(pair.scheme, pair.seed)
        IN  Disjoint(k, 4, p, 2) =>
                /\ Read(mem, k, 4) = Read(pair.before, e, 2) \o pk
                /\ Read(mem, p, 2) = pk
                /\ \A c \in e .. e + 1 :
                    mem[c] = pair.before[c] => c \in k .. k + 1

\* The memory is what writing the seed, the secret key and the public key, one
\* after the other, would leave.
WrittenInOrder ==
    LET k == pair.place[1]  p == pair.place[2]  e == pair.place[3]
        pk == PublicKey(pair.scheme, pair.seed)
    IN  mem = Write(Write(Write(pair.before, e, Zeros), k, Read(pair.before, e, 2) \o pk), p, pk)

\* What monocypher.c:2222-2225 says: "To allow overlaps, observable writes happen
\* in this order", seed, secret key, public key.  It is not so for a public key
\* that starts inside the second half of the secret key: the COPY of line 2233
\* reads there what it wrote.
WritesInOrder == pair # Nothing /\ pair.scheme = "blake2b" => WrittenInOrder

\* At every other place of the three buffers it is so.
WritesInOrderElsewhere ==
    pair # Nothing /\ pair.scheme = "blake2b" /\ pair.place[2] # pair.place[1] + 3
        => WrittenInOrder

\* A signature verifies under its own scheme, key and message, whatever it was
\* written over, and under no other scheme or message (monocypher.c:2307-2341,
\* monocypher-ed25519.c:444-495).
SignatureVerifies ==
    last # Nothing =>
        \A scheme \in caller.schemes,
           message \in {<<text>> : text \in caller.messages} \cup {last.message} :
            Check(scheme, Read(mem, last.at, 4), PublicKey(last.scheme, last.seed), message)
                <=> scheme = last.scheme /\ message = last.message

\* A nonce is taken for one scheme, key and message only: two messages signed
\* with one nonce give the key away (monocypher.c:2256-2283).
NonceUsedOnce == \A s, t \in signed : s.r = t.r => s = t
=============================================================================
