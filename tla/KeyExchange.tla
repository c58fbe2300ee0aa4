----------------------------- MODULE KeyExchange -----------------------------
(***************************************************************************)
(* Two parties that publish keys of any kind monocypher.c makes, and each  *)
(* the secret it shares with the other.                                    *)
(***************************************************************************)
EXTENDS X25519

CONSTANTS Parties, Secrets, Kinds, Blinds

ExchangeAssumption ==
    /\ Secrets \cup Blinds \subseteq 0 .. 2 ^ AllBits - 1
    /\ Kinds \subseteq {"clear", "small", "fast", "hidden", "signing"}
ASSUME ExchangeAssumption

VARIABLES
    secret_key,  \* of each party
    published,   \* the kind of its key, and what the other receives
    shared,      \* the secret it derived
    blinded      \* the key it has sent away to be multiplied, if any

exchangeVars == <<secret_key, published, shared, blinded>>

None == -2
Tweaks == [sign : {0, 1}, pad : {0, 3}]

ExchangeInit ==
    /\ secret_key = [p \in Parties |-> None]
    /\ published = [p \in Parties |-> [kind |-> "none"]]
    /\ shared = [p \in Parties |-> None]
    /\ blinded = [p \in Parties |-> <<>>]

Other(p) == CHOOSE q \in Parties : q # p

Publish(p, kind, s, key) ==
    /\ kind \in Kinds
    /\ secret_key' = [secret_key EXCEPT ![p] = s]
    /\ published' = [published EXCEPT ![p] = [kind |-> kind, key |-> key]]
    /\ UNCHANGED <<shared, blinded>>

PublishClear(p, s) == Publish(p, "clear", s, PublicKey(s))
PublishSmall(p, s) == Publish(p, "small", s, DirtySmall(s))
PublishFast(p, s, key) == Publish(p, "fast", s, key)

\* crypto_elligator_key_pair takes seeds until one has a key with a representative.
PublishHidden(p, s, key) ==
    \E tweak \in Tweaks : \E hidden \in {ElligatorRev(key, tweak)} :
        hidden.ok /\ Publish(p, "hidden", s, hidden.hidden)

PublishSigning(p, s) == Publish(p, "signing", s, ScalarBase(TrimScalar(s)).y)

Start(p) ==
    /\ secret_key[p] = None
    /\ \E s \in Secrets :
        \/ PublishClear(p, s) \/ PublishSmall(p, s) \/ PublishSigning(p, s)
        \/ \E key \in {DirtyFast(s)} : PublishFast(p, s, key) \/ PublishHidden(p, s, key)

\* What a party takes a published key for.
Received(key) ==
    IF key.kind = "hidden" THEN ElligatorMap(key.key)
    ELSE IF key.kind = "signing" THEN ToX25519(key.key) ELSE key.key

Derive(p) ==
    /\ secret_key[p] # None /\ published[Other(p)].kind # "none" /\ shared[p] = None
    /\ shared' = [shared EXCEPT ![p] = X25519(secret_key[p], Received(published[Other(p)]))]
    /\ UNCHANGED <<secret_key, published, blinded>>

\* A key is multiplied by the inverse of a secret, to be multiplied by the
\* secret later.
Blind(p) ==
    /\ published[Other(p)].kind # "none" /\ blinded[p] = <<>>
    /\ \E s \in Blinds :
        blinded' = [blinded EXCEPT ![p] = <<s, X25519Inverse(s, Received(published[Other(p)]))>>]
    /\ UNCHANGED <<secret_key, published, shared>>

ExchangeNext == \E p \in Parties : Start(p) \/ Derive(p) \/ Blind(p)

-----------------------------------------------------------------------------
(* Properties *)

\* Two parties derive one secret, whatever kind of key each published
\* (monocypher.c:1491-1559, 2449-2562).
SharedSecretsAgree ==
    \A p, q \in Parties :
        shared[p] # None =>
            /\ shared[p] \in 0 .. P - 1
            /\ shared[q] # None => shared[p] = shared[q]

\* The two ways to make a key with a part of small order make the same one
\* (monocypher.c:2449-2562).
DirtyKeysAgree ==
    \A p \in Parties :
        /\ published[p].kind = "small" => published[p].key = DirtyFast(secret_key[p])
        /\ published[p].kind = "fast" => published[p].key = DirtySmall(secret_key[p])

\* A blinded key, multiplied by the secret of its blind, is the key without its
\* part of small order, for every secret (monocypher.c:2796-2859).
BlindIsUndone ==
    \A p \in Parties :
        blinded[p] # <<>> =>
            X25519(blinded[p][1], blinded[p][2])
                = ToX25519(ScalarBase(TrimScalar(secret_key[Other(p)])).y)
=============================================================================
