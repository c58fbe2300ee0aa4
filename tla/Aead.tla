-------------------------------- MODULE Aead ---------------------------------
(***************************************************************************)
(* Incremental authenticated encryption of monocypher.c: a writer and a    *)
(* reader whose contexts change keys with every message, and a transport   *)
(* between them that loses, repeats, reorders and damages messages.        *)
(*                                                                         *)
(* An authenticator is represented by its key and the bytes that lock_auth *)
(* passes to Poly1305.  The buffers of plain and cipher text, and of the   *)
(* authenticator, are a message of the transport.                          *)
(***************************************************************************)
EXTENDS Chacha20, SequencesExt

CONSTANTS
    MacBlock,     \* bytes per block of the authenticator, 16
    Ads, Texts,   \* lengths of what callers pass
    MaxMessages   \* bound of the model on a session

\* The blocks of a text, and the one before it, have counters of their own: no
\* text is as long as 2^64 blocks.
AeadAssumption ==
    /\ ChachaAssumption
    /\ MacBlock \in Nat \ {0} /\ BlockBytes % 2 = 0
    /\ Ads \subseteq Nat /\ Texts \subseteq Nat /\ MaxMessages \in Nat
    /\ \A t \in Texts : t <= BlockBytes * (CtrRange * CtrRange - 1)

VARIABLES
    writer, reader,  \* contexts: key, nonce and counter
    sent, got,       \* what was written, and what was read
    net,             \* messages on their way: ad, text and mac
    lost,            \* has the transport lost a message?
    used             \* the bytes of key stream that the writer has used

vars == <<writer, reader, sent, got, net, lost, used>>

-----------------------------------------------------------------------------
(* The functions of the library *)

Key == <<Plain(1)>>

InitX == [key |-> HKey(Key, "n16"), nonce |-> "n8", counter |-> 0]
InitDjb == [key |-> Key, nonce |-> "n8", counter |-> 0]
InitIetf == [key |-> Key, nonce |-> "n8", counter |-> IetfCtr(<<2>>, 0)]

Gap(i) == NoText((MacBlock - (i % MacBlock)) % MacBlock)

\* lock_auth: both parts are padded to blocks, and their sizes end the input.
LockAuth(authKey, ad, text) ==
    <<authKey, ad \o Gap(Len(ad)) \o text \o Gap(Len(text))
                  \o <<Plain(Len(ad)), Plain(Len(text))>> >>

AuthKey(ctx) == Djb(NoText(BlockBytes), ctx.key, ctx.nonce, ctx.counter)

FirstHalf(key) == SubSeq(key, 1, BlockBytes \div 2)
SecondHalf(key) == SubSeq(key, BlockBytes \div 2 + 1, BlockBytes)

\* The block at which the text begins.
TextCounter(ctx) == ctx.counter + 1

Crypt(ctx, text) == Djb(text, ctx.key, ctx.nonce, TextCounter(ctx))

\* The second half of the block that gives the authenticator's key.
Rekeyed(ctx) == [ctx EXCEPT !.key = SecondHalf(AuthKey(ctx))]

\* What crypto_aead_write puts out.
Locked(ctx, ad, text) ==
    LET cipher == Crypt(ctx, text)
    IN  [ad |-> ad, text |-> cipher,
         mac |-> LockAuth(FirstHalf(AuthKey(ctx)), ad, cipher)]

Matches(ctx, m) == m.mac = LockAuth(FirstHalf(AuthKey(ctx)), m.ad, m.text)

-----------------------------------------------------------------------------
(* A session *)

TextBytes(i, n) == [j \in 1 .. n |-> Plain(10 * i + j)]

Init ==
    /\ writer \in {InitX, InitDjb, InitIetf} /\ reader = writer
    /\ sent = <<>> /\ got = <<>> /\ net = {} /\ lost = FALSE /\ used = <<>>

\* crypto_aead_write.
Write ==
    /\ Len(sent) < MaxMessages
    /\ \E a \in Ads, t \in Texts :
        LET ad == TextBytes(1, a)  text == TextBytes(Len(sent) + 2, t)
            m == Locked(writer, ad, text)
            streamOf(bytes) == [j \in DOMAIN bytes |-> bytes[j][2]]
        IN  /\ sent' = Append(sent, [ad |-> ad, text |-> text])
            /\ net' = net \cup {m}
            /\ used' = used \o streamOf(AuthKey(writer)) \o streamOf(m.text)
    /\ writer' = Rekeyed(writer)
    /\ UNCHANGED <<reader, got, lost>>

\* Fault: a refused message wipes the context, as crypto_aead_unlock wipes its own.
ReadWipes(m) ==
    /\ IF Matches(reader, m)
       THEN got' = Append(got, [ad |-> m.ad, text |-> Crypt(reader, m.text)])
            /\ reader' = Rekeyed(reader)
       ELSE reader' = [reader EXCEPT !.key = <<>>] /\ UNCHANGED got
    /\ UNCHANGED <<writer, sent, net, lost, used>>

\* crypto_aead_read.
Read(m) ==
    /\ \/ /\ Matches(reader, m)
          /\ got' = Append(got, [ad |-> m.ad, text |-> Crypt(reader, m.text)])
          /\ reader' = Rekeyed(reader)
       \/ ~Matches(reader, m) /\ UNCHANGED <<reader, got>>
    /\ UNCHANGED <<writer, sent, net, lost, used>>

\* A message stays on its way: it may be read again, and in any order.
Deliver == \E m \in net : Read(m)

\* A byte of one part read as one of the other, or the last byte cut off.
Damage(m) ==
    {d \in {[m EXCEPT !.ad = Append(@, Head(m.text \o NoText(1))),
                      !.text = IF @ = <<>> THEN @ ELSE Tail(@)],
            [m EXCEPT !.text = IF m.ad = <<>> THEN @ ELSE <<Last(m.ad)>> \o @,
                      !.ad = IF @ = <<>> THEN @ ELSE Front(@)],
            [m EXCEPT !.text = IF @ = <<>> THEN @ ELSE Front(@)]} : d # m}

DeliverDamaged == \E m \in net : \E d \in Damage(m) : Read(d)

Lose ==
    /\ \E m \in net : net' = net \ {m}
    /\ lost' = TRUE
    /\ UNCHANGED <<writer, reader, sent, got, used>>

Next == Write \/ Deliver \/ DeliverDamaged \/ Lose

Spec == Init /\ [][Next]_vars

-----------------------------------------------------------------------------
(* Properties *)

\* The reader gets what was written, in the order in which it was written,
\* each message once, with its additional data, and nothing that was damaged
\* (monocypher.c:2919).
ReadIsPrefixOfWritten == IsPrefix(got, sent)

\* Over a session no byte of key stream serves twice: not for two texts, nor
\* as a key and for a text (monocypher.c:2906).
SessionKeyStreamUsedOnce ==
    \A i, j \in DOMAIN used : used[i] = used[j] => i = j

\* A refused message leaves the reader as it was: whatever else arrived before
\* it, the next message can be read when it comes (monocypher.c:2928).
ReaderCanGoOn ==
    ~lost /\ Len(got) < Len(sent) =>
        \E m \in net : Matches(reader, m) /\ Crypt(reader, m.text) = sent[Len(got) + 1].text
=============================================================================
