---------------------------- MODULE CryptoVerify -----------------------------
(***************************************************************************)
(* crypto_monocypher_verify: the arguments, the check of the signature,    *)
(* and the verdict that is taken twice against a glitch.  A glitch makes   *)
(* one comparison go the other way.                                        *)
(***************************************************************************)
EXTENDS Integers, FiniteSets

CONSTANTS
    BootOk,      \* BOOT_OK of the boot loader's headers
    MaxGlitches  \* bound of the model on glitches in one call

\* The two words of the verdict start at zero, which must not be BOOT_OK.
VerifyAssumption == BootOk \in Nat \ {0} /\ MaxGlitches \in Nat

VARIABLES
    pc,
    args,    \* which pointers are NULL, the length, and whether the signature is good
    s1, s2,
    glitches,
    ret

vars == <<pc, args, s1, s2, glitches, ret>>

Arguments == [msg : BOOLEAN, len : {0, 1}, sig : BOOLEAN, pubkey : BOOLEAN, good : BOOLEAN]

Init ==
    /\ pc = "idle" /\ args \in Arguments
    /\ s1 = 0 /\ s2 = 0 /\ glitches = 0 /\ ret = "none"

Refuses(a) == (~a.msg /\ a.len > 0) \/ ~a.sig \/ ~a.pubkey

Verify ==
    /\ pc = "idle"
    /\ args' \in Arguments
    /\ IF Refuses(args') THEN pc' = "returned" /\ ret' = "INVALID_ARG"
       ELSE pc' = "first" /\ ret' = "none"
    /\ s1' = 0 /\ s2' = 0 /\ glitches' = 0

\* All comparisons hold, as far as they are not turned by a glitch.
Decide(comparisons, outcome) ==
    \E turned \in SUBSET DOMAIN comparisons :
        /\ glitches' = glitches + Cardinality(turned)
        /\ glitches' <= MaxGlitches
        /\ outcome = (\A i \in DOMAIN comparisons : comparisons[i] # (i \in turned))

First ==
    /\ pc = "first" /\ pc' = "second"
    /\ s1' \in {s1, BootOk} /\ Decide(<<args.good>>, s1' = BootOk)
    /\ UNCHANGED <<args, s2, ret>>

\* Fault: the second look is at the first word only.
SecondWordOnly == <<s1 = BootOk>>

SecondLook == <<s1 = BootOk, args.good>>

Second ==
    /\ pc = "second" /\ pc' = "last"
    /\ s2' \in {s2, BootOk} /\ Decide(SecondLook, s2' = BootOk)
    /\ UNCHANGED <<args, s1, ret>>

Last ==
    /\ pc = "last" /\ pc' = "returned"
    /\ ret' \in {"OK", "VERIFY"}
    /\ Decide(<<s1 = BootOk, s2 = BootOk, s1 = s2>>, ret' = "OK")
    /\ UNCHANGED <<args, s1, s2>>

Return == pc = "returned" /\ pc' = "idle" /\ UNCHANGED <<args, s1, s2, glitches, ret>>

Next == Verify \/ First \/ Second \/ Last \/ Return
Spec == Init /\ [][Next]_vars

-----------------------------------------------------------------------------
(* Properties *)

\* Undisturbed, the verdict is that of the check, and the empty message is one
\* (crypto_monocypher.c:55-79).
VerdictIsCheck ==
    pc = "returned" /\ glitches = 0 =>
        ret = IF ~args.sig \/ ~args.pubkey \/ (~args.msg /\ args.len > 0) THEN "INVALID_ARG"
              ELSE IF args.good THEN "OK" ELSE "VERIFY"

\* One comparison gone wrong does not make a bad signature good, wherever it
\* happens (crypto_monocypher.c:59-78).
OneGlitchRejects == pc = "returned" /\ glitches <= 1 /\ ret = "OK" => args.good
=============================================================================
