----------------------------- MODULE EspConfirm -----------------------------
(***************************************************************************)
(* The boot confirmation of drivers/rtc/esp_rtc_mem/confirm.c: the OS      *)
(* leaves the nonce it was booted with in LP_RAM, the next boot checks it, *)
(* consumes it, and no other boot may.                                     *)
(*                                                                         *)
(* The nonce cell has 64 bits and the core 32, so every store is two, in   *)
(* the order the compiler chooses, and a reset may fall between them.      *)
(* LP_RAM may be faulty: a store may be lost, which is why the code reads  *)
(* back.  The linker script puts the first words of .noinit at the same    *)
(* address (esp32c6_stage1.ld:31, hardware.json rtc_ram_base).             *)
(***************************************************************************)
EXTENDS Integers

CONSTANTS
    Nonces,  \* the nonces boot_main draws, as pairs of halves
    Junk,    \* what LP_RAM holds after power was lost
    State,   \* what the core keeps in .noinit
    NULL

Half == {"lo", "hi"}
Zero == [h \in Half |-> 0]
HalfWords == {n[h] : n \in Nonces, h \in Half}

\* A nonce is drawn from 64 random bits: no half of one is zero, and two of
\* them differ in both halves (but for a probability below 2^-31).
NonceAssumption ==
    /\ \A n \in Nonces : n = [h \in Half |-> n[h]]
    /\ \A n \in Nonces, h \in Half : n[h] # 0
    /\ \A m, n \in Nonces, h \in Half : m # n => m[h] # n[h]
    /\ {Junk, State} \cap HalfWords = {}
    /\ NULL \notin Nonces

VARIABLES
    cell,      \* the first 64 bits of LP_RAM
    at,        \* who runs: "off", "boot_main" or "os"
    expected,  \* the nonce of the last boot, which the core keeps in flash
    used,      \* the nonces drawn so far
    op,        \* the store sequence under way
    left,      \* the halves it has still to store
    result,    \* what the last call answered
    \* The rest is not in the code; the properties need it.
    live,      \* the nonce of a confirmation that nobody has consumed yet
    kept       \* what each half of .noinit was last set to, NULL if nothing

vars == <<cell, at, expected, used, op, left, result, live, kept>>

Init ==
    /\ cell \in [Half -> {0, Junk}]
    /\ at = "off" /\ expected = NULL /\ used = {}
    /\ op = "none" /\ left = {} /\ result = "none"
    /\ live = NULL /\ kept = [h \in Half |-> NULL]

Idle == op = "none"

-----------------------------------------------------------------------------
(* The driver. *)

Begin(f) == op' = f /\ left' = Half

\* Fault: only the low word is compared.
MatchesLow == cell["lo"] = expected["lo"]

Matches == cell = expected

\* esp_confirm_check_ok as far as the comparison: on a mismatch the cell stays
\* as it is.
CheckOk ==
    /\ at = "boot_main" /\ Idle /\ expected # NULL
    /\ \/ Matches /\ Begin("check") /\ result' = "pending"
       \/ ~Matches /\ result' = "false" /\ UNCHANGED <<op, left>>
    /\ UNCHANGED <<cell, at, expected, used, live, kept>>

\* esp_confirm_clear as far as its store.
Clear ==
    /\ at = "boot_main" /\ Idle
    /\ Begin("clear") /\ result' = "pending"
    /\ UNCHANGED <<cell, at, expected, used, live, kept>>

\* Storing one half of zero; the store may be lost.
ZeroHalf ==
    /\ op \in {"check", "clear"}
    /\ \E h \in left :
        /\ left' = left \ {h}
        /\ cell' \in {cell, [cell EXCEPT ![h] = 0]}
    /\ UNCHANGED <<at, expected, used, op, result, live, kept>>

\* Fault: the value just written is assumed.
ReadBackNothing == TRUE

\* The read-after-write check of both functions.
ReadBack == cell = Zero

\* Both halves have been stored.
AllStored == left = {}

\* The call returns: true or BOOT_OK only if the cell reads zero.
Return ==
    /\ op \in {"check", "clear"} /\ AllStored
    /\ \/ /\ ReadBack
          /\ result' = IF op = "check" THEN "true" ELSE "cleared"
          /\ live' = NULL
       \/ /\ ~ReadBack
          /\ result' = IF op = "check" THEN "false" ELSE "error"
          /\ live' = live
    /\ op' = "none"
    /\ UNCHANGED <<cell, at, expected, used, left, kept>>

-----------------------------------------------------------------------------
(* Its surroundings: boot_main, the OS and the resets. *)

PowerUp ==
    /\ at = "off"
    /\ at' = "boot_main" /\ result' = "none"
    /\ UNCHANGED <<cell, expected, used, op, left, live, kept>>

\* boot_main draws a nonce, keeps it in flash and hands it to the OS.
BootOs ==
    /\ at = "boot_main" /\ Idle
    /\ \E n \in Nonces \ used : expected' = n /\ used' = used \cup {n}
    /\ at' = "os"
    /\ UNCHANGED <<cell, op, left, result, live, kept>>

\* The core, or the OS, keeps a value in .noinit.
KeepState ==
    /\ at # "off" /\ Idle
    /\ \E h \in Half :
        /\ cell' = [cell EXCEPT ![h] = State]
        /\ kept' = [kept EXCEPT ![h] = State]
    /\ UNCHANGED <<at, expected, used, op, left, result, live>>

\* The OS confirms: it stores the halves of its nonce.
Confirm ==
    /\ at = "os" /\ Idle
    /\ Begin("confirm")
    /\ UNCHANGED <<cell, at, expected, used, result, live, kept>>

ConfirmHalf ==
    /\ op = "confirm"
    /\ \E h \in left :
        /\ cell' = [cell EXCEPT ![h] = expected[h]]
        /\ left' = left \ {h}
        /\ op' = IF left' = {} THEN "none" ELSE op
    /\ live' = IF left' = {} THEN expected ELSE live
    /\ UNCHANGED <<at, expected, used, result, kept>>

\* A warm reset keeps LP_RAM as it is, in the middle of a call too.
WarmReset ==
    /\ at # "off"
    /\ at' = "off" /\ op' = "none" /\ left' = {} /\ result' = "none"
    /\ UNCHANGED <<cell, expected, used, live, kept>>

PowerLoss ==
    /\ cell' \in [Half -> {0, Junk}]
    /\ at' = "off" /\ op' = "none" /\ left' = {} /\ result' = "none"
    /\ live' = NULL /\ kept' = [h \in Half |-> NULL]
    /\ UNCHANGED <<expected, used>>

Next ==
    \/ CheckOk \/ Clear \/ ZeroHalf \/ Return
    \/ PowerUp \/ BootOs \/ KeepState \/ Confirm \/ ConfirmHalf
    \/ WarmReset \/ PowerLoss

Spec == Init /\ [][Next]_vars

-----------------------------------------------------------------------------
(* Properties *)

\* Every variable keeps its type, only a running call has halves left, and it
\* runs where its caller does.
TypeOK ==
    /\ cell \in [Half -> HalfWords \cup {0, Junk, State}]
    /\ at \in {"off", "boot_main", "os"}
    /\ expected \in Nonces \cup {NULL} /\ used \subseteq Nonces
    /\ op \in {"none", "check", "clear", "confirm"}
    /\ left \subseteq Half /\ (Idle => left = {})
    /\ result \in {"none", "pending", "true", "false", "cleared", "error"}
    /\ live \in Nonces \cup {NULL}
    /\ kept \in [Half -> {State, NULL}]
    /\ at = "os" => expected # NULL
    /\ op \in {"check", "clear"} => at = "boot_main"
    /\ op = "confirm" => at = "os"

\* check_ok answers true at most once for each complete confirmation, and only
\* for the OS that was booted last: whatever resets fall into the clearing of the nonce
\* and whatever stores are lost (confirm.c:10-13, 49-68).
AcceptedByLive == result' = "true" /\ result # "true" => live = expected
AcceptedOnce == [][AcceptedByLive]_vars

\* Between calls no nonce is left in the cell that has been consumed or
\* revoked already, so that no later boot can find it (confirm.c:61-65, 79-87).
NoStaleNonce == Idle /\ cell \in Nonces => live = cell

\* esp32c6_stage1.ld:83 ".noinit: NOT zeroed by BSS init - values persist
\* across warm resets".
NoinitPersists ==
    at = "boot_main" => \A h \in Half : kept[h] # NULL => cell[h] = kept[h]
=============================================================================
