------------------------------ MODULE EspEfuse ------------------------------
(***************************************************************************)
(* The random numbers, eFuse and provisioning functions of                 *)
(* chips/esp32c6/chip_platform.c, and their mock in mock_efuse.c.  A byte  *)
(* is <<source, word, byte of the word>>: the RNG register gives a new     *)
(* word at every read.                                                     *)
(***************************************************************************)
EXTENDS Integers, Sequences

CONSTANTS
    WordSize,   \* bytes of a register
    KeyLen,     \* bytes of a public key, 32
    MockDslcLen,\* bytes of MOCK_DSLC_BYTES, 32
    Lens,       \* the lengths callers pass
    MaxCalls    \* bound of the model on calls

EfuseAssumption ==
    /\ WordSize \in Nat \ {0} /\ KeyLen \in Nat \ {0}
    /\ KeyLen % WordSize = 0
    /\ MockDslcLen \in Nat \ {0} /\ Lens \subseteq Nat
    /\ MaxCalls \in Nat

VARIABLES
    build,  \* TOOB_MOCK_EFUSES or not
    fuses,  \* the monotonic counter in the eFuses: nothing here programs it
    rng,    \* words the RNG register has given
    call,   \* the last call: name, buffer, length given, length told, answer
    drawn,  \* random bytes given so far
    calls

vars == <<build, fuses, rng, call, drawn, calls>>

\* What runs for a call: the functions of chip_platform.c are static and its HAL
\* table refers to them in every build, --wrap or not; a test may call the mock
\* by its __wrap_ name.
Reached == IF build = "mock" THEN {"mock", "silicon"} ELSE {"silicon"}

-----------------------------------------------------------------------------
(* What is put into the buffer, by position; nothing on an error. *)

Empty == <<>>
Words(n) == (n + WordSize - 1) \div WordSize

\* Fault: one word serves all bytes.
RandomWordOnce(i) == rng

RandomWord(i) == rng + i \div WordSize

RandomBytes(len) == [i \in 1 .. len |-> <<"rng", RandomWord(i - 1), (i - 1) % WordSize>>]

\* esp32c6_read_pubkey takes KEY0 whatever the index; the mock has two keys.
Key(impl, index) ==
    LET source == IF impl = "silicon" THEN "KEY0" ELSE IF index = 0 THEN "key" ELSE "fallback"
    IN  [i \in 1 .. KeyLen |-> <<source, (i - 1) \div WordSize, (i - 1) % WordSize>>]

Dslc(impl) ==
    IF impl = "silicon" THEN <<<<"PART2", 0, 0>>>>
    ELSE [i \in 1 .. MockDslcLen |-> <<"dslc", i - 1, 0>>]

DslcTold(impl, len) == Len(Dslc(impl))

AdvanceAnswer(impl) == IF impl = "silicon" THEN "NOT_SUPPORTED" ELSE "OK"

DslcNeeds(impl) == IF impl = "silicon" THEN 1 ELSE MockDslcLen

-----------------------------------------------------------------------------
(* Actions *)

Init ==
    /\ build \in {"silicon", "mock"}
    /\ fuses \in 0 .. 1 /\ rng = 0 /\ drawn = {} /\ calls = 0
    /\ call = [name |-> "none", impl |-> "none", given |-> 0, buf |-> Empty, told |-> 0, ret |-> "OK"]

Called(name, impl, given, buf, told, ret) ==
    /\ calls < MaxCalls /\ calls' = calls + 1
    /\ call' = [name |-> name, impl |-> impl, given |-> given, buf |-> buf, told |-> told, ret |-> ret]
    /\ UNCHANGED <<build, fuses>>

Unchanged == UNCHANGED <<rng, drawn>>

Random ==
    \E len \in Lens :
        IF len = 0 THEN Called("random", "silicon", 0, Empty, 0, "INVALID_ARG") /\ Unchanged
        ELSE /\ Called("random", "silicon", len, RandomBytes(len), len, "OK")
             /\ rng' = rng + Words(len)
             /\ drawn' = drawn \cup {<<calls, RandomBytes(len)>>}

ReadPubkey ==
    /\ \E impl \in Reached, len \in Lens, index \in 0 .. 1 :
        IF len # KeyLen THEN Called("read_pubkey", impl, len, Empty, len, "INVALID_ARG")
        ELSE Called("read_pubkey", impl, len, Key(impl, index), len, "OK")
    /\ Unchanged

ReadDslc ==
    /\ \E impl \in Reached, len \in Lens :
        IF len < DslcNeeds(impl) THEN Called("read_dslc", impl, len, Empty, len, "INVALID_ARG")
        ELSE Called("read_dslc", impl, len, Dslc(impl), DslcTold(impl, len), "OK")
    /\ Unchanged

\* The counter is the caller's word, not bytes of a buffer; `told` is its value.
ReadMonotonic ==
    /\ \E impl \in Reached :
        Called("read_monotonic_counter", impl, 0, Empty, IF impl = "silicon" THEN fuses ELSE 10, "OK")
    /\ Unchanged

\* Neither stores a counter; the mock answers OK all the same.
AdvanceMonotonic ==
    /\ \E impl \in Reached :
        Called("advance_monotonic_counter", impl, 0, Empty, 0, AdvanceAnswer(impl))
    /\ Unchanged

WriteDslc ==
    /\ \E impl \in Reached, len \in Lens :
        Called("write_dslc", impl, len, Empty, len,
               IF len = 0 THEN "INVALID_ARG" ELSE IF impl = "silicon" THEN "NOT_SUPPORTED" ELSE "OK")
    /\ Unchanged

\* burn_pubkey, write_dslc, set_protection_bits, enable_secure_boot and
\* enable_flash_encryption of the provisioning HAL.
Provision ==
    /\ Called("provision", "silicon", 0, Empty, 0, "NOT_SUPPORTED")
    /\ Unchanged

Next == Random \/ ReadPubkey \/ ReadDslc \/ ReadMonotonic \/ AdvanceMonotonic \/ WriteDslc \/ Provision
Spec == Init /\ [][Next]_vars

-----------------------------------------------------------------------------
(* Properties *)

\* No random byte is given twice, in one buffer or in two: whole words, a rest,
\* and the next call (chip_platform.c:132-141).
EntropyUsedOnce ==
    \A d, e \in drawn : \A i \in DOMAIN d[2], j \in DOMAIN e[2] :
        d[2][i] = e[2][j] => d = e /\ i = j

\* A buffer holds exactly the bytes that the caller is told of and never more
\* than it gave room for; after an error it holds none
\* (chip_platform.c:126-179, mock_efuse.c:44-67).
FilledAsTold ==
    IF call.ret = "OK" /\ call.name \in {"random", "read_pubkey", "read_dslc"}
    THEN Len(call.buf) = call.told /\ call.told <= call.given
    ELSE call.buf = Empty
=============================================================================
