------------------------------ MODULE MCDrivers ------------------------------
(* The drivers for flash, boot confirmation and console, which share no state, *)
(* each on its own small instance.  A behaviour runs one of them, named by      *)
(* `driver`.  The variables of the other two are the first of v1, v2, ...       *)
EXTENDS EspFlash

CONSTANTS
    Nonces, Junk, State,                                              \* EspConfirm
    TxSize, RxSize, PutGuard, FlushGuard, SyncGuard, PollsPerMs,      \* EspUart
    WordLimit, SClk, DivLimit, Bauds, Timeouts, Chars, Rom, MaxChars

VARIABLES
    driver,
    v1, v2, v3, v4, v5, v6, v7, v8, v9, v10, v11, v12, v13, v14, v15, v16

rest == <<v10, v11, v12, v13, v14, v15, v16>>
v == <<v1, v2, v3, v4, v5, v6, v7, v8, v9, rest>>

RestUnused ==
    v10 = 0 /\ v11 = 0 /\ v12 = 0 /\ v13 = 0 /\ v14 = 0 /\ v15 = 0 /\ v16 = 0
Unused ==
    /\ v1 = 0 /\ v2 = 0 /\ v3 = 0 /\ v4 = 0 /\ v5 = 0 /\ v6 = 0 /\ v7 = 0 /\ v8 = 0 /\ v9 = 0
    /\ RestUnused

-----------------------------------------------------------------------------
(* The flash: two sectors of two words; a request of 6 bytes takes a full chunk *)
(* and a shorter one and crosses a sector boundary; 3 is an unaligned length.   *)
(* The buffers are all of one word; for the long request two that differ in     *)
(* each word and are cleared and set in both chunks.                            *)

MCAddrs == {0, 1, 4, 8}
MCLens == {0, 2, 3, 6}
MCPayloads ==
    Buffer(0) \cup Buffer(2) \cup [0 .. 2 -> {{}}]
    \cup {[i \in 0 .. 5 |-> IF i \in ones THEN Erased ELSE {}] :
            ones \in {{0, 3}, {1, 4}}}

\* Nothing wraps here: the longest sum is below AddrSpace.
ASSUME MCNoWrap == NoWrap

FlashStarts == driver = "flash" /\ Init /\ Unused
FlashRuns == driver = "flash" /\ Next /\ UNCHANGED <<driver, v>>

\* While another driver runs, the flash is as it was delivered.
FlashUnused == Init /\ mem = [c \in Cells |-> Erased]

-----------------------------------------------------------------------------
(* The confirmation: three boots, each with a nonce of its own. *)

MCNonces == {[lo |-> k, hi |-> 10 + k] : k \in 1 .. 3}

Confirmation == INSTANCE EspConfirm WITH
    cell <- v1, at <- v2, expected <- v3, used <- v4, op <- v5, left <- v6, result <- v7,
    live <- v8, kept <- v9

ConfirmStarts == driver = "confirm" /\ FlashUnused /\ Confirmation!Init /\ RestUnused
ConfirmRuns == driver = "confirm" /\ Confirmation!Next /\ UNCHANGED <<driver, vars, rest>>

-----------------------------------------------------------------------------
(* The console: a FIFO of two each way, guards of two and three turns.  SCLK    *)
(* 13: baud rate 3 leaves a fraction, 0 is refused.  128 ms are 256 polls, zero *)
(* in eight bits.                                                               *)

Console == INSTANCE EspUart WITH
    tx <- v1, rx <- v2, shadow <- v3, active <- v4, syncing <- v5, fn <- v6, step <- v7,
    polls <- v8, ret <- v9, up <- v10, wire <- v11, put <- v12, stored <- v13, got <- v14,
    waiting <- v15, late <- v16

ConsoleStarts == driver = "console" /\ FlashUnused /\ Console!Init
ConsoleRuns == driver = "console" /\ Console!Next /\ UNCHANGED <<driver, vars>>
ConsoleTurn == driver = "console" /\ Console!Driver

-----------------------------------------------------------------------------
(* All drivers *)

DriversInit == FlashStarts \/ ConfirmStarts \/ ConsoleStarts
DriversNext == FlashRuns \/ ConfirmRuns \/ ConsoleRuns
driversVars == <<driver, vars, v>>

\* ROM calls return, and the core runs the loops of the console.
DriversSpec ==
    /\ DriversInit /\ [][DriversNext]_driversVars
    /\ WF_vars(ProgramChunk) /\ WF_vars(EraseDone) /\ WF_v(ConsoleTurn)

ASSUME NonceOk == Confirmation!NonceAssumption
ASSUME UartOk == Console!UartAssumption

-----------------------------------------------------------------------------
(* Properties; those of the flash are in EspFlash *)

\* No nonce that was consumed or revoked is left for a later boot
\* (confirm.c:61-65, 79-87).
NoStaleNonce == driver = "confirm" => Confirmation!NoStaleNonce

\* check_ok answers true at most once for each complete confirmation
\* (confirm.c:10-13, 49-68).
AcceptedOnce == [][driver = "confirm" => Confirmation!AcceptedByLive]_v

\* No byte is lost, repeated or overtaken on its way out (console.c:128-138) ...
TxInOrder == driver = "console" => Console!TxInOrder

\* ... nor on its way in (console.c:161-171).
RxInOrder == driver = "console" => Console!RxInOrder

\* After esp_uart_init the FIFOs hold nothing of the ROM (console.c:87-94) ...
NothingStale == driver = "console" => Console!NothingStale

\* ... and the configuration it computed is in effect (console.c:96-114).
ConfigSettles == driver = "console" => Console!ConfigSettles

\* A byte that was there when esp_uart_getchar was called is returned
\* (console.c:156-169).
WaitingIsReturned == [][driver = "console" => Console!WaitingAnswered]_v

\* Every call of the console returns, whatever the hardware does
\* (console.c:67-75, 128-138, 161-183).
ConsoleCallsReturn ==
    (driver = "console" /\ ~Console!Idle) ~> (driver = "console" /\ Console!Idle)
=============================================================================
