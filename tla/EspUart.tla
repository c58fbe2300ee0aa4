------------------------------- MODULE EspUart -------------------------------
(***************************************************************************)
(* The boot console of drivers/uart/esp_uart_v1/console.c.                 *)
(*                                                                         *)
(* The driver polls: a call reads the FIFO levels again and again, up to a *)
(* guard, while the hardware sends and receives bytes on its own.  One     *)
(* step of a call is one turn of its loop; the access to a FIFO that a     *)
(* turn leads to is a step of its own.  Configuration registers are        *)
(* shadowed: what is written takes effect when the hardware has            *)
(* synchronised, which the driver asks for and waits for, up to a guard.   *)
(***************************************************************************)
EXTENDS Integers, Sequences

CONSTANTS
    TxSize,      \* CHIP_UART_TX_FIFO_SIZE
    RxSize,      \* bytes the receive FIFO holds
    PutGuard,    \* 100000 turns in esp_uart_putchar
    FlushGuard,  \* 500000 in esp_uart_flush
    SyncGuard,   \* 10000 in uart_sync_regs
    PollsPerMs,  \* CHIP_CPU_FREQ_HZ / 1000
    WordLimit,   \* 2^32
    SClk,        \* CHIP_UART_SCLK_FREQ
    DivLimit,    \* the divider field has 12 bits
    Bauds,       \* baud rates esp_uart_init is called with
    Timeouts,    \* timeouts esp_uart_getchar is called with, in ms
    Chars,       \* characters sent and received
    Rom,         \* a byte the ROM has left in a FIFO
    MaxChars     \* bound of the model on the characters in traffic

UartAssumption ==
    /\ {TxSize, RxSize, PutGuard, FlushGuard, SyncGuard, PollsPerMs, SClk, DivLimit}
          \subseteq Nat \ {0}
    /\ WordLimit \in Nat \ {0} /\ Bauds \subseteq Nat /\ Timeouts \subseteq Nat
    /\ {PutGuard, FlushGuard, SyncGuard, 16 * SClk} \subseteq 0 .. WordLimit - 1
    /\ Rom \notin Chars

VARIABLES
    tx, rx,      \* the FIFOs
    shadow,      \* the configuration registers as written
    active,      \* the configuration in effect
    syncing,     \* bit 0 of REG_UPDATE
    fn,          \* the function running, with its argument
    step,        \* its position
    polls,       \* turns of the running loop
    ret,         \* what the last call answered
    up,          \* the baud rate of a successful esp_uart_init, 0 before it
    \* The rest is not in the code; the properties need it.
    wire,        \* bytes sent
    put,         \* bytes written to the FIFO and not flushed out by a FIFO reset
    stored,      \* bytes received into the FIFO, likewise
    got,         \* bytes esp_uart_getchar has returned
    waiting,     \* was a byte there when esp_uart_getchar was called?
    late         \* has a synchronisation outlasted its guard?

hw == <<tx, rx, shadow, active, syncing>>
run == <<fn, step, polls, ret, up>>
traffic == <<wire, put, stored, got>>
ghosts == <<traffic, waiting, late>>
vars == <<hw, run, ghosts>>

Config == [reset : BOOLEAN, frame : {"rom", "8n1"}, div : Nat, frag : Nat]
RomConfig == [reset |-> FALSE, frame |-> "rom", div |-> 0, frag |-> 0]

Init ==
    /\ tx \in {<<>>, <<Rom>>} /\ rx \in {<<>>, <<Rom>>}
    /\ shadow = RomConfig /\ active = RomConfig /\ syncing = FALSE
    /\ fn = [name |-> "none", arg |-> 0] /\ step = 0 /\ polls = 0
    /\ ret = "none" /\ up = 0
    /\ wire = <<>> /\ put = tx /\ stored = rx /\ got = <<>>
    /\ waiting = FALSE /\ late = FALSE

-----------------------------------------------------------------------------
(* The hardware. *)

MoreTraffic == Len(put) + Len(stored) < MaxChars

\* A byte leaves.
Send ==
    /\ tx # <<>> /\ ~active.reset
    /\ wire' = Append(wire, Head(tx)) /\ tx' = Tail(tx)
    /\ UNCHANGED <<rx, shadow, active, syncing, run, put, stored, got, waiting, late>>

\* A byte arrives; a full FIFO drops it.
Receive ==
    /\ MoreTraffic /\ ~active.reset
    /\ \E c \in Chars :
        IF Len(rx) < RxSize
        THEN rx' = Append(rx, c) /\ stored' = Append(stored, c)
        ELSE UNCHANGED <<rx, stored>>
    /\ UNCHANGED <<tx, shadow, active, syncing, run, wire, put, got, waiting, late>>

\* What was written takes effect; FIFOs in reset are empty.
Synchronise ==
    /\ syncing
    /\ syncing' = FALSE /\ active' = shadow
    /\ IF shadow.reset
       THEN tx' = <<>> /\ rx' = <<>> /\ put' = wire /\ stored' = got
       ELSE UNCHANGED <<tx, rx, put, stored>>
    /\ UNCHANGED <<shadow, run, wire, got, waiting, late>>

-----------------------------------------------------------------------------
(* Calls. *)

Idle == fn.name = "none"

Call(name, arg) ==
    /\ Idle
    /\ fn' = [name |-> name, arg |-> arg]
    /\ step' = 1 /\ polls' = 0
    /\ waiting' = (rx # <<>>)

\* Fault: the turn is not counted.
AgainUncounted == UNCHANGED <<polls, fn, step, ret>>

\* One more turn of the loop.
Again == polls' = polls + 1 /\ UNCHANGED <<fn, step, ret>>

Return(status) ==
    /\ fn' = [name |-> "none", arg |-> 0] /\ step' = 0 /\ polls' = 0
    /\ ret' = status

\* boot_platform_init calls esp_uart_init once, ignores the answer, and the
\* console is used all the same.
Start ==
    /\ \/ /\ ret = "none"
          /\ \E baud \in Bauds : Call("init", baud)
       \/ /\ ret # "none"
          /\ \/ \E c \in Chars : MoreTraffic /\ Call("putchar", c)
             \/ \E t \in Timeouts : Call("getchar", t)
             \/ Call("flush", 0)
    /\ UNCHANGED <<hw, ret, up, traffic, late>>

\* esp_uart_getchar without a place for the byte.
GetcharRefused ==
    /\ Idle /\ ret # "none"
    /\ ret' = "INVALID_ARG"
    /\ UNCHANGED <<hw, fn, step, polls, up, ghosts>>

-----------------------------------------------------------------------------
(* esp_uart_init *)

Running(name) == fn.name = name

\* Faults: the registers are not synchronised while the FIFOs are in reset; the
\* fraction is taken of the quotient.
InitBodyOneSync == <<"reset", "run", "sync", "clkdiv", "sync", "frame", "sync">>
FragOfQuotient(baud) == ((SClk \div baud) * 16) % 16

\* Its writes, and the waits between them; enabling the clock is left out.
InitBody ==
    <<"reset", "sync", "run", "sync", "clkdiv", "sync", "frame", "sync">>

Divider(baud) == (SClk \div baud) % DivLimit
Frag(baud) == ((((SClk % baud) * 16) % WordLimit) \div baud) % 16

InitRefused ==
    /\ Running("init") /\ step = 1 /\ fn.arg = 0
    /\ Return("INVALID_ARG")
    /\ UNCHANGED <<hw, up, ghosts>>

NextOp == IF step = Len(InitBody) THEN Return("OK") /\ up' = fn.arg
          ELSE step' = step + 1 /\ polls' = 0 /\ UNCHANGED <<fn, ret, up>>

InitWrite ==
    /\ Running("init") /\ fn.arg # 0
    /\ InitBody[step] # "sync"
    /\ shadow' =
          CASE InitBody[step] = "reset" -> [shadow EXCEPT !.reset = TRUE]
            [] InitBody[step] = "run" -> [shadow EXCEPT !.reset = FALSE]
            [] InitBody[step] = "clkdiv" ->
                  [shadow EXCEPT !.div = Divider(fn.arg), !.frag = Frag(fn.arg)]
            [] InitBody[step] = "frame" -> [shadow EXCEPT !.frame = "8n1"]
    /\ step' = step + 1 /\ polls' = 0
    /\ UNCHANGED <<tx, rx, active, syncing, fn, ret, up, ghosts>>

\* uart_sync_regs: ask, then poll.
SyncAsk ==
    /\ Running("init") /\ InitBody[step] = "sync" /\ polls = 0
    /\ syncing' = TRUE
    /\ polls' = 1
    /\ UNCHANGED <<tx, rx, shadow, active, fn, step, ret, up, ghosts>>

SyncPoll ==
    /\ Running("init") /\ InitBody[step] = "sync" /\ polls > 0
    /\ \/ /\ ~syncing \/ polls = SyncGuard
          /\ NextOp
          /\ late' = (late \/ syncing)
       \/ /\ syncing /\ polls < SyncGuard
          /\ Again /\ UNCHANGED <<up, late>>
    /\ UNCHANGED <<hw, traffic, waiting>>

-----------------------------------------------------------------------------
(* putchar, getchar, flush (and deinit, which is flush) *)

\* Fault: the FIFO is taken to hold one more.
HasRoomOffByOne == Len(tx) <= TxSize

HasRoom == Len(tx) < TxSize
GivesUp(guard) == polls + 1 = guard

PutcharLook ==
    /\ Running("putchar") /\ step = 1
    /\ \/ /\ HasRoom
          /\ step' = 2 /\ UNCHANGED <<fn, polls, ret>>
       \/ ~HasRoom /\ GivesUp(PutGuard) /\ Return("dropped")
       \/ ~HasRoom /\ ~GivesUp(PutGuard) /\ Again
    /\ UNCHANGED <<hw, up, ghosts>>

\* A byte written into a full FIFO, or one in reset, is lost.
PutcharWrite ==
    /\ Running("putchar") /\ step = 2
    /\ put' = Append(put, fn.arg)
    /\ tx' = IF Len(tx) < TxSize /\ ~active.reset THEN Append(tx, fn.arg) ELSE tx
    /\ Return("OK")
    /\ UNCHANGED <<rx, shadow, active, syncing, up, wire, stored, got, waiting, late>>

\* Fault: a timeout of nothing is no poll.
IterationsUnclamped(ms) == (ms * PollsPerMs) % WordLimit

\* The timeout as turns of the loop, in 32-bit arithmetic.
Iterations(ms) ==
    IF (ms * PollsPerMs) % WordLimit = 0 THEN 1 ELSE (ms * PollsPerMs) % WordLimit

\* Fault: the FIFO register is read once to look and once to take.
RestOfRxTwice == IF Len(rx) > 1 THEN Tail(Tail(rx)) ELSE <<>>

\* Reading the FIFO register takes the oldest byte.
RestOfRx == Tail(rx)

GetcharLook ==
    /\ Running("getchar") /\ step = 1
    /\ \/ polls >= Iterations(fn.arg) /\ Return("TIMEOUT")
       \/ /\ polls < Iterations(fn.arg) /\ rx # <<>>
          /\ step' = 2 /\ UNCHANGED <<fn, polls, ret>>
       \/ polls < Iterations(fn.arg) /\ rx = <<>> /\ Again
    /\ UNCHANGED <<hw, up, ghosts>>

GetcharTake ==
    /\ Running("getchar") /\ step = 2
    /\ got' = Append(got, Head(rx)) /\ rx' = RestOfRx
    /\ Return("OK")
    /\ UNCHANGED <<tx, shadow, active, syncing, up, wire, put, stored, waiting, late>>

Flush ==
    /\ Running("flush")
    /\ \/ /\ tx = <<>> \/ GivesUp(FlushGuard)
          /\ Return("OK")
       \/ /\ tx # <<>> /\ ~GivesUp(FlushGuard)
          /\ Again
    /\ UNCHANGED <<hw, up, ghosts>>

Driver ==
    InitRefused \/ InitWrite \/ SyncAsk \/ SyncPoll
    \/ PutcharLook \/ PutcharWrite \/ GetcharLook \/ GetcharTake \/ Flush

Next == Start \/ GetcharRefused \/ Driver \/ Send \/ Receive \/ Synchronise

\* The core runs; nothing is assumed of the hardware.
Spec == Init /\ [][Next]_vars /\ WF_vars(Driver)

-----------------------------------------------------------------------------
(* Properties *)

\* Every variable keeps its type: the FIFOs within their sizes, the registers
\* within their fields, the loops within their guards.
TypeOK ==
    /\ tx \in Seq(Chars \cup {Rom}) /\ Len(tx) <= TxSize
    /\ rx \in Seq(Chars \cup {Rom}) /\ Len(rx) <= RxSize
    /\ {shadow, active} \subseteq Config
    /\ {shadow.div, active.div} \subseteq 0 .. DivLimit - 1
    /\ {shadow.frag, active.frag} \subseteq 0 .. 15
    /\ fn.name \in {"none", "init", "putchar", "getchar", "flush"}
    /\ step \in 0 .. Len(InitBody) /\ polls \in 0 .. WordLimit - 1
    /\ ret \in {"none", "OK", "INVALID_ARG", "TIMEOUT", "dropped"}
    /\ up \in Bauds \cup {0}
    /\ {syncing, waiting, late} \subseteq BOOLEAN

\* A byte that esp_uart_putchar wrote is sent, once and in order, or is still
\* in the FIFO: the level it reads leaves room for the byte, although the
\* hardware sends between the look and the write.
TxInOrder == ~late => put = wire \o tx

\* A byte received into the FIFO is returned by esp_uart_getchar once and in
\* order, or is still there, whatever arrives during the poll.
RxInOrder == stored = got \o rx

\* When esp_uart_init has answered OK and no synchronisation outlasted its
\* guard, nothing of the ROM is left in the FIFOs: both were in reset and the
\* hardware saw it before the reset was withdrawn.
NothingStale == (up # 0 /\ ~late) => Rom \notin {(tx \o rx)[i] : i \in 1 .. Len(tx \o rx)}

\* ... and the configuration in effect is the one it computed: FIFOs out of
\* reset, 8N1, and SCLK / baud rounded down to a sixteenth, where the whole
\* part fits the divider.
ConfigSettles ==
    (up # 0 /\ ~late) =>
        /\ ~active.reset /\ active.frame = "8n1"
        /\ SClk \div up < DivLimit =>
              16 * active.div + active.frag = (16 * SClk) \div up

\* A byte that was there when esp_uart_getchar was called is returned,
\* whatever the timeout: zero, and a product that wraps to zero, still poll.
WaitingAnswered == Running("getchar") /\ waiting /\ fn'.name = "none" => ret' = "OK"
WaitingIsReturned == [][WaitingAnswered]_vars

\* Every call returns, even if the hardware never sends, receives or
\* synchronises again: all loops are bounded.
CallsReturn == (~Idle) ~> Idle

\* What console.c:141 and 144 say of esp_uart_getchar: it gives up after its
\* timeout (here: the polls that its spin counter stands for).
GetcharWaits ==
    [][(Running("getchar") /\ fn'.name = "none" /\ ret' = "TIMEOUT")
          => polls >= fn.arg * PollsPerMs]_vars
=============================================================================
