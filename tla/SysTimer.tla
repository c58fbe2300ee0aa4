------------------------------ MODULE SysTimer -------------------------------
(***************************************************************************)
(* The time base of arch/riscv32/arch_timer.c: a counter that runs on its  *)
(* own, read through a snapshot that the hardware takes on request, in two *)
(* halves.  Every access to a register is a step, and the counter may      *)
(* advance between any two of them.                                        *)
(***************************************************************************)
EXTENDS Integers

CONSTANTS
    LoLimit,     \* 2^32 values of the low half
    HiLimit,     \* 2^20 of the high half
    MsLimit,     \* 2^32, the range of the answer in ms
    TicksPerMs,  \* SYSTIMER_TICKS_PER_MS
    Guard,       \* 1000 polls for the snapshot
    Delays       \* the ms that arch_riscv_delay_ms is called with

Period == LoLimit * HiLimit  \* the counter has 52 bits

TimerAssumption ==
    /\ {LoLimit, HiLimit, MsLimit, TicksPerMs, Guard} \subseteq Nat \ {0}
    /\ Delays \subseteq Nat
    /\ \A d \in Delays : d * TicksPerMs < Period

VARIABLES
    count,     \* the counter
    latching,  \* bit 29 of SYSTIMER_UNIT0_OP
    snapshot,  \* what the VALUE registers show
    fn,        \* the function running
    pc,        \* the register access it makes next
    polls,     \* turns of the polling loop
    lo,        \* the low half it has read
    target,    \* `target` of arch_riscv_delay_ms, -1 before it is known
    ms,        \* the last answer of arch_riscv_get_tick_ms
    \* The rest is not in the code; the properties need it.
    wait,      \* the delay asked for
    since,     \* ticks since the call began, no more than Period
    reading,   \* ticks since the snapshot was asked for, no more than Period
    late       \* has a snapshot outlasted its guard?

hw == <<count, latching, snapshot>>
regs == <<fn, pc, polls, lo, target, ms>>
vars == <<hw, regs, wait, since, reading, late>>

Init ==
    /\ count \in 0 .. Period - 1
    /\ latching = FALSE /\ snapshot = 0
    /\ fn = "none" /\ pc = "none" /\ polls = 0 /\ lo = 0 /\ target = -1 /\ ms = 0
    /\ wait = 0 /\ since = 0 /\ reading = 0 /\ late = FALSE

Capped(n) == IF n < Period THEN n ELSE Period

Tick ==
    /\ count' = (count + 1) % Period
    /\ since' = IF fn = "none" THEN since ELSE Capped(since + 1)
    /\ reading' = IF fn = "none" THEN reading ELSE Capped(reading + 1)
    /\ UNCHANGED <<latching, snapshot, regs, wait, late>>

Latch ==
    /\ latching
    /\ latching' = FALSE /\ snapshot' = count
    /\ UNCHANGED <<count, regs, wait, since, reading, late>>

-----------------------------------------------------------------------------
(* systimer_read_count *)

Start ==
    /\ fn = "none"
    /\ \/ fn' = "get_tick_ms" /\ wait' = 0
       \/ fn' = "delay_ms" /\ wait' \in Delays
    /\ pc' = "ask"
    /\ UNCHANGED <<hw, polls, lo, target, ms, since, reading, late>>

AskLatch ==
    /\ pc = "ask"
    /\ latching' = TRUE
    /\ pc' = "poll"
    /\ reading' = 0
    /\ UNCHANGED <<count, snapshot, fn, polls, lo, target, ms, wait, since, late>>

\* Fault: the snapshot is read without waiting for it.
AcknowledgedAtOnce == TRUE

Acknowledged == ~latching

PollLatch ==
    /\ pc = "poll"
    /\ IF Acknowledged \/ polls + 1 = Guard
       THEN pc' = "lo" /\ polls' = 0 /\ late' = (late \/ ~Acknowledged)
       ELSE polls' = polls + 1 /\ UNCHANGED <<pc, late>>
    /\ UNCHANGED <<hw, fn, lo, target, ms, wait, since, reading>>

ReadLo ==
    /\ pc = "lo"
    /\ lo' = snapshot % LoLimit
    /\ pc' = "hi"
    /\ UNCHANGED <<hw, fn, polls, target, ms, wait, since, reading, late>>

Value == (snapshot \div LoLimit) * LoLimit + lo

-----------------------------------------------------------------------------
(* arch_riscv_get_tick_ms, arch_riscv_delay_ms *)

\* Locals end with their function.
Return ==
    /\ fn' = "none" /\ pc' = "none" /\ target' = -1 /\ wait' = 0
    /\ since' = 0 /\ reading' = 0

InMs(ticks) == (ticks \div TicksPerMs) % MsLimit

GetTickMs ==
    /\ pc = "hi" /\ fn = "get_tick_ms"
    /\ ms' = InMs(Value)
    /\ lo' = 0
    /\ Return
    /\ UNCHANGED <<hw, polls, late>>

\* Fault: the product is computed in 32 bits.
InTicksNarrow(d) == (d * TicksPerMs) % LoLimit

InTicks(d) == d * TicksPerMs

\* The first reading sets the target, the later ones are compared with it.
DelayMs ==
    /\ pc = "hi" /\ fn = "delay_ms"
    /\ \/ /\ target = -1
          /\ target' = Value + InTicks(wait)
          /\ pc' = "ask" /\ UNCHANGED <<fn, wait, since, reading>>
       \/ /\ target # -1 /\ Value < target
          /\ pc' = "ask" /\ UNCHANGED <<fn, target, wait, since, reading>>
       \/ /\ target # -1 /\ Value >= target
          /\ Return
    /\ lo' = 0
    /\ UNCHANGED <<hw, polls, ms, late>>

Driver == AskLatch \/ PollLatch \/ ReadLo \/ GetTickMs \/ DelayMs

Next == Start \/ Driver \/ Tick \/ Latch

Spec == Init /\ [][Next]_vars

-----------------------------------------------------------------------------
(* Properties *)

\* Every variable keeps its type; the answer fits its 32 bits.
TypeOK ==
    /\ {count, snapshot} \subseteq 0 .. Period - 1 /\ lo \in 0 .. LoLimit - 1
    /\ fn \in {"none", "get_tick_ms", "delay_ms"}
    /\ pc \in {"none", "ask", "poll", "lo", "hi"} /\ polls \in 0 .. Guard - 1
    /\ target \in -1 .. 2 * Period /\ ms \in 0 .. MsLimit - 1
    /\ wait \in Delays \cup {0} /\ {since, reading} \subseteq 0 .. Period
    /\ {latching, late} \subseteq BOOLEAN

\* What the two halves make up is a value the counter has had since the
\* snapshot was asked for, neither torn nor left from an earlier reading
\* (arch_timer.c:44-45), as long as no snapshot has outlasted its guard.
ReadingIsFresh ==
    (pc = "hi" /\ ~late) => \E n \in 0 .. reading : Value = (count - n) % Period

\* arch_riscv_delay_ms waits as long as it was asked to, wherever the
\* counter is when it begins and if it wraps while it waits.
DelayIsLongEnough ==
    fn = "delay_ms" /\ fn' = "none" /\ ~late => since >= wait * TicksPerMs

\* What arch_timer.c:11 says of arch_riscv_get_tick_ms: "Monotonic ms since
\* boot."  (A wrap of the counter itself is not held against it.)
TicksAreMonotonic ==
    [][(fn = "get_tick_ms" /\ fn' = "none" /\ ~late /\ Value >= ms * TicksPerMs)
          => ms' >= ms]_vars
=============================================================================
