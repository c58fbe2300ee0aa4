------------------------------ MODULE EspBoot -------------------------------
(***************************************************************************)
(* From reset to the jump into the OS on the ESP32-C6: startup.c,          *)
(* boot_platform_init, the trap handler of arch_trap.c and the reset       *)
(* reason of reset_reason.c, together with the watchdogs of EspWdt.  The   *)
(* watchdogs count and bite, code traps and power fails at any moment.     *)
(* boot_main is not in the repository: it may call the watchdog and clock  *)
(* HAL in any order.                                                       *)
(***************************************************************************)
EXTENDS EspWdt

CONSTANT Reasons, Causes, WatchdogCauses, SoftwareCauses, PowerCauses

VARIABLES
    at,        \* the point the boot flow has reached
    cause,     \* the reset cause register of the PMU
    sCached,   \* s_cached and s_reason of reset_reason.c, in BSS
    sReason,
    reported,  \* what boot_main was told in this boot
    \* The rest is not in the code; the properties need it.
    bitten,    \* was this boot brought about by a watchdog?
    mode,      \* the state of the watchdog its callers have asked for
    entry,     \* time since the running or last driver function was called
    served     \* time since the call of the last function that fed TIMG0

bootVars == <<at, cause, sCached, sReason, reported>>
ghosts == <<bitten, mode, entry, served>>
vars == <<wdtVars, bootVars, ghosts>>

Flow == {"rom", "sterilize", "mtvec", "irq", "bss", "clock", "flash", "wdt",
         "crypto", "confirm", "console", "boot_main"}
\* Code that has stopped for good; "ecc" forces its own reset, "panic" is
\* boot_panic, which is not in the repository.
Stopped == {"hung", "halt", "ecc", "panic"}
Points == Flow \cup Stopped \cup {"os"}
Modes == {"none", "on", "suspended", "off"}

\* Longer times are not told apart.
TimeCap == Timeout * MaxPre
Later(t) == IF t < TimeCap THEN t + 1 ELSE t

-----------------------------------------------------------------------------
(* Reset. *)

\* The switch of esp_get_reset_reason.
ReasonOf(c) ==
    IF c \in WatchdogCauses THEN "watchdog"
    ELSE IF c = "brownout" THEN "brownout"
    ELSE IF c \in SoftwareCauses THEN "software"
    ELSE IF c \in PowerCauses THEN "power_on"
    ELSE "unknown"

\* The causes a dog may leave in the PMU.
CausesOf(dog) ==
    CASE dog = "timg0" -> {"tg0wdt", "tg0wdt_cpu"}
      [] dog = "timg1" -> {"tg1wdt"}
      [] dog = "lp" -> {"rtcwdt_sys", "rtcwdt_cpu", "rtcwdt_rtc"}
      [] dog = "swd" -> {"swd"}

\* The codes of hardware.json: a dog's are those of watchdogs, the others not.
OtherCauses == SoftwareCauses \cup {"poweron", "brownout", "deepsleep", "unlisted"}

ASSUME CauseAssumption ==
    /\ \A dog \in Dogs : CausesOf(dog) \subseteq WatchdogCauses
    /\ WatchdogCauses \cap OtherCauses = {}
    /\ WatchdogCauses \cup OtherCauses \subseteq Causes
    /\ {"watchdog", "brownout", "software", "power_on", "unknown"} \subseteq Reasons

\* The chip restarts in the ROM.  A warm reset leaves SRAM, and so the statics
\* of the last boot, as they were; bss_init has not run yet.
Restart(c, byWatchdog) ==
    /\ at' = "rom"
    /\ cause' = c
    /\ bitten' = byWatchdog
    /\ RegsReset
    /\ fn' = "none" /\ ip' = 0
    /\ reported' = "none" /\ mode' = "none" /\ entry' = 0 /\ served' = 0

Bite(dog) ==
    /\ Bites(dog)
    /\ \E c \in CausesOf(dog) : Restart(c, TRUE)
    /\ UNCHANGED <<sCached, sReason, saved>>

WatchdogBite == \E dog \in Dogs : Bite(dog)

\* toob_ecc_trap has noted the fault and resets through a watchdog.
EccReset ==
    /\ at = "ecc"
    /\ Restart("rtcwdt_sys", TRUE)
    /\ UNCHANGED <<sCached, sReason, saved>>

\* The OS or boot_panic resets, or the OS goes to sleep; the PMU also knows
\* codes that hardware.json does not list.
SoftReset ==
    /\ at \in {"os", "panic"}
    /\ \E c \in SoftwareCauses \cup {"deepsleep", "unlisted"} : Restart(c, FALSE)
    /\ UNCHANGED <<sCached, sReason, saved>>

SramAfterPowerLoss ==
    {[cached |-> FALSE, reason |-> "unknown", prescaler |-> 0]}
    \cup [cached : {TRUE}, reason : Reasons, prescaler : {MaxPre}]

\* Power fails or dips: SRAM comes up blank or with junk in it.
PowerOn ==
    /\ at # "rom"
    /\ \E c \in {"poweron", "brownout"} : Restart(c, FALSE)
    /\ \E sram \in SramAfterPowerLoss :
          sCached' = sram.cached /\ sReason' = sram.reason /\ saved' = sram.prescaler

-----------------------------------------------------------------------------
(* The flow of _start and boot_platform_init. *)

Goto(p) == at' = p

\* A driver function is called and returns with its last write.
Begin(f) ==
    /\ Start(f)
    /\ entry' = 0
    /\ mode' = IF f = "deinit" THEN "off" ELSE mode
    /\ UNCHANGED <<bitten, served>>

Feeding == {"init", "kick", "suspend", "resume"}
ModeAfter(f) ==
    IF f = "init" THEN "on"
    ELSE IF mode = "off" THEN "off"
    ELSE IF f = "suspend" THEN "suspended"
    ELSE IF f = "resume" THEN "on"
    ELSE mode

DriverWrite ==
    /\ at \notin Stopped
    /\ RegWrite
    /\ IF Returning
       THEN /\ mode' = ModeAfter(fn)
            /\ served' = IF fn \in Feeding THEN entry ELSE served
       ELSE UNCHANGED <<mode, served>>
    /\ UNCHANGED <<bootVars, bitten, entry>>

\* The ROM hands over to _start, which sterilizes the watchdogs first.
RomJumps ==
    /\ at = "rom"
    /\ Goto("sterilize")
    /\ Begin("sterilize")
    /\ UNCHANGED <<cause, sCached, sReason, reported>>

\* Steps that touch none of the state kept here.
After == [sterilize |-> "mtvec", mtvec |-> "irq", irq |-> "bss",
          clock |-> "flash", wdt |-> "crypto", crypto |-> "confirm",
          confirm |-> "console", console |-> "boot_main"]

Advance ==
    /\ Idle
    /\ at \in DOMAIN After
    /\ Goto(After[at])
    /\ UNCHANGED <<wdtVars, cause, sCached, sReason, reported, ghosts>>

\* Fault: the flag lives outside BSS and is not cleared.
BssKeepsCache ==
    /\ at = "bss"
    /\ Goto("clock")
    /\ saved' = 0
    /\ UNCHANGED <<regs, fn, ip, cause, sCached, sReason, reported, ghosts>>

BssInit ==
    /\ at = "bss"
    /\ Goto("clock")
    /\ saved' = 0 /\ sCached' = FALSE /\ sReason' = "unknown"
    /\ UNCHANGED <<regs, fn, ip, cause, reported, ghosts>>

\* The ROM unlocks the flash, and esp_rwdt_init is called; or the platform
\* panics, with no watchdog armed yet.
FlashInit ==
    /\ at = "flash"
    /\ \/ Goto("wdt") /\ Begin("init")
       \/ Goto("panic") /\ UNCHANGED <<wdtVars, ghosts>>
    /\ UNCHANGED <<cause, sCached, sReason, reported>>

-----------------------------------------------------------------------------
(* boot_main *)

CallWatchdog ==
    /\ at = "boot_main"
    /\ \E f \in {"kick", "suspend", "resume", "deinit"} : Begin(f)
    /\ UNCHANGED bootVars

\* esp_get_reset_reason
AskReason ==
    /\ at = "boot_main" /\ Idle
    /\ IF sCached THEN UNCHANGED <<sCached, sReason>>
       ELSE sCached' = TRUE /\ sReason' = ReasonOf(cause)
    /\ reported' = sReason'
    /\ UNCHANGED <<wdtVars, at, cause, ghosts>>

\* It returns BOOT_OK with an entry point, or anything else, or it panics.
BootMainEnds ==
    /\ at = "boot_main" /\ Idle
    /\ at' \in {"os", "halt", "panic"}
    /\ UNCHANGED <<wdtVars, cause, sCached, sReason, reported, ghosts>>

\* A trap, in the middle of a driver function too: once mtvec is installed the
\* handler takes it.  Access faults go to toob_ecc_trap, the rest, and an
\* interrupt pending before the irq step masks it, wait for the watchdog.
Trap ==
    /\ at \in Flow \ {"rom", "sterilize", "mtvec"}
    /\ at' \in {"ecc", "hung"}
    /\ fn' = "none" /\ ip' = 0
    /\ UNCHANGED <<regs, saved, cause, sCached, sReason, reported, ghosts>>

Time ==
    /\ TimeStep
    /\ entry' = Later(entry) /\ served' = Later(served)
    /\ UNCHANGED <<bootVars, bitten, mode>>

-----------------------------------------------------------------------------
Init ==
    /\ RegsAtReset
    /\ \E sram \in SramAfterPowerLoss :
          sCached = sram.cached /\ sReason = sram.reason /\ saved = sram.prescaler
    /\ fn = "none" /\ ip = 0
    /\ at = "rom" /\ cause = "poweron"
    /\ reported = "none" /\ bitten = FALSE /\ mode = "none"
    /\ entry = 0 /\ served = 0

Next ==
    \/ WatchdogBite \/ EccReset \/ SoftReset \/ PowerOn
    \/ DriverWrite \/ RomJumps \/ Advance \/ BssInit \/ FlashInit
    \/ CallWatchdog \/ AskReason \/ BootMainEnds
    \/ Trap \/ Time

Spec == Init /\ [][Next]_vars

\* Time passes, and a dog that must bite does.
FairSpec == Spec /\ WF_vars(Time) /\ WF_vars(WatchdogBite)

-----------------------------------------------------------------------------
(* Properties *)

\* Every variable keeps its type.
TypeOK ==
    /\ unlocked \subseteq Dogs /\ armed \subseteq Dogs
    /\ pre \in {0, NominalPre, MaxPre}
    /\ stage0 \in {0, EffectiveTimeout}
    /\ count \in 0 .. EffectiveTimeout
    /\ sub \in 0 .. MaxPre
    /\ saved \in {0, NominalPre, MaxPre}
    /\ fn \in Functions \cup {"none"} /\ ip \in Nat
    /\ at \in Points /\ cause \in Causes
    /\ sCached \in BOOLEAN /\ sReason \in Reasons
    /\ reported \in Reasons \cup {"none"}
    /\ bitten \in BOOLEAN /\ mode \in Modes
    /\ entry \in 0 .. TimeCap /\ served \in 0 .. TimeCap

\* Between driver calls the registers are what the callers have asked for: all
\* locks closed, TIMG0 the only dog, with the doubled timeout and the prescaler
\* of its mode, and off only after deinit (wdt.c:80-169).
HardwareMatchesMode ==
    Idle /\ mode # "none" /\ at \notin Stopped =>
        /\ unlocked = {}
        /\ armed = IF mode = "off" THEN {} ELSE {"timg0"}
        /\ mode = "on" => stage0 = 2 * Timeout /\ pre = NominalPre
        /\ mode = "suspended" => stage0 = 2 * Timeout /\ pre = MaxPre

\* Once startup has sterilized them, the dogs the ROM left armed reset nothing
\* any more (startup.c:48-71, wdt.c:80-92).
OnlyBootWatchdogBites ==
    [][WatchdogBite /\ at \notin {"rom", "sterilize"}
        => cause' \in CausesOf("timg0")]_vars

\* Code that calls kick within the timeout it was given is never reset, however
\* the calls interleave with the counter, and while the watchdog is suspended it
\* may take the stretched timeout: the doubling of TIMING_SAFETY_FACTOR pays for
\* the early first tick after a feed (wdt.c:99-100, 154-161).
NeverBitesEarly ==
    [][WatchdogBite /\ Programmed =>
        /\ served >= Timeout * NominalPre
        /\ Idle /\ mode = "suspended" => served >= Timeout * MaxPre]_vars

\* What the second half of it needs where a trap interrupts resume: even at the
\* nominal prescaler the doubled timeout, less its early tick, outlasts the
\* stretched one.  5000 ms, 40000 and 0xFFFF satisfy it.
StretchCovered == Timeout * MaxPre <= (2 * Timeout - 1) * NominalPre

\* boot_main is told of a watchdog reset exactly when this boot came about by
\* one, whatever the last boot left in RAM (reset_reason.c:32-74).
WatchdogResetReported ==
    reported # "none" => (reported = "watchdog" <=> bitten)

\* Whatever hangs once the watchdog runs is reset: suspending keeps the net
\* under the code (wdt.c:149-153, arch_trap.c:74-77).
GuardedHangIsReset ==
    at \in {"hung", "halt"} /\ mode \in {"on", "suspended"} ~> at = "rom"

\* arch_trap.c:76 "The hardware WDT will reset the system."
TrapIsReset == at = "hung" ~> at = "rom"
=============================================================================
