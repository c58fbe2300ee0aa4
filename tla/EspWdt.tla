------------------------------- MODULE EspWdt -------------------------------
(***************************************************************************)
(* The watchdog registers of the ESP32-C6 and the code that writes them:   *)
(* drivers/wdt/esp_rwdt_with_swd/wdt.c and wdt_sterilize_all of            *)
(* chips/esp32c6/startup.c.                                                *)
(*                                                                         *)
(* A function is the sequence of its register writes, and one step of the  *)
(* model is one write: the watchdogs count, and may bite, between any two. *)
(* A write to a protected register of a locked watchdog is ignored by the  *)
(* hardware.  What the hardware does is taken from the use the code makes  *)
(* of it: a disabled counter stands at zero, FEED restarts the count but   *)
(* not the prescaler, so that the first tick after it may come early.      *)
(***************************************************************************)
EXTENDS Integers, Sequences

CONSTANTS
    Timeout,      \* BOOT_WDT_TIMEOUT_MS, in nominal watchdog ticks
    NominalPre,   \* prescaler 40000, in units of time per tick
    MaxPre,       \* prescaler 0xFFFF, likewise
    WordLimit     \* 2^32: the doubled timeout is a uint32_t

ASSUME WdtAssumption ==
    /\ Timeout \in Nat \ {0} /\ 2 * Timeout < WordLimit
    /\ NominalPre \in Nat \ {0}
    /\ MaxPre \in Nat /\ MaxPre > NominalPre
    /\ WordLimit \in Nat

Dogs == {"timg0", "timg1", "lp", "swd"}

VARIABLES
    unlocked,  \* the dogs whose WPROTECT register holds the key
    armed,     \* the dogs that count: enable bit set, or SWD without auto-feed
    pre,       \* TIMG0 CONFIG1, the prescaler; 0 stands for what the ROM left
    stage0,    \* TIMG0 CONFIG2, the stage 0 timeout in ticks
    count,     \* ticks TIMG0 has counted since its last feed
    sub,       \* units of time since its last tick
    saved,     \* s_saved_prescaler, in BSS
    fn, ip     \* the driver function running and its next write

regs == <<unlocked, armed, pre, stage0, count, sub>>
wdtVars == <<regs, saved, fn, ip>>

-----------------------------------------------------------------------------
(* The functions as sequences of writes. *)

W(dog, reg, val) == [dog |-> dog, reg |-> reg, val |-> val]
Unlock(dog) == W(dog, "wprotect", 1)
Lock(dog) == W(dog, "wprotect", 0)

\* wdt_disable and swd_disable (wdt.c:60-78): unlock, off, lock.
Disable(dog) == <<Unlock(dog), W(dog, "enable", 0), Lock(dog)>>

\* Fault: the SWD is treated as if it shared the lock of the LP watchdog.
SterilizeSwdLocked ==
    Disable("timg0") \o Disable("timg1") \o Disable("lp")
        \o <<W("swd", "enable", 0)>>

\* wdt_sterilize_all
Sterilize ==
    Disable("timg0") \o Disable("timg1") \o Disable("lp") \o Disable("swd")

\* Fault: the factor is forgotten.
EffectiveTimeoutUnscaled == Timeout

\* TIMING_SAFETY_FACTOR, in 32-bit arithmetic.
EffectiveTimeout == (Timeout * 2) % WordLimit

\* Faults: CONFIG0 is written after the registers are locked again; CONFIG1
\* and CONFIG2 get each other's value.
RwdtInitEnableLate ==
    Disable("timg1") \o Disable("lp") \o Disable("swd")
        \o <<W("timg0", "saved", NominalPre), Unlock("timg0"),
             W("timg0", "prescaler", NominalPre),
             W("timg0", "stage0", EffectiveTimeout),
             W("timg0", "feed", 1), Lock("timg0"), W("timg0", "enable", 1)>>

RwdtInitSwapped ==
    Disable("timg1") \o Disable("lp") \o Disable("swd")
        \o <<W("timg0", "saved", NominalPre), Unlock("timg0"),
             W("timg0", "prescaler", EffectiveTimeout),
             W("timg0", "stage0", NominalPre),
             W("timg0", "enable", 1), W("timg0", "feed", 1), Lock("timg0")>>

\* esp_rwdt_init.  "saved" is the assignment to s_saved_prescaler; CONFIG3 only
\* concerns stage 1, whose action is off, and is left out.
RwdtInit ==
    Disable("timg1") \o Disable("lp") \o Disable("swd")
        \o <<W("timg0", "saved", NominalPre), Unlock("timg0"),
             W("timg0", "prescaler", NominalPre),
             W("timg0", "stage0", EffectiveTimeout),
             W("timg0", "enable", 1), W("timg0", "feed", 1), Lock("timg0")>>

RwdtDeinit == Disable("timg0")

RwdtKick == <<Unlock("timg0"), W("timg0", "feed", 1), Lock("timg0")>>

\* Fault: suspending disables the dog.
SuspendByDisabling == Disable("timg0")

RwdtSuspend ==
    <<Unlock("timg0"), W("timg0", "prescaler", MaxPre), W("timg0", "feed", 1),
      Lock("timg0")>>

\* "restore" writes the prescaler that init saved.
RwdtResume ==
    <<Unlock("timg0"), W("timg0", "restore", 0), W("timg0", "feed", 1),
      Lock("timg0")>>

Functions == {"sterilize", "init", "deinit", "kick", "suspend", "resume"}
Body(f) ==
    CASE f = "sterilize" -> Sterilize
      [] f = "init" -> RwdtInit
      [] f = "deinit" -> RwdtDeinit
      [] f = "kick" -> RwdtKick
      [] f = "suspend" -> RwdtSuspend
      [] f = "resume" -> RwdtResume

-----------------------------------------------------------------------------
(* The hardware. *)

\* What the ROM leaves: every dog may be armed, with timeouts unknown to us.
RegsAtReset ==
    /\ unlocked = {} /\ armed = Dogs
    /\ pre = 0 /\ stage0 = 0 /\ count = 0 /\ sub = 0

RegsReset ==
    /\ unlocked' = {} /\ armed' = Dogs
    /\ pre' = 0 /\ stage0' = 0 /\ count' = 0 /\ sub' = 0

\* A prescaler is never zero: the hardware then divides by one.
Period == IF pre = 0 THEN 1 ELSE pre

\* One write of the running function reaches the registers.
Effect(w) ==
    \/ /\ w.reg = "wprotect"
       /\ unlocked' = IF w.val = 1 THEN unlocked \cup {w.dog}
                      ELSE unlocked \ {w.dog}
       /\ UNCHANGED <<armed, pre, stage0, count, sub, saved>>
    \/ /\ w.reg = "saved"
       /\ saved' = w.val
       /\ UNCHANGED regs
    \/ /\ w.reg \notin {"wprotect", "saved"} /\ w.dog \notin unlocked
       /\ UNCHANGED <<regs, saved>>
    \/ /\ w.reg = "enable" /\ w.dog \in unlocked
       /\ armed' = IF w.val = 1 THEN armed \cup {w.dog} ELSE armed \ {w.dog}
       /\ IF w.dog = "timg0" /\ w.val = 0
          THEN count' = 0 /\ sub' = 0
          ELSE UNCHANGED <<count, sub>>
       /\ UNCHANGED <<unlocked, pre, stage0, saved>>
    \/ /\ w.reg \in {"prescaler", "restore"} /\ w.dog \in unlocked
       /\ pre' = IF w.reg = "restore" THEN saved ELSE w.val
       /\ UNCHANGED <<unlocked, armed, stage0, count, sub, saved>>
    \/ /\ w.reg = "stage0" /\ w.dog \in unlocked
       /\ stage0' = w.val
       /\ UNCHANGED <<unlocked, armed, pre, count, sub, saved>>
    \/ /\ w.reg = "feed" /\ w.dog \in unlocked
       /\ count' = 0
       /\ UNCHANGED <<unlocked, armed, pre, stage0, sub, saved>>

\* The code has programmed TIMG0: before that its timeout is the ROM's.
Programmed == stage0 # 0

\* TIMG0 bites when its count is up; the others, and TIMG0 as the ROM left it,
\* bite at any time while they are armed.
Bites(dog) ==
    /\ dog \in armed
    /\ dog = "timg0" /\ Programmed => count >= stage0

\* One unit of time passes; a dog whose count is up bites first.
TimeStep ==
    /\ "timg0" \in armed /\ Programmed => count < stage0
    /\ IF "timg0" \in armed /\ Programmed
       THEN IF sub + 1 >= Period
            THEN sub' = 0 /\ count' = count + 1
            ELSE sub' = sub + 1 /\ count' = count
       ELSE UNCHANGED <<count, sub>>
    /\ UNCHANGED <<unlocked, armed, pre, stage0, saved, fn, ip>>

-----------------------------------------------------------------------------
(* The running function. *)

Idle == fn = "none"

Start(f) ==
    /\ Idle
    /\ fn' = f /\ ip' = 1
    /\ UNCHANGED <<regs, saved>>

\* It makes its next write, and is done after the last.
RegWrite ==
    /\ ~Idle
    /\ Effect(Body(fn)[ip])
    /\ IF ip < Len(Body(fn)) THEN fn' = fn /\ ip' = ip + 1
       ELSE fn' = "none" /\ ip' = 0

Returning == ~Idle /\ ip = Len(Body(fn))
=============================================================================
