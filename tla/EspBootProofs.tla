--------------------------- MODULE EspBootProofs ----------------------------
(* Proofs about EspBoot for every timeout, prescaler and set of causes.     *)
EXTENDS EspBoot, TLAPS

LEMMA Doubled ==
    /\ EffectiveTimeout = 2 * Timeout
    /\ EffectiveTimeout > 0 /\ EffectiveTimeout \in Nat
<1>1. \A n, m \in Nat : n < m => n % m = n
  OBVIOUS
<1> QED
  BY <1>1, WdtAssumption DEF WdtAssumption, EffectiveTimeout

-----------------------------------------------------------------------------
(* The bodies of the functions. *)

\* Every register is written between the unlocking and the locking of its dog:
\* the lock that stands open before write w, and the one behind it.
Unlocks(w) == w.reg = "wprotect" /\ w.val = 1
Before(w) == IF Unlocks(w) \/ w.reg = "saved" THEN {} ELSE {w.dog}
Behind(w) == IF w.reg = "saved" \/ w = Lock(w.dog) THEN {} ELSE {w.dog}

\* What write w leaves, when the lock it needs is open.
ArmedBy(w) ==
    IF w.reg # "enable" THEN armed
    ELSE IF w.val = 1 THEN armed \cup {w.dog} ELSE armed \ {w.dog}
PreBy(w) ==
    IF w.reg = "prescaler" THEN w.val ELSE IF w.reg = "restore" THEN saved ELSE pre

LEMMA EffectIs ==
    ASSUME NEW w, Effect(w), unlocked = Before(w),
           w.reg = "wprotect" => w = Lock(w.dog) \/ w = Unlock(w.dog)
    PROVE  /\ unlocked' = Behind(w)
           /\ armed' = ArmedBy(w) /\ pre' = PreBy(w)
           /\ stage0' = IF w.reg = "stage0" THEN w.val ELSE stage0
           /\ saved' = IF w.reg = "saved" THEN w.val ELSE saved
           /\ \/ w.reg = "feed" /\ count' = 0 /\ sub' = sub
              \/ w.reg = "enable" /\ count' = 0 /\ sub' = 0
              \/ w.reg # "feed" /\ count' = count /\ sub' = sub
  BY DEF Effect, Before, Behind, Unlocks, ArmedBy, PreBy, W, Lock, Unlock, regs

LEMMA SterilizeIs ==
    /\ Len(Sterilize) = 12
    /\ Sterilize[1] = Unlock("timg0") /\ Sterilize[2] = W("timg0", "enable", 0)
    /\ Sterilize[3] = Lock("timg0")
    /\ Sterilize[4] = Unlock("timg1") /\ Sterilize[5] = W("timg1", "enable", 0)
    /\ Sterilize[6] = Lock("timg1")
    /\ Sterilize[7] = Unlock("lp") /\ Sterilize[8] = W("lp", "enable", 0)
    /\ Sterilize[9] = Lock("lp")
    /\ Sterilize[10] = Unlock("swd") /\ Sterilize[11] = W("swd", "enable", 0)
    /\ Sterilize[12] = Lock("swd")
  BY DEF Sterilize, Disable, W, Unlock, Lock

LEMMA InitIs ==
    /\ Len(RwdtInit) = 16
    /\ RwdtInit[1] = Unlock("timg1") /\ RwdtInit[2] = W("timg1", "enable", 0)
    /\ RwdtInit[3] = Lock("timg1")
    /\ RwdtInit[4] = Unlock("lp") /\ RwdtInit[5] = W("lp", "enable", 0)
    /\ RwdtInit[6] = Lock("lp")
    /\ RwdtInit[7] = Unlock("swd") /\ RwdtInit[8] = W("swd", "enable", 0)
    /\ RwdtInit[9] = Lock("swd")
    /\ RwdtInit[10] = W("timg0", "saved", NominalPre)
    /\ RwdtInit[11] = Unlock("timg0")
    /\ RwdtInit[12] = W("timg0", "prescaler", NominalPre)
    /\ RwdtInit[13] = W("timg0", "stage0", EffectiveTimeout)
    /\ RwdtInit[14] = W("timg0", "enable", 1)
    /\ RwdtInit[15] = W("timg0", "feed", 1)
    /\ RwdtInit[16] = Lock("timg0")
  BY DEF RwdtInit, Disable, W, Unlock, Lock

LEMMA ShortOnes ==
    /\ Len(RwdtDeinit) = 3 /\ Len(RwdtKick) = 3
    /\ Len(RwdtSuspend) = 4 /\ Len(RwdtResume) = 4
    /\ RwdtDeinit[1] = Unlock("timg0") /\ RwdtDeinit[2] = W("timg0", "enable", 0)
    /\ RwdtDeinit[3] = Lock("timg0")
    /\ RwdtKick[1] = Unlock("timg0") /\ RwdtKick[2] = W("timg0", "feed", 1)
    /\ RwdtKick[3] = Lock("timg0")
    /\ RwdtSuspend[1] = Unlock("timg0") /\ RwdtSuspend[2] = W("timg0", "prescaler", MaxPre)
    /\ RwdtSuspend[3] = W("timg0", "feed", 1) /\ RwdtSuspend[4] = Lock("timg0")
    /\ RwdtResume[1] = Unlock("timg0") /\ RwdtResume[2] = W("timg0", "restore", 0)
    /\ RwdtResume[3] = W("timg0", "feed", 1) /\ RwdtResume[4] = Lock("timg0")
  BY DEF RwdtDeinit, RwdtKick, RwdtSuspend, RwdtResume, Disable, W, Unlock, Lock

LEMMA BodyIs ==
    /\ Body("sterilize") = Sterilize /\ Body("init") = RwdtInit
    /\ Body("deinit") = RwdtDeinit /\ Body("kick") = RwdtKick
    /\ Body("suspend") = RwdtSuspend /\ Body("resume") = RwdtResume
  BY DEF Body

\* The i-th write of a body: it needs the lock that the write before it left.
Shaped(body, i) ==
    LET w == body[i]
    IN  /\ w.dog \in Dogs
        /\ w.reg \in {"wprotect", "enable", "prescaler", "restore", "stage0", "feed",
                      "saved"}
        /\ w.reg = "wprotect" => w = Lock(w.dog) \/ w = Unlock(w.dog)
        /\ i = 1 => Before(w) = {}
        /\ IF i = Len(body) THEN Behind(w) = {} ELSE Before(body[i + 1]) = Behind(w)

LEMMA SterilizeShaped == \A i \in 1 .. 12 : Shaped(Sterilize, i)
<1>1. \A i \in 1 .. 3 : Shaped(Sterilize, i)
  <2>1. Shaped(Sterilize, 1)
    BY SterilizeIs DEF Shaped, Before, Behind, Unlocks, W, Lock, Unlock, Dogs
  <2>2. Shaped(Sterilize, 2)
    BY SterilizeIs DEF Shaped, Before, Behind, Unlocks, W, Lock, Unlock, Dogs
  <2>3. Shaped(Sterilize, 3)
    BY SterilizeIs DEF Shaped, Before, Behind, Unlocks, W, Lock, Unlock, Dogs
  <2> QED
    BY <2>1, <2>2, <2>3
<1>2. \A i \in 4 .. 6 : Shaped(Sterilize, i)
  BY SterilizeIs DEF Shaped, Before, Behind, Unlocks, W, Lock, Unlock, Dogs
<1>3. \A i \in 7 .. 9 : Shaped(Sterilize, i)
  BY SterilizeIs DEF Shaped, Before, Behind, Unlocks, W, Lock, Unlock, Dogs
<1>4. \A i \in 10 .. 12 : Shaped(Sterilize, i)
  BY SterilizeIs DEF Shaped, Before, Behind, Unlocks, W, Lock, Unlock, Dogs
<1> QED
  BY <1>1, <1>2, <1>3, <1>4

LEMMA InitShaped == \A i \in 1 .. 16 : Shaped(RwdtInit, i)
<1>1. \A i \in 1 .. 3 : Shaped(RwdtInit, i)
  BY InitIs DEF Shaped, Before, Behind, Unlocks, W, Lock, Unlock, Dogs
<1>2. \A i \in 4 .. 6 : Shaped(RwdtInit, i)
  BY InitIs DEF Shaped, Before, Behind, Unlocks, W, Lock, Unlock, Dogs
<1>3. \A i \in 7 .. 9 : Shaped(RwdtInit, i)
  BY InitIs DEF Shaped, Before, Behind, Unlocks, W, Lock, Unlock, Dogs
<1>4. \A i \in 10 .. 12 : Shaped(RwdtInit, i)
  BY InitIs DEF Shaped, Before, Behind, Unlocks, W, Lock, Unlock, Dogs
<1>5. \A i \in 13 .. 15 : Shaped(RwdtInit, i)
  BY InitIs DEF Shaped, Before, Behind, Unlocks, W, Lock, Unlock, Dogs
<1>6. \A i \in 16 .. 16 : Shaped(RwdtInit, i)
  BY InitIs DEF Shaped, Before, Behind, Unlocks, W, Lock, Unlock, Dogs
<1> QED
  BY <1>1, <1>2, <1>3, <1>4, <1>5, <1>6

LEMMA ShortShaped ==
    /\ \A i \in 1 .. 3 : Shaped(RwdtDeinit, i)
    /\ \A i \in 1 .. 3 : Shaped(RwdtKick, i)
    /\ \A i \in 1 .. 4 : Shaped(RwdtSuspend, i)
    /\ \A i \in 1 .. 4 : Shaped(RwdtResume, i)
<1>1. \A i \in 1 .. 3 : Shaped(RwdtDeinit, i)
  BY ShortOnes DEF Shaped, Before, Behind, Unlocks, W, Lock, Unlock, Dogs
<1>2. \A i \in 1 .. 3 : Shaped(RwdtKick, i)
  <2>1. Shaped(RwdtKick, 1)
    BY ShortOnes DEF Shaped, Before, Behind, Unlocks, W, Lock, Unlock, Dogs
  <2>2. Shaped(RwdtKick, 2)
    BY ShortOnes DEF Shaped, Before, Behind, Unlocks, W, Lock, Unlock, Dogs
  <2>3. Shaped(RwdtKick, 3)
    BY ShortOnes DEF Shaped, Before, Behind, Unlocks, W, Lock, Unlock, Dogs
  <2> QED
    BY <2>1, <2>2, <2>3
<1>3. \A i \in 1 .. 2 : Shaped(RwdtSuspend, i)
  BY ShortOnes DEF Shaped, Before, Behind, Unlocks, W, Lock, Unlock, Dogs
<1>4. \A i \in 3 .. 4 : Shaped(RwdtSuspend, i)
  BY ShortOnes DEF Shaped, Before, Behind, Unlocks, W, Lock, Unlock, Dogs
<1>5. \A i \in 1 .. 2 : Shaped(RwdtResume, i)
  BY ShortOnes DEF Shaped, Before, Behind, Unlocks, W, Lock, Unlock, Dogs
<1>6. \A i \in 3 .. 4 : Shaped(RwdtResume, i)
  BY ShortOnes DEF Shaped, Before, Behind, Unlocks, W, Lock, Unlock, Dogs
<1> QED
  BY <1>1, <1>2, <1>3, <1>4, <1>5, <1>6

\* The length of a body; every write of it is shaped.
Length(f) == CASE f = "sterilize" -> 12 [] f = "init" -> 16
               [] f \in {"deinit", "kick"} -> 3 [] f \in {"suspend", "resume"} -> 4

LEMMA Bracketed ==
    ASSUME NEW f \in Functions
    PROVE  /\ Len(Body(f)) = Length(f)
           /\ \A i \in 1 .. Length(f) : Shaped(Body(f), i)
  BY BodyIs, SterilizeIs, InitIs, ShortOnes, SterilizeShaped, InitShaped, ShortShaped
  DEF Functions, Length


\* What the writes of each function are, as far as the invariants tell them apart.
LEMMA SterilizeWrites ==
    ASSUME NEW i \in 1 .. 12
    PROVE  LET w == Sterilize[i]
           IN  /\ w.reg \in {"wprotect", "enable"}
               /\ w.reg = "enable" => w.val = 0
               /\ i = 2 => w.reg = "enable" /\ w.dog = "timg0"
               /\ i = 5 => w.reg = "enable" /\ w.dog = "timg1"
               /\ i = 8 => w.reg = "enable" /\ w.dog = "lp"
               /\ i = 11 => w.reg = "enable" /\ w.dog = "swd"
  BY SterilizeIs DEF W, Lock, Unlock

LEMMA InitWrites ==
    ASSUME NEW i \in 1 .. 16
    PROVE  LET w == RwdtInit[i]
           IN  /\ w.reg \in {"wprotect", "enable", "saved", "prescaler", "stage0", "feed"}
               /\ w.reg = "enable" => IF i = 14 THEN w.val = 1 /\ w.dog = "timg0"
                                      ELSE w.val = 0
               /\ (w.reg = "saved") <=> (i = 10)
               /\ (w.reg = "prescaler") <=> (i = 12)
               /\ (w.reg = "stage0") <=> (i = 13)
               /\ (w.reg = "feed") <=> (i = 15)
               /\ i = 14 => w.reg = "enable"
               /\ w.reg \in {"saved", "prescaler"} => w.val = NominalPre
               /\ w.reg = "stage0" => w.val = EffectiveTimeout
  BY InitIs DEF W, Lock, Unlock

LEMMA ShortWrites ==
    ASSUME NEW f \in {"deinit", "kick", "suspend", "resume"}, NEW i \in 1 .. Length(f)
    PROVE  LET w == Body(f)[i]
           IN  /\ w.dog = "timg0" /\ Length(f) = IF f \in {"deinit", "kick"} THEN 3 ELSE 4
               /\ w.reg \in {"wprotect", "enable", "prescaler", "restore", "feed"}
               /\ (w.reg = "enable") <=> (f = "deinit" /\ i = 2)
               /\ w.reg = "enable" => w.val = 0
               /\ (w.reg = "prescaler") <=> (f = "suspend" /\ i = 2)
               /\ w.reg = "prescaler" => w.val = MaxPre
               /\ (w.reg = "restore") <=> (f = "resume" /\ i = 2)
               /\ (w.reg = "feed") <=> (\/ f = "kick" /\ i = 2
                                        \/ f \in {"suspend", "resume"} /\ i = 3)
<1>1. CASE f = "deinit"
  BY <1>1, ShortOnes, BodyIs DEF W, Lock, Unlock, Length
<1>2. CASE f = "kick"
  BY <1>2, ShortOnes, BodyIs DEF W, Lock, Unlock, Length
<1>3. CASE f = "suspend"
  BY <1>3, ShortOnes, BodyIs DEF W, Lock, Unlock, Length
<1>4. CASE f = "resume"
  BY <1>4, ShortOnes, BodyIs DEF W, Lock, Unlock, Length
<1> QED
  BY <1>1, <1>2, <1>3, <1>4

-----------------------------------------------------------------------------
(* Types. *)

LEMMA Times == TimeCap \in Nat
<1>1. \A n, m \in Nat : n * m \in Nat
  OBVIOUS
<1> QED
  BY <1>1, WdtAssumption DEF WdtAssumption, TimeCap

LEMMA ReasonIsOne == ASSUME NEW c PROVE ReasonOf(c) \in Reasons
  BY CauseAssumption DEF CauseAssumption, ReasonOf

LEMMA CausesKnown ==
    /\ \A dog \in Dogs : CausesOf(dog) \subseteq Causes
    /\ "rtcwdt_sys" \in WatchdogCauses /\ "rtcwdt_sys" \in Causes
    /\ OtherCauses \subseteq Causes
<1>1. "rtcwdt_sys" \in CausesOf("lp") /\ "lp" \in Dogs
  BY DEF CausesOf, Dogs
<1> QED
  BY <1>1, CauseAssumption DEF CauseAssumption

\* A running function is at one of its writes.
Running == fn # "none" => fn \in Functions /\ ip \in 1 .. Length(fn)

Typing == TypeOK /\ Running

LEMMA SramTyped ==
    ASSUME NEW sram \in SramAfterPowerLoss
    PROVE  /\ sram.cached \in BOOLEAN /\ sram.reason \in Reasons
           /\ sram.prescaler \in {0, NominalPre, MaxPre}
<1>1. CASE sram = [cached |-> FALSE, reason |-> "unknown", prescaler |-> 0]
  BY <1>1, CauseAssumption DEF CauseAssumption
<1>2. CASE sram \in [cached : {TRUE}, reason : Reasons, prescaler : {MaxPre}]
  BY <1>2
<1> QED
  BY <1>1, <1>2 DEF SramAfterPowerLoss

LEMMA TypeInit == Init => Typing
<1> SUFFICES ASSUME Init PROVE Typing
  OBVIOUS
<1>1. sCached \in BOOLEAN /\ sReason \in Reasons /\ saved \in {0, NominalPre, MaxPre}
  BY SramTyped DEF Init
<1>2. cause \in Causes
  BY CausesKnown DEF Init, OtherCauses
<1>3. /\ unlocked \subseteq Dogs /\ armed \subseteq Dogs
      /\ pre \in {0, NominalPre, MaxPre} /\ stage0 \in {0, EffectiveTimeout}
      /\ count \in 0 .. EffectiveTimeout /\ sub \in 0 .. MaxPre
  BY Doubled, WdtAssumption DEF Init, RegsAtReset, WdtAssumption
<1>4. /\ fn = "none" /\ ip \in Nat /\ at \in Points /\ reported = "none"
      /\ mode \in Modes /\ entry \in 0 .. TimeCap /\ served \in 0 .. TimeCap
  BY Times DEF Init, Points, Flow, Modes
<1>5. bitten \in BOOLEAN
  BY Zenon DEF Init
<1> QED
  BY <1>1, <1>2, <1>3, <1>4, <1>5 DEF Typing, TypeOK, Running

LEMMA RestartTyped ==
    ASSUME NEW c \in Causes, NEW b \in BOOLEAN, Restart(c, b),
           saved' \in {0, NominalPre, MaxPre}, sCached' \in BOOLEAN, sReason' \in Reasons
    PROVE  Typing'
  BY Doubled, Times, WdtAssumption
  DEF Restart, RegsReset, Typing, TypeOK, Running, Points, Flow, Modes, WdtAssumption

LEMMA PowerTyped == ASSUME Typing, PowerOn PROVE Typing'
<1>1. PICK c \in {"poweron", "brownout"} : Restart(c, FALSE)
  BY DEF PowerOn
<1>2. c \in Causes
  BY <1>1, CausesKnown DEF OtherCauses
<1>3. saved' \in {0, NominalPre, MaxPre} /\ sCached' \in BOOLEAN /\ sReason' \in Reasons
  BY SramTyped DEF PowerOn
<1> QED
  BY <1>1, <1>2, <1>3, RestartTyped

LEMMA ResetTyped ==
    ASSUME Typing, WatchdogBite \/ EccReset \/ SoftReset PROVE Typing'
<1>1. \E c \in Causes, b \in BOOLEAN : Restart(c, b)
  BY CausesKnown DEF WatchdogBite, Bite, EccReset, SoftReset, OtherCauses
<1>2. UNCHANGED <<sCached, sReason, saved>>
  BY DEF WatchdogBite, Bite, EccReset, SoftReset
<1> QED
  BY <1>1, <1>2, RestartTyped DEF Typing, TypeOK

\* A write of a running function keeps its value in the register's range.
LEMMA WriteTyped ==
    ASSUME NEW f \in Functions, NEW i \in 1 .. Length(f)
    PROVE  LET w == Body(f)[i]
           IN  /\ w.dog \in Dogs
               /\ w.reg = "prescaler" => w.val \in {NominalPre, MaxPre}
               /\ w.reg = "stage0" => w.val = EffectiveTimeout
               /\ w.reg = "saved" => w.val = NominalPre
<1>1. Body(f)[i].dog \in Dogs
  BY Bracketed DEF Shaped
<1>2. CASE f = "sterilize"
  BY <1>1, <1>2, SterilizeWrites, BodyIs DEF Length
<1>3. CASE f = "init"
  BY <1>1, <1>3, InitWrites, BodyIs DEF Length
<1>4. CASE f \in {"deinit", "kick", "suspend", "resume"}
  BY <1>1, <1>4, ShortWrites
<1> QED
  BY <1>2, <1>3, <1>4 DEF Functions

LEMMA DriverTyped == ASSUME Typing, DriverWrite PROVE Typing'
<1> DEFINE w == Body(fn)[ip]
<1>1. fn \in Functions /\ ip \in 1 .. Length(fn) /\ Effect(w)
  BY DEF Typing, Running, DriverWrite, RegWrite, Idle
<1>2. /\ w.dog \in Dogs
      /\ w.reg = "prescaler" => w.val \in {NominalPre, MaxPre}
      /\ w.reg = "stage0" => w.val = EffectiveTimeout
      /\ w.reg = "saved" => w.val = NominalPre
  BY <1>1, WriteTyped
<1> HIDE DEF w
<1>3. /\ unlocked' \subseteq Dogs /\ armed' \subseteq Dogs
      /\ pre' \in {0, NominalPre, MaxPre} /\ stage0' \in {0, EffectiveTimeout}
      /\ count' \in 0 .. EffectiveTimeout /\ sub' \in 0 .. MaxPre
      /\ saved' \in {0, NominalPre, MaxPre}
  BY <1>1, <1>2, Doubled, WdtAssumption DEF Effect, Typing, TypeOK, regs, WdtAssumption
<1>4. Running' /\ fn' \in Functions \cup {"none"} /\ ip' \in Nat
  <2>1. Len(Body(fn)) = Length(fn) /\ Length(fn) \in Nat
    BY <1>1, Bracketed DEF Length, Functions
  <2> QED
    BY <1>1, <2>1 DEF DriverWrite, RegWrite, Running, Functions
<1>5. mode' \in Modes /\ served' \in 0 .. TimeCap /\ UNCHANGED <<bootVars, bitten, entry>>
  BY <1>1 DEF DriverWrite, ModeAfter, Typing, TypeOK, Modes
<1> QED
  BY <1>3, <1>4, <1>5 DEF Typing, TypeOK, bootVars

LEMMA BeginTyped ==
    ASSUME Typing, NEW f \in Functions, Begin(f)
    PROVE  /\ Running' /\ fn' \in Functions \cup {"none"} /\ ip' \in Nat
           /\ mode' \in Modes /\ entry' \in 0 .. TimeCap
           /\ UNCHANGED <<regs, saved, bitten, served>>
<1>1. 1 \in 1 .. Length(f)
  BY DEF Length, Functions
<1> QED
  BY <1>1, Times DEF Begin, Start, Running, Typing, TypeOK, Modes

LEMMA TimeTyped == ASSUME Typing, Time PROVE Typing'
<1>1. \A t \in 0 .. TimeCap : Later(t) \in 0 .. TimeCap
  BY Times DEF Later
<1>2. count' \in 0 .. EffectiveTimeout /\ sub' \in 0 .. MaxPre
  BY Doubled, WdtAssumption
  DEF Time, TimeStep, Typing, TypeOK, Period, Programmed, WdtAssumption
<1> QED
  BY <1>1, <1>2 DEF Time, TimeStep, Typing, TypeOK, Running, bootVars

LEMMA TypeStep == Typing /\ [Next]_vars => Typing'
<1> SUFFICES ASSUME Typing, [Next]_vars PROVE Typing'
  OBVIOUS
<1>1. CASE RomJumps
  BY <1>1, BeginTyped DEF RomJumps, Goto, Typing, TypeOK, regs, Points, Flow, Functions
<1>2. CASE Advance
  BY <1>2 DEF Advance, Goto, After, Typing, TypeOK, Running, regs, wdtVars, ghosts,
      Points, Flow
<1>3. CASE BssInit
  BY <1>3, CauseAssumption
  DEF BssInit, Goto, Typing, TypeOK, Running, regs, ghosts, Points, Flow, CauseAssumption
<1>4. CASE FlashInit
  <2>1. CASE Begin("init") /\ Goto("wdt")
    BY <1>4, <2>1, BeginTyped
    DEF FlashInit, Goto, Typing, TypeOK, regs, Points, Flow, Functions
  <2>2. CASE Goto("panic") /\ UNCHANGED <<wdtVars, ghosts>>
    BY <1>4, <2>2
    DEF FlashInit, Goto, Typing, TypeOK, Running, regs, wdtVars, ghosts, Points, Stopped
  <2> QED
    BY <1>4, <2>1, <2>2 DEF FlashInit
<1>5. CASE CallWatchdog
  BY <1>5, BeginTyped DEF CallWatchdog, Typing, TypeOK, regs, bootVars, Functions
<1>6. CASE AskReason
  BY <1>6, ReasonIsOne DEF AskReason, Typing, TypeOK, Running, regs, wdtVars, ghosts
<1>7. CASE BootMainEnds
  BY <1>7 DEF BootMainEnds, Typing, TypeOK, Running, regs, wdtVars, ghosts, Points, Stopped
<1>8. CASE Trap
  BY <1>8 DEF Trap, Typing, TypeOK, Running, regs, ghosts, Points, Stopped, Flow
<1>9. CASE UNCHANGED vars
  BY <1>9 DEF vars, wdtVars, bootVars, ghosts, regs, Typing, TypeOK, Running
<1> QED
  BY <1>1, <1>2, <1>3, <1>4, <1>5, <1>6, <1>7, <1>8, <1>9, PowerTyped, ResetTyped,
     DriverTyped, TimeTyped
  DEF Next

\* The boot flow and the watchdog registers keep their types, for every timeout,
\* prescaler and table of reset codes.
THEOREM TypeCorrect == Spec => []TypeOK
<1>1. Typing => TypeOK
  BY DEF Typing
<1> QED
  BY <1>1, TypeInit, TypeStep, PTL DEF Spec

-----------------------------------------------------------------------------
(* The reset reason. *)

LEMMA WatchdogReason ==
    ASSUME NEW c PROVE (ReasonOf(c) = "watchdog") <=> (c \in WatchdogCauses)
  BY DEF ReasonOf

\* The flow behind bss_init; only it can read what it has cached itself.
Cleared == {"clock", "flash", "wdt", "crypto", "confirm", "console", "boot_main"}

\* The cause register tells who reset, and what has been cached or told in this
\* boot was read from it.
Known ==
    /\ bitten \in BOOLEAN
    /\ bitten <=> cause \in WatchdogCauses
    /\ at \in Cleared /\ sCached => sReason = ReasonOf(cause)
    /\ reported # "none" => reported = ReasonOf(cause)

LEMMA RestartKnown ==
    ASSUME NEW c, NEW b \in BOOLEAN, Restart(c, b), b <=> c \in WatchdogCauses
    PROVE  Known'
  BY DEF Restart, Known, Cleared

LEMMA ResetKnown ==
    ASSUME WatchdogBite \/ EccReset \/ SoftReset \/ PowerOn PROVE Known'
<1>1. CASE WatchdogBite
  <2>1. PICK c \in WatchdogCauses : Restart(c, TRUE)
    BY <1>1, CauseAssumption DEF WatchdogBite, Bite, CauseAssumption
  <2> QED
    BY <2>1, RestartKnown
<1>2. CASE EccReset
  BY <1>2, CausesKnown, RestartKnown DEF EccReset
<1>3. CASE SoftReset \/ PowerOn
  <2>1. PICK c \in OtherCauses : Restart(c, FALSE)
    BY <1>3 DEF SoftReset, PowerOn, OtherCauses
  <2>2. c \notin WatchdogCauses
    BY CauseAssumption DEF CauseAssumption
  <2> QED
    BY <2>1, <2>2, RestartKnown
<1> QED
  BY <1>1, <1>2, <1>3

LEMMA KnownInit == Init => Known
<1>1. "poweron" \notin WatchdogCauses
  BY CauseAssumption DEF CauseAssumption, OtherCauses
<1> QED
  BY <1>1, Zenon DEF Init, Known, Cleared

LEMMA KnownStep == Known /\ [Next]_vars => Known'
<1> SUFFICES ASSUME Known, [Next]_vars PROVE Known'
  OBVIOUS
<1>1. CASE DriverWrite \/ CallWatchdog \/ Time
  BY <1>1 DEF DriverWrite, CallWatchdog, Begin, Time, bootVars, Known
<1>2. CASE RomJumps
  BY <1>2 DEF RomJumps, Goto, Begin, Known, Cleared
<1>3. CASE Advance
  BY <1>3 DEF Advance, Goto, After, ghosts, Known, Cleared
<1>4. CASE BssInit
  BY <1>4 DEF BssInit, Goto, ghosts, Known, Cleared
<1>5. CASE FlashInit
  BY <1>5 DEF FlashInit, Goto, Begin, ghosts, Known, Cleared
<1>6. CASE AskReason
  BY <1>6 DEF AskReason, ghosts, Known, Cleared
<1>7. CASE BootMainEnds
  BY <1>7 DEF BootMainEnds, ghosts, Known, Cleared
<1>8. CASE Trap
  BY <1>8 DEF Trap, ghosts, Known, Cleared
<1>9. CASE UNCHANGED vars
  BY <1>9 DEF vars, bootVars, ghosts, Known
<1> QED
  BY <1>1, <1>2, <1>3, <1>4, <1>5, <1>6, <1>7, <1>8, <1>9, ResetKnown DEF Next

\* boot_main is told of a watchdog exactly after a watchdog's reset, whatever
\* the last boot or a failing supply left in the cache of the reset reason.
THEOREM ReasonIsTrue == Spec => []WatchdogResetReported
<1>1. Known => WatchdogResetReported
  BY WatchdogReason DEF Known, WatchdogResetReported
<1> QED
  BY <1>1, KnownInit, KnownStep, PTL DEF Spec

-----------------------------------------------------------------------------
(* The watchdog registers. *)

Early == {"rom", "sterilize", "mtvec", "irq", "bss", "clock", "flash"}
Short == {"kick", "suspend", "resume", "deinit"}

\* Which function runs where, and the mode the flow has reached.
Placed ==
    /\ at \in Early => mode = "none"
    /\ at = "wdt" => mode = IF fn = "init" THEN "none" ELSE "on"
    /\ at \in {"crypto", "confirm", "console"} => mode = "on"
    /\ at \in {"boot_main", "os"} => mode # "none"
    /\ fn = "sterilize" => at = "sterilize"
    /\ fn = "init" => at = "wdt"
    /\ fn \in Short => at = "boot_main"
    /\ fn = "deinit" => mode = "off"

\* Code that runs finds open only the lock that its next write needs.
Locked == at \notin Stopped => unlocked = IF Idle THEN {} ELSE Before(Body(fn)[ip])

\* The dogs that the function running has not yet disabled, or has armed.
Chained ==
    /\ at \notin {"rom", "sterilize"} => armed \subseteq {"timg0"}
    /\ at = "sterilize" =>
          /\ fn = "none" \/ ip > 2 => "timg0" \notin armed
          /\ fn = "none" \/ ip > 5 => "timg1" \notin armed
          /\ fn = "none" \/ ip > 8 => "lp" \notin armed
          /\ fn = "none" \/ ip > 11 => "swd" \notin armed
    /\ at \in Early \ {"rom", "sterilize"} => armed = {}
    /\ fn = "init" => armed = IF ip > 14 THEN {"timg0"} ELSE {}
    /\ mode \in {"on", "suspended"} /\ at \notin Stopped => armed = {"timg0"}
    /\ mode = "off" /\ at \notin Stopped /\ (fn = "deinit" => ip > 2) => armed = {}

\* What is programmed into TIMG0.
Programming ==
    /\ fn = "init" =>
          /\ ip > 10 => saved = NominalPre
          /\ ip > 12 => pre = NominalPre
          /\ ip > 13 => stage0 = EffectiveTimeout
    /\ mode # "none" /\ at \notin Stopped => saved = NominalPre /\ stage0 = EffectiveTimeout
    /\ mode = "on" /\ at \notin Stopped =>
          pre = IF fn = "suspend" /\ ip > 2 THEN MaxPre ELSE NominalPre
    /\ mode = "suspended" /\ at \notin Stopped =>
          pre = IF fn = "resume" /\ ip > 2 THEN NominalPre ELSE MaxPre
    /\ Programmed => pre \in {NominalPre, MaxPre}

Control == Placed /\ Locked /\ Chained /\ Programming

RunInv == Typing /\ Control

LEMMA RunInit == Init => RunInv
<1> SUFFICES ASSUME Init PROVE Control
  BY TypeInit DEF RunInv
<1> QED
  BY DEF Init, RegsAtReset, Control, Placed, Locked, Chained, Programming, Programmed, Idle,
         Early, Short, Stopped

LEMMA RestartControlled == ASSUME NEW c, NEW b, Restart(c, b) PROVE Control'
  BY DEF Restart, RegsReset, Control, Placed, Locked, Chained, Programming, Programmed, Idle,
         Early, Short, Stopped

\* A write of a running function is in effect at once.
LEMMA WriteLands ==
    ASSUME RunInv, DriverWrite
    PROVE  LET w == Body(fn)[ip]
           IN  /\ fn \in Functions /\ ip \in 1 .. Length(fn) /\ Length(fn) \in Nat
               /\ w.dog \in Dogs
               /\ unlocked' = IF Idle' THEN {} ELSE Before(Body(fn')[ip'])
               /\ armed' = ArmedBy(w) /\ pre' = PreBy(w)
               /\ stage0' = IF w.reg = "stage0" THEN w.val ELSE stage0
               /\ saved' = IF w.reg = "saved" THEN w.val ELSE saved
               /\ \/ w.reg = "feed" /\ count' = 0 /\ sub' = sub
                  \/ w.reg = "enable" /\ count' = 0 /\ sub' = 0
                  \/ w.reg # "feed" /\ count' = count /\ sub' = sub
               /\ at' = at
               /\ IF ip < Length(fn) THEN fn' = fn /\ ip' = ip + 1 /\ mode' = mode
                  ELSE fn' = "none" /\ ip' = 0 /\ mode' = ModeAfter(fn)
<1> DEFINE w == Body(fn)[ip]
<1>1. fn \in Functions /\ ip \in 1 .. Length(fn)
  BY DEF RunInv, Typing, Running, DriverWrite, RegWrite, Idle
<1>2. Len(Body(fn)) = Length(fn) /\ Shaped(Body(fn), ip) /\ Length(fn) \in Nat
  BY <1>1, Bracketed DEF Functions, Length
<1>3. Effect(w) /\ unlocked = Before(w) /\ at' = at
  BY DEF RunInv, Control, Locked, DriverWrite, RegWrite, bootVars
<1>4. w.reg = "wprotect" => w = Lock(w.dog) \/ w = Unlock(w.dog)
  BY <1>2 DEF Shaped
<1>5. /\ unlocked' = Behind(w)
      /\ armed' = ArmedBy(w) /\ pre' = PreBy(w)
      /\ stage0' = IF w.reg = "stage0" THEN w.val ELSE stage0
      /\ saved' = IF w.reg = "saved" THEN w.val ELSE saved
      /\ \/ w.reg = "feed" /\ count' = 0 /\ sub' = sub
         \/ w.reg = "enable" /\ count' = 0 /\ sub' = 0
         \/ w.reg # "feed" /\ count' = count /\ sub' = sub
  BY <1>3, <1>4, EffectIs
<1>6. IF ip < Length(fn) THEN fn' = fn /\ ip' = ip + 1 /\ mode' = mode
      ELSE fn' = "none" /\ ip' = 0 /\ mode' = ModeAfter(fn)
  BY <1>1, <1>2 DEF DriverWrite, RegWrite, Returning
<1>7. unlocked' = IF Idle' THEN {} ELSE Before(Body(fn')[ip'])
  <2>1. CASE ip < Length(fn)
    BY <1>1, <1>2, <1>5, <1>6, <2>1 DEF Shaped, Idle, Functions
  <2>2. CASE ip = Length(fn)
    BY <1>1, <1>2, <1>5, <1>6, <2>2 DEF Shaped, Idle
  <2> QED
    BY <1>1, <1>2, <2>1, <2>2
<1> QED
  BY <1>1, <1>2, <1>3, <1>5, <1>6, <1>7 DEF Shaped

LEMMA DriverControlled == ASSUME RunInv, DriverWrite PROVE Control'
<1> DEFINE w == Body(fn)[ip]
<1>0. at \notin Stopped /\ Placed /\ Chained /\ Programming /\ Typing
  BY DEF DriverWrite, RunInv, Control
<1>1. /\ fn \in Functions /\ ip \in 1 .. Length(fn) /\ Length(fn) \in Nat /\ at' = at
      /\ armed' = ArmedBy(w) /\ pre' = PreBy(w)
      /\ stage0' = IF w.reg = "stage0" THEN w.val ELSE stage0
      /\ saved' = IF w.reg = "saved" THEN w.val ELSE saved
      /\ IF ip < Length(fn) THEN fn' = fn /\ ip' = ip + 1 /\ mode' = mode
         ELSE fn' = "none" /\ ip' = 0 /\ mode' = ModeAfter(fn)
  BY WriteLands
<1>2. Locked'
  BY WriteLands DEF Locked
<1>3. CASE fn = "sterilize"
  <2>1. at = "sterilize" /\ mode = "none" /\ ip \in 1 .. 12 /\ w = Sterilize[ip]
    BY <1>0, <1>1, <1>3, BodyIs DEF Placed, Early, Length
  <2>2. mode' = "none" /\ (IF ip < 12 THEN fn' = fn /\ ip' = ip + 1 ELSE fn' = "none")
    BY <1>1, <1>3, <2>1 DEF Length, ModeAfter
  <2>3. Placed'
    BY <1>1, <1>3, <2>1, <2>2 DEF Placed, Early, Short
  <2>4. /\ armed' = IF w.reg = "enable" THEN armed \ {w.dog} ELSE armed
        /\ pre' = pre /\ stage0' = stage0 /\ saved' = saved
    BY <1>1, <2>1, SterilizeWrites DEF ArmedBy, PreBy
  <2>5. Programming'
    BY <1>0, <1>1, <1>3, <2>1, <2>2, <2>4 DEF Programming, Programmed
  <2>6. /\ fn' = "none" \/ ip' > 2 => "timg0" \notin armed'
        /\ fn' = "none" \/ ip' > 5 => "timg1" \notin armed'
        /\ fn' = "none" \/ ip' > 8 => "lp" \notin armed'
        /\ fn' = "none" \/ ip' > 11 => "swd" \notin armed'
    BY <1>0, <1>3, <2>1, <2>2, <2>4, SterilizeWrites DEF Chained
  <2>7. Chained'
    BY <1>1, <1>3, <2>1, <2>2, <2>6 DEF Chained
  <2> QED
    BY <1>2, <2>3, <2>5, <2>7 DEF Control
<1>4. CASE fn = "init"
  <2>1. at = "wdt" /\ mode = "none" /\ ip \in 1 .. 16 /\ w = RwdtInit[ip]
    BY <1>0, <1>1, <1>4, BodyIs DEF Placed, Length
  <2>2. IF ip < 16 THEN fn' = fn /\ ip' = ip + 1 /\ mode' = "none"
        ELSE fn' = "none" /\ mode' = "on"
    BY <1>1, <1>4, <2>1 DEF Length, ModeAfter
  <2>3. Placed'
    BY <1>1, <1>4, <2>1, <2>2 DEF Placed, Early, Short
  <2>4. /\ armed' = IF ip = 14 THEN armed \cup {"timg0"}
                    ELSE IF w.reg = "enable" THEN armed \ {w.dog} ELSE armed
        /\ pre' = IF ip = 12 THEN NominalPre ELSE pre
        /\ stage0' = IF ip = 13 THEN EffectiveTimeout ELSE stage0
        /\ saved' = IF ip = 10 THEN NominalPre ELSE saved
    <3>1. /\ w.reg = "enable" => IF ip = 14 THEN w.val = 1 /\ w.dog = "timg0" ELSE w.val = 0
          /\ (w.reg = "saved") <=> (ip = 10)
          /\ (w.reg = "prescaler") <=> (ip = 12)
          /\ (w.reg = "stage0") <=> (ip = 13)
          /\ ip = 14 => w.reg = "enable"
          /\ w.reg \in {"saved", "prescaler"} => w.val = NominalPre
          /\ w.reg = "stage0" => w.val = EffectiveTimeout
          /\ w.reg # "restore"
      BY <2>1, InitWrites
    <3> HIDE DEF w
    <3> QED
      BY <1>1, <3>1 DEF ArmedBy, PreBy
  <2>5. Programming'
    BY <1>0, <1>1, <1>4, <2>1, <2>2, <2>4 DEF Programming, Programmed
  <2>6. armed = (IF ip > 14 THEN {"timg0"} ELSE {})
    BY <1>0, <1>4 DEF Chained
  <2>7. armed' = IF ip >= 14 THEN {"timg0"} ELSE {}
    <3>1. CASE ip < 14
      BY <2>1, <2>4, <2>6, <3>1
    <3>2. CASE ip = 14
      BY <2>4, <2>6, <3>2
    <3>3. CASE ip > 14
      <4>1. w.reg # "enable"
        BY <2>1, <3>3, InitIs DEF W, Lock
      <4> QED
        BY <2>1, <2>4, <2>6, <3>3, <4>1
    <3> QED
      BY <2>1, <3>1, <3>2, <3>3
  <2>8. Chained'
    <3>1. CASE ip < 16
      <4>1. fn' = "init" /\ mode' = "none" /\ at' = "wdt" /\ (ip' > 14 <=> ip >= 14)
        BY <1>1, <1>4, <2>1, <2>2, <3>1
      <4>2. armed' = (IF ip' > 14 THEN {"timg0"} ELSE {}) /\ armed' \subseteq {"timg0"}
        BY <2>7, <4>1
      <4> QED
        BY <4>1, <4>2 DEF Chained, Early
    <3>2. CASE ip = 16
      BY <1>1, <1>4, <2>1, <2>2, <2>7, <3>2 DEF Chained, Early
    <3> QED
      BY <2>1, <3>1, <3>2
  <2> QED
    BY <1>2, <2>3, <2>5, <2>8 DEF Control
<1>5. CASE fn \in Short
  <2>1. /\ at = "boot_main" /\ mode # "none" /\ ip \in 1 .. Length(fn)
        /\ mode \in {"on", "suspended", "off"}
        /\ fn = "deinit" => mode = "off"
    BY <1>0, <1>1, <1>5 DEF Placed, Short, Typing, TypeOK, Modes
  <2>2. fn \in {"deinit", "kick", "suspend", "resume"}
    BY <1>5 DEF Short
  <2>3. /\ armed' = IF fn = "deinit" /\ ip = 2 THEN armed \ {"timg0"} ELSE armed
        /\ pre' = IF fn = "suspend" /\ ip = 2 THEN MaxPre
                  ELSE IF fn = "resume" /\ ip = 2 THEN saved ELSE pre
        /\ stage0' = stage0 /\ saved' = saved
    <3>1. /\ w.dog = "timg0" /\ w.reg \notin {"saved", "stage0"}
          /\ (w.reg = "enable") <=> (fn = "deinit" /\ ip = 2)
          /\ w.reg = "enable" => w.val = 0
          /\ (w.reg = "prescaler") <=> (fn = "suspend" /\ ip = 2)
          /\ w.reg = "prescaler" => w.val = MaxPre
          /\ (w.reg = "restore") <=> (fn = "resume" /\ ip = 2)
      BY <2>1, <2>2, ShortWrites
    <3> HIDE DEF w
    <3> QED
      BY <1>1, <3>1 DEF ArmedBy, PreBy
  <2>4. Length(fn) = IF fn \in {"deinit", "kick"} THEN 3 ELSE 4
    BY <2>2 DEF Length
  <2>5. /\ mode' \in {"on", "suspended", "off"}
        /\ mode = "off" <=> mode' = "off"
        /\ ip < Length(fn) => mode' = mode /\ fn' = fn /\ ip' = ip + 1
        /\ ip = Length(fn) =>
              /\ fn' = "none"
              /\ mode # "off" => mode' = CASE fn = "suspend" -> "suspended"
                                           [] fn = "resume" -> "on"
                                           [] fn = "kick" -> mode
    BY <1>1, <2>1, <2>2, <2>4 DEF ModeAfter
  <2>6. Placed'
    BY <1>1, <1>5, <2>1, <2>2, <2>4, <2>5 DEF Placed, Early, Short
  <2>7. saved = NominalPre /\ stage0 = EffectiveTimeout
    BY <1>0, <2>1 DEF Programming
  <2>8. Programming'
    <3>1. ip < Length(fn) \/ ip = Length(fn)
      BY <1>1, <2>4
    <3>2. Programmed' => pre' \in {NominalPre, MaxPre}
      BY <1>0, <2>3, <2>7, Doubled DEF Programming, Programmed
    <3>3. saved' = NominalPre /\ stage0' = EffectiveTimeout /\ fn' # "init"
      BY <2>2, <2>3, <2>5, <2>7, <3>1
    <3>4. mode' = "on" => pre' = IF fn' = "suspend" /\ ip' > 2 THEN MaxPre ELSE NominalPre
      BY <1>0, <2>1, <2>2, <2>3, <2>4, <2>5, <2>7, <3>1 DEF Programming
    <3>5. mode' = "suspended" => pre' = IF fn' = "resume" /\ ip' > 2
                                     THEN NominalPre ELSE MaxPre
      BY <1>0, <2>1, <2>2, <2>3, <2>4, <2>5, <2>7, <3>1 DEF Programming
    <3> QED
      BY <3>2, <3>3, <3>4, <3>5 DEF Programming
  <2>9. Chained'
    <3>1. ip < Length(fn) \/ ip = Length(fn)
      BY <1>1, <2>4
    <3> QED
      BY <1>0, <1>1, <2>1, <2>2, <2>3, <2>4, <2>5, <3>1 DEF Chained, Early
  <2> QED
    BY <1>2, <2>6, <2>8, <2>9 DEF Control
<1> QED
  BY <1>1, <1>3, <1>4, <1>5 DEF Functions, Short

LEMMA BeginControlled ==
    ASSUME RunInv, NEW f \in Functions, Begin(f), at \notin Stopped,
           \/ f = "sterilize" /\ at = "rom" /\ at' = "sterilize"
           \/ f = "init" /\ at = "flash" /\ at' = "wdt"
           \/ f \in Short /\ at = "boot_main" /\ at' = at
    PROVE  Control'
<1>0. Placed /\ Locked /\ Chained /\ Programming /\ Typing
  BY DEF RunInv, Control
<1>1. /\ fn = "none" /\ fn' = f /\ ip' = 1 /\ UNCHANGED <<regs, saved>>
      /\ mode' = IF f = "deinit" THEN "off" ELSE mode
  BY DEF Begin, Start, Idle
<1>2. Before(Body(f)[1]) = {}
  <2>1. 1 \in 1 .. Length(f)
    BY DEF Length, Functions
  <2> QED
    BY <2>1, Bracketed DEF Shaped
<1>3. Locked'
  BY <1>0, <1>1, <1>2 DEF Locked, Idle, Functions, regs
<1>4. CASE f = "sterilize"
  BY <1>0, <1>1, <1>3, <1>4
  DEF Control, Placed, Chained, Programming, Programmed, Early, Short, regs
<1>5. CASE f = "init"
  BY <1>0, <1>1, <1>3, <1>5
  DEF Control, Placed, Chained, Programming, Programmed, Early, Short, regs
<1>6. CASE f \in Short
  <2>1. Placed'
    BY <1>0, <1>1, <1>6 DEF Placed, Early, Short
  <2>2. Chained'
    BY <1>0, <1>1, <1>6 DEF Chained, Placed, Early, Short, regs
  <2>3. Programming'
    BY <1>0, <1>1, <1>6 DEF Programming, Programmed, Placed, Early, Short, regs
  <2> QED
    BY <1>3, <2>1, <2>2, <2>3 DEF Control
<1> QED
  BY <1>4, <1>5, <1>6

LEMMA RunStep == RunInv /\ [Next]_vars => RunInv'
<1> SUFFICES ASSUME RunInv, [Next]_vars PROVE Control'
  BY TypeStep DEF RunInv
<1> USE DEF RunInv, Control
<1>1. CASE WatchdogBite \/ EccReset \/ SoftReset \/ PowerOn
  <2>1. \E c, b : Restart(c, b)
    BY <1>1 DEF WatchdogBite, Bite, EccReset, SoftReset, PowerOn
  <2> QED
    BY <2>1, RestartControlled
<1>2. CASE RomJumps
  BY <1>2, BeginControlled DEF RomJumps, Goto, Functions, Stopped
<1>3. CASE Advance
  <2>1. /\ fn = "none" /\ fn' = "none"
        /\ UNCHANGED <<unlocked, armed, pre, stage0, saved, ip, mode>>
    BY <1>3 DEF Advance, Idle, wdtVars, regs, ghosts
  <2>2. \/ at = "sterilize" /\ at' = "mtvec"
        \/ at = "mtvec" /\ at' = "irq"
        \/ at = "irq" /\ at' = "bss"
        \/ at = "clock" /\ at' = "flash"
        \/ at = "wdt" /\ at' = "crypto"
        \/ at = "crypto" /\ at' = "confirm"
        \/ at = "confirm" /\ at' = "console"
        \/ at = "console" /\ at' = "boot_main"
    BY <1>3 DEF Advance, Goto, After
  <2>3. Placed'
    BY <2>1, <2>2 DEF Placed, Early, Short
  <2>4. Locked'
    BY <2>1, <2>2 DEF Locked, Idle, Stopped
  <2>5. Chained'
    <3>1. at = "sterilize" => armed = {}
      BY <2>1 DEF Chained, Typing, TypeOK, Dogs
    <3> QED
      BY <2>1, <2>2, <3>1 DEF Placed, Chained, Early, Stopped
  <2>6. Programming'
    BY <2>1, <2>2 DEF Programming, Programmed, Stopped
  <2> QED
    BY <2>3, <2>4, <2>5, <2>6
<1>4. CASE BssInit
  BY <1>4
  DEF BssInit, Goto, Idle, regs, ghosts, Placed, Locked, Chained, Programming, Programmed,
      Early, Short, Stopped
<1>5. CASE FlashInit
  <2>1. CASE Goto("wdt") /\ Begin("init")
    BY <1>5, <2>1, BeginControlled DEF FlashInit, Goto, Functions, Stopped
  <2>2. CASE Goto("panic") /\ UNCHANGED <<wdtVars, ghosts>>
    BY <1>5, <2>2
    DEF FlashInit, Goto, Idle, wdtVars, regs, ghosts, Placed, Locked, Chained, Programming,
        Programmed, Early, Short, Stopped
  <2> QED
    BY <1>5, <2>1, <2>2 DEF FlashInit
<1>6. CASE CallWatchdog
  BY <1>6, BeginControlled DEF CallWatchdog, bootVars, Functions, Short, Stopped
<1>7. CASE AskReason
  BY <1>7
  DEF AskReason, Idle, wdtVars, regs, ghosts, Placed, Locked, Chained, Programming, Programmed
<1>8. CASE BootMainEnds
  BY <1>8
  DEF BootMainEnds, Idle, wdtVars, regs, ghosts, Placed, Locked, Chained, Programming,
      Programmed, Early, Short, Stopped
<1>9. CASE Trap
  BY <1>9
  DEF Trap, regs, ghosts, Placed, Locked, Chained, Programming, Programmed, Early, Flow,
      Short, Stopped
<1>10. CASE Time
  BY <1>10
  DEF Time, TimeStep, Idle, bootVars, Placed, Locked, Chained, Programming, Programmed
<1>11. CASE UNCHANGED vars
  BY <1>11
  DEF vars, wdtVars, bootVars, ghosts, regs, Idle, Placed, Locked, Chained, Programming,
      Programmed
<1> QED
  BY <1>1, <1>2, <1>3, <1>4, <1>5, <1>6, <1>7, <1>8, <1>9, <1>10, <1>11, DriverControlled
  DEF Next

\* Between driver calls the locks are closed and TIMG0 is as its callers asked,
\* for every timeout and prescaler.
THEOREM HardwareIsAsAsked == Spec => []HardwareMatchesMode
<1>1. RunInv => HardwareMatchesMode
  BY Doubled
  DEF RunInv, Control, Locked, Chained, Programming, HardwareMatchesMode, Idle,
      Typing, TypeOK, Modes
<1> QED
  BY <1>1, RunInit, RunStep, PTL DEF Spec

\* Once startup has sterilized the dogs of the ROM, only the boot watchdog resets.
THEOREM OnlyOursBites == Spec => OnlyBootWatchdogBites
<1>1. RunInv /\ [Next]_vars =>
        [WatchdogBite /\ at \notin {"rom", "sterilize"} => cause' \in CausesOf("timg0")]_vars
  BY DEF RunInv, Control, Chained, WatchdogBite, Bite, Bites, Restart
<1> QED
  BY <1>1, RunInit, RunStep, PTL DEF Spec, OnlyBootWatchdogBites

-----------------------------------------------------------------------------
(* Time. *)

LEMMA ProductsGrow ==
    ASSUME NEW a \in Nat, NEW b \in Nat, NEW n \in Nat, a <= b
    PROVE  a * n <= b * n /\ n * a <= n * b
<1>1. \A d \in Nat : d * n \in Nat
  OBVIOUS
<1>2. b = a + (b - a) /\ b - a \in Nat
  OBVIOUS
<1>3. (a + (b - a)) * n = a * n + (b - a) * n
  BY <1>2, Z3
<1>4. n * a = a * n /\ n * b = b * n
  BY Z3
<1> QED
  BY <1>1, <1>2, <1>3, <1>4

LEMMA OneMore ==
    ASSUME NEW c \in Nat, NEW n \in Nat, c >= 1
    PROVE  (c - 1) * n + n = ((c + 1) - 1) * n
  BY Z3

\* Since time t, a counter that was fed then has not run ahead: its first tick may
\* have come early, and every other one took the nominal prescaler at least.
Since(t) == count >= 1 => t = TimeCap \/ t >= (count - 1) * NominalPre + sub

\* The running function has fed TIMG0.
Fed ==
    \/ fn = "init" /\ ip > 15
    \/ fn = "kick" /\ ip > 2
    \/ fn \in {"suspend", "resume"} /\ ip > 3

Paced == Since(served) /\ (Fed => Since(entry)) /\ (at \in Early => stage0 = 0)

LEMMA PacedInit == Init => Paced
  BY DEF Init, RegsAtReset, Paced, Since, Fed

LEMMA RestartPaced == ASSUME NEW c, NEW b, Restart(c, b) PROVE Paced'
  BY DEF Restart, RegsReset, Paced, Since, Fed

LEMMA TimePaced == ASSUME RunInv, Paced, Time PROVE Paced'
<1>1. /\ count \in Nat /\ sub \in Nat /\ NominalPre \in Nat /\ TimeCap \in Nat
      /\ served \in 0 .. TimeCap /\ entry \in 0 .. TimeCap
      /\ Programmed => pre >= NominalPre /\ pre # 0 /\ pre \in Nat
  BY Doubled, Times, WdtAssumption
  DEF RunInv, Typing, TypeOK, Control, Programming, WdtAssumption
<1>2. ASSUME NEW t \in 0 .. TimeCap, Since(t)
      PROVE  count' >= 1 =>
                Later(t) = TimeCap \/ Later(t) >= (count' - 1) * NominalPre + sub'
  <2>1. CASE count' = count /\ (sub' = sub \/ sub' = sub + 1)
    <3>1. CASE count >= 1
      <4>1. PICK p \in Nat : p = (count - 1) * NominalPre
        BY <1>1, <3>1
      <4> QED
        BY <1>1, <1>2, <2>1, <3>1, <4>1 DEF Since, Later
    <3> QED
      BY <1>1, <2>1, <3>1
  <2>2. CASE count' = count + 1 /\ sub' = 0 /\ sub + 1 >= NominalPre
    <3>1. CASE count = 0
      <4>1. (count' - 1) * NominalPre = 0
        BY <1>1, <2>2, <3>1
      <4> QED
        BY <1>1, <2>2, <4>1 DEF Later
    <3>2. CASE count >= 1
      <4>1. PICK p \in Nat : p = (count - 1) * NominalPre
        BY <1>1, <3>2
      <4>2. (count' - 1) * NominalPre = p + NominalPre
        BY <1>1, <2>2, <3>2, <4>1, OneMore
      <4> QED
        BY <1>1, <1>2, <2>2, <3>2, <4>1, <4>2 DEF Since, Later
    <3> QED
      BY <1>1, <3>1, <3>2
  <2> QED
    <3>1. CASE "timg0" \in armed /\ Programmed /\ sub + 1 >= Period
      BY <1>1, <2>2, <3>1 DEF Time, TimeStep, Period
    <3>2. CASE ~("timg0" \in armed /\ Programmed /\ sub + 1 >= Period)
      <4>1. count' = count /\ (sub' = sub \/ sub' = sub + 1)
        BY <3>2 DEF Time, TimeStep
      <4> QED
        BY <2>1, <4>1
    <3> QED
      BY <3>1, <3>2
<1>3. Since(served)'
  BY <1>1, <1>2 DEF Time, Since, Paced
<1>4. Fed' => Since(entry)'
  BY <1>1, <1>2 DEF Time, TimeStep, Since, Paced, Fed
<1>5. at' \in Early => stage0' = 0
  BY DEF Time, TimeStep, Paced, bootVars
<1> QED
  BY <1>3, <1>4, <1>5 DEF Paced

LEMMA DriverPaced == ASSUME RunInv, Paced, DriverWrite PROVE Paced'
<1> DEFINE w == Body(fn)[ip]
<1>1. /\ fn \in Functions /\ ip \in 1 .. Length(fn) /\ Length(fn) \in Nat /\ at' = at
      /\ stage0' = IF w.reg = "stage0" THEN w.val ELSE stage0
      /\ \/ count' = 0
         \/ w.reg # "feed" /\ count' = count /\ sub' = sub
      /\ IF ip < Length(fn) THEN fn' = fn /\ ip' = ip + 1 ELSE fn' = "none" /\ ip' = 0
  BY WriteLands
<1>2. /\ entry' = entry
      /\ served' = IF ip = Length(fn) /\ fn \in Feeding THEN entry ELSE served
  BY <1>1, Bracketed DEF DriverWrite, Returning, Idle, Functions
<1>3. CASE count' = 0
  <2>1. Since(served)' /\ Since(entry)'
    BY <1>3 DEF Since
  <2>2. at' \in Early => stage0' = 0
    <3>1. CASE fn = "sterilize"
      BY <1>1, <3>1, BodyIs, SterilizeWrites DEF Paced, Length
    <3>2. CASE fn # "sterilize"
      BY <1>1, <3>2 DEF RunInv, Control, Placed, Early, Functions, Short
    <3> QED
      BY <3>1, <3>2
  <2> QED
    BY <2>1, <2>2 DEF Paced
<1>4. CASE w.reg # "feed" /\ count' = count /\ sub' = sub
  <2>1. ip = Length(fn) /\ fn \in Feeding => Fed
    BY <1>1 DEF Fed, Feeding, Length
  <2>2. Since(served)'
    BY <1>2, <1>4, <2>1 DEF Since, Paced
  <2>3. Fed' => Fed
    <3>1. CASE fn = "init"
      BY <1>1, <1>4, <3>1, BodyIs, InitWrites DEF Fed, Length
    <3>2. CASE fn \in {"kick", "suspend", "resume"}
      <4>1. (w.reg = "feed") <=> (\/ fn = "kick" /\ ip = 2
                                  \/ fn \in {"suspend", "resume"} /\ ip = 3)
        BY <1>1, <3>2, ShortWrites
      <4> HIDE DEF w
      <4> QED
        BY <1>1, <1>4, <3>2, <4>1 DEF Fed, Length
    <3> QED
      BY <1>1, <3>1, <3>2 DEF Fed
  <2>4. Fed' => Since(entry)'
    BY <1>2, <1>4, <2>3 DEF Since, Paced
  <2>5. at' \in Early => stage0' = 0
    <3>1. CASE fn = "sterilize"
      BY <1>1, <3>1, BodyIs, SterilizeWrites DEF Paced, Length
    <3>2. CASE fn # "sterilize"
      BY <1>1, <3>2 DEF RunInv, Control, Placed, Early, Functions, Short
    <3> QED
      BY <3>1, <3>2
  <2> QED
    BY <2>2, <2>4, <2>5 DEF Paced
<1> QED
  BY <1>1, <1>3, <1>4

LEMMA PacedStep == RunInv /\ Paced /\ [Next]_vars => Paced'
<1> SUFFICES ASSUME RunInv, Paced, [Next]_vars PROVE Paced'
  OBVIOUS
<1>1. CASE WatchdogBite \/ EccReset \/ SoftReset \/ PowerOn
  <2>1. \E c, b : Restart(c, b)
    BY <1>1 DEF WatchdogBite, Bite, EccReset, SoftReset, PowerOn
  <2> QED
    BY <2>1, RestartPaced
<1>2. CASE RomJumps
  BY <1>2 DEF RomJumps, Goto, Begin, Start, regs, Paced, Since, Fed, Early
<1>3. CASE Advance
  BY <1>3 DEF Advance, Goto, After, Idle, wdtVars, regs, ghosts, Paced, Since, Fed, Early
<1>4. CASE BssInit
  BY <1>4 DEF BssInit, Goto, regs, ghosts, Paced, Since, Fed, Early
<1>5. CASE FlashInit
  BY <1>5
  DEF FlashInit, Goto, Begin, Start, wdtVars, regs, ghosts, Paced, Since, Fed, Early
<1>6. CASE CallWatchdog
  BY <1>6 DEF CallWatchdog, Begin, Start, bootVars, regs, Paced, Since, Fed
<1>7. CASE AskReason
  BY <1>7 DEF AskReason, wdtVars, regs, ghosts, Paced, Since, Fed
<1>8. CASE BootMainEnds
  BY <1>8 DEF BootMainEnds, wdtVars, regs, ghosts, Paced, Since, Fed, Early
<1>9. CASE Trap
  BY <1>9 DEF Trap, regs, ghosts, Paced, Since, Fed, Early
<1>10. CASE UNCHANGED vars
  BY <1>10 DEF vars, wdtVars, bootVars, ghosts, regs, Paced, Since, Fed
<1> QED
  BY <1>1, <1>2, <1>3, <1>4, <1>5, <1>6, <1>7, <1>8, <1>9, <1>10, TimePaced, DriverPaced
  DEF Next

LEMMA BiteIsLate ==
    ASSUME StretchCovered, RunInv, Paced, WatchdogBite, Programmed
    PROVE  served >= Timeout * NominalPre /\ served >= Timeout * MaxPre
<1>1. /\ Timeout \in Nat /\ Timeout >= 1 /\ NominalPre \in Nat /\ MaxPre \in Nat
      /\ NominalPre <= MaxPre /\ served \in 0 .. TimeCap /\ count \in Nat /\ sub \in Nat
  BY Doubled, Times, WdtAssumption DEF RunInv, Typing, TypeOK, WdtAssumption
<1>2. PICK dog \in Dogs : dog \in armed /\ (dog = "timg0" => count >= stage0)
  BY DEF WatchdogBite, Bite, Bites
<1>3. at \notin Early /\ dog = "timg0"
  BY <1>2 DEF Paced, Programmed, RunInv, Control, Chained, Early
<1>4. count >= 2 * Timeout
  BY <1>1, <1>2, <1>3, Doubled DEF Programmed, RunInv, Typing, TypeOK
<1>5. PICK n \in Nat : n = Timeout * NominalPre
  BY <1>1
<1>6. PICK m \in Nat : m = Timeout * MaxPre
  BY <1>1
<1>7. n <= m
  BY <1>1, <1>5, <1>6, ProductsGrow
<1>8. PICK k \in Nat : k = (2 * Timeout - 1) * NominalPre
  BY <1>1
<1>9. PICK p \in Nat : p = (count - 1) * NominalPre
  BY <1>1, <1>4
<1>10. k <= p
  BY <1>1, <1>4, <1>8, <1>9, ProductsGrow
<1>11. m <= k
  BY <1>6, <1>8 DEF StretchCovered
<1>12. served = m \/ served >= p + sub
  BY <1>1, <1>4, <1>6, <1>9 DEF Paced, Since, TimeCap
<1> QED
  BY <1>1, <1>5, <1>6, <1>7, <1>10, <1>11, <1>12

\* Code that feeds the watchdog within the timeout it gave is never reset, for
\* every timeout and pair of prescalers that StretchCovered admits.
THEOREM BitesAreLate == StretchCovered /\ Spec => NeverBitesEarly
<1>1. SUFFICES ASSUME StretchCovered PROVE Spec => NeverBitesEarly
  OBVIOUS
<1>2. RunInv /\ Paced /\ [Next]_vars =>
        [WatchdogBite /\ Programmed =>
            /\ served >= Timeout * NominalPre
            /\ Idle /\ mode = "suspended" => served >= Timeout * MaxPre]_vars
  BY <1>1, BiteIsLate
<1> QED
  BY <1>2, RunInit, RunStep, PacedInit, PacedStep, PTL DEF Spec, NeverBitesEarly

=============================================================================
