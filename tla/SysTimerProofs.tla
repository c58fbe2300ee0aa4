--------------------------- MODULE SysTimerProofs ---------------------------
(***************************************************************************)
(* A reading of the timer is a value the counter had during the reading,   *)
(* and a delay lasts as long as it was asked to, for every width of the    *)
(* counter, every guard and every interleaving with the hardware.          *)
(***************************************************************************)
EXTENDS SysTimer, NumberLemmas

-----------------------------------------------------------------------------
(* The constants, and what the two halves make up. *)

LEMMA Constants ==
    ASSUME TimerAssumption
    PROVE  /\ LoLimit \in Nat \ {0} /\ HiLimit \in Nat \ {0} /\ MsLimit \in Nat \ {0}
           /\ TicksPerMs \in Nat \ {0} /\ Guard \in Nat \ {0}
           /\ Period \in Nat \ {0}
           /\ \A d \in Delays \cup {0} : d \in Nat /\ InTicks(d) \in 0 .. Period - 1
<1>1. /\ LoLimit \in Nat \ {0} /\ HiLimit \in Nat \ {0} /\ MsLimit \in Nat \ {0}
      /\ TicksPerMs \in Nat \ {0} /\ Guard \in Nat \ {0}
  BY DEF TimerAssumption
<1>2. Period \in Nat \ {0}
  BY <1>1, Z3 DEF Period
<1>3. \A d \in Delays \cup {0} : d \in Nat /\ d * TicksPerMs < Period
  BY <1>1, <1>2 DEF TimerAssumption
<1>4. ASSUME NEW d \in Nat, NEW t \in Nat
      PROVE  d * t \in Nat
  BY Z3
<1>5. ASSUME NEW d \in Delays \cup {0}
      PROVE  InTicks(d) \in 0 .. Period - 1
  <2>1. d * TicksPerMs \in Nat
    BY <1>1, <1>3, <1>4
  <2> QED
    BY <1>2, <1>3, <2>1 DEF InTicks
<1> QED
  BY <1>1, <1>2, <1>3, <1>5

\* Low and high half of one snapshot make up the snapshot; of two, they still
\* make up a value the counter can have.
LEMMA Halves ==
    ASSUME TimerAssumption, NEW s \in 0 .. Period - 1
    PROVE  /\ ((s \div LoLimit) * LoLimit) + (s % LoLimit) = s
           /\ s % LoLimit \in 0 .. LoLimit - 1
           /\ \A l \in 0 .. LoLimit - 1 : (s \div LoLimit) * LoLimit + l \in 0 .. Period - 1
<1>1. LoLimit \in Nat \ {0} /\ HiLimit \in Nat \ {0} /\ Period \in Nat /\ Period = LoLimit * HiLimit
  BY Constants DEF Period
<1>2. PICK k \in Int, r \in 0 .. LoLimit - 1 :
        s = LoLimit * k + r /\ s \div LoLimit = k /\ s % LoLimit = r
  BY <1>1, Quotient
<1>3. ASSUME NEW a \in Nat \ {0}, NEW b \in Nat, NEW i \in Int, NEW j \in 0 .. a - 1,
             a * i + j \in 0 .. a * b - 1
      PROVE  i * a = a * i /\ a * i >= 0 /\ a * i <= a * b - a
  <2>1. i <= -1 => a * i <= -a
    BY Z3
  <2>2. i >= 0 => a * i >= 0
    BY Z3
  <2>3. i >= b => a * i >= a * b
    BY Z3
  <2>4. i <= b - 1 => a * i <= a * b - a
    BY Z3
  <2>5. i * a = a * i
    BY Z3
  <2>6. a * i \in Int /\ a * b \in Int
    BY Z3
  <2>7. 0 <= a * i + j /\ a * i + j <= a * b - 1
    BY <1>3, <2>6
  <2> QED
    BY <2>1, <2>2, <2>3, <2>4, <2>5, <2>6, <2>7
<1>4. k * LoLimit = LoLimit * k /\ LoLimit * k >= 0 /\ LoLimit * k <= Period - LoLimit
  BY <1>1, <1>2, <1>3
<1>5. PICK m \in Int : m = LoLimit * k
  BY <1>1, Z3
<1>6. (s \div LoLimit) * LoLimit = m /\ m >= 0 /\ m <= Period - LoLimit /\ s = m + r
  BY <1>2, <1>4, <1>5
<1>7. ((s \div LoLimit) * LoLimit) + (s % LoLimit) = s
  <2>1. ((s \div LoLimit) * LoLimit) + (s % LoLimit) = m + r
    BY <1>2, <1>6, Zenon
  <2> QED
    BY <1>6, <2>1, Zenon
<1>8. ASSUME NEW l \in 0 .. LoLimit - 1
      PROVE  (s \div LoLimit) * LoLimit + l \in 0 .. Period - 1
  <2>1. m + l \in 0 .. Period - 1
    BY <1>1, <1>6
  <2> QED
    BY <1>6, <2>1
<1> QED
  BY <1>2, <1>7, <1>8

-----------------------------------------------------------------------------
(* Types. *)

Typing ==
    /\ TypeOK
    /\ fn = "none" <=> pc = "none"
    /\ fn = "none" => since = 0 /\ reading = 0 /\ target = -1
    /\ reading <= since

LEMMA ValueFits ==
    ASSUME TimerAssumption, Typing
    PROVE  Value \in 0 .. Period - 1
<1>1. snapshot \in 0 .. Period - 1 /\ lo \in 0 .. LoLimit - 1
  BY DEF Typing, TypeOK
<1> QED
  BY <1>1, Halves DEF Value

LEMMA TypingInit == ASSUME TimerAssumption, Init PROVE Typing
<1>1. {latching, late} \subseteq BOOLEAN
  BY Zenon DEF Init
<1> QED
  BY <1>1, Constants DEF Init, Typing, TypeOK

LEMMA TypingStep ==
    ASSUME TimerAssumption, Typing, [Next]_vars
    PROVE  Typing'
<1> USE Constants
<1> USE DEF Typing, TypeOK, hw, regs
<1>1. CASE Start
  BY <1>1 DEF Start
<1>2. CASE AskLatch
  BY <1>2 DEF AskLatch
<1>3. CASE PollLatch
  <2>1. late' \in BOOLEAN
    BY <1>3 DEF PollLatch, Acknowledged
  <2>2. polls' \in 0 .. Guard - 1 /\ pc' \in {"poll", "lo"}
    BY <1>3 DEF PollLatch
  <2> QED
    BY <1>3, <2>1, <2>2 DEF PollLatch
<1>4. CASE ReadLo
  <2>1. snapshot % LoLimit \in 0 .. LoLimit - 1
    BY Halves
  <2> QED
    BY <1>4, <2>1 DEF ReadLo
<1>5. CASE GetTickMs
  <2>1. InMs(Value) \in 0 .. MsLimit - 1
    <3>1. Value \in 0 .. Period - 1
      BY ValueFits
    <3>2. Value \div TicksPerMs \in Int
      BY <3>1
    <3> QED
      BY <3>2 DEF InMs
  <2> QED
    BY <1>5, <2>1 DEF GetTickMs, Return
<1>6. CASE DelayMs
  <2>1. Value \in 0 .. Period - 1 /\ InTicks(wait) \in 0 .. Period - 1
    BY ValueFits
  <2>2. Value + InTicks(wait) \in 0 .. 2 * Period
    BY <2>1
  <2> QED
    BY <1>6, <2>2 DEF DelayMs, Return
<1>7. CASE Tick
  <2>1. (count + 1) % Period \in 0 .. Period - 1
    OBVIOUS
  <2> QED
    BY <1>7, <2>1 DEF Tick, Capped
<1>8. CASE Latch
  BY <1>8 DEF Latch
<1>9. CASE UNCHANGED vars
  BY <1>9 DEF vars
<1> QED
  BY <1>1, <1>2, <1>3, <1>4, <1>5, <1>6, <1>7, <1>8, <1>9 DEF Next, Driver

\* Every variable keeps its type, whatever the hardware does when.
THEOREM TypeCorrect == TimerAssumption /\ Spec => []TypeOK
<1> SUFFICES ASSUME TimerAssumption PROVE Spec => []TypeOK
  OBVIOUS
<1>1. Init => Typing
  BY TypingInit
<1>2. Typing /\ [Next]_vars => Typing'
  BY TypingStep
<1>3. Typing => TypeOK
  BY DEF Typing
<1> QED
  BY <1>1, <1>2, <1>3, PTL DEF Spec

-----------------------------------------------------------------------------
(* Readings. *)

Reads == pc \in {"poll", "lo", "hi"}

\* As long as no snapshot outlasted its guard: nothing latches between the two
\* halves, and what was latched is a value of the counter since it was asked for.
Fresh ==
    ~late =>
        /\ pc \in {"lo", "hi"} => ~latching
        /\ Reads /\ ~latching => \E n \in 0 .. reading : snapshot = (count - n) % Period
        /\ pc = "hi" => lo = snapshot % LoLimit

LEMMA FreshInit == Init => Fresh
  BY DEF Init, Fresh, Reads

LEMMA FreshStep ==
    ASSUME TimerAssumption, Typing, Fresh, [Next]_vars
    PROVE  Fresh'
<1> USE DEF Fresh, Reads, hw, regs
<1>1. CASE Start
  BY <1>1 DEF Start
<1>2. CASE AskLatch
  BY <1>2 DEF AskLatch
<1>3. CASE PollLatch
  BY <1>3 DEF PollLatch, Acknowledged
<1>4. CASE ReadLo
  BY <1>4 DEF ReadLo
<1>5. CASE GetTickMs
  BY <1>5 DEF GetTickMs, Return
<1>6. CASE DelayMs
  BY <1>6 DEF DelayMs, Return
<1>7. CASE Tick
  <2>1. /\ count' = (count + 1) % Period
        /\ UNCHANGED <<latching, snapshot, pc, lo, late>>
        /\ Reads => reading' = Capped(reading + 1)
    BY <1>7 DEF Tick, Typing
  <2>2. ASSUME NEW n \in 0 .. reading, snapshot = (count - n) % Period, Reads
        PROVE  \E k \in 0 .. reading' : snapshot = (count' - k) % Period
    <3>1. /\ Period \in Nat \ {0} /\ count \in 0 .. Period - 1
          /\ reading \in 0 .. Period
      BY Constants DEF Typing, TypeOK
    <3>2. CASE n = Period
      <4>1. snapshot = (count' - 1) % Period
        <5>1. (((count + 1) % Period) - (0 + 1)) % Period = (count - 0) % Period
          BY <3>1, OneTickOlder
        <5>2. (count - Period) % Period = count
          <6>1. count - Period = Period * (-1) + count /\ count - Period \in Int
            BY <3>1
          <6> QED
            BY <3>1, <6>1, Remainder
        <5>3. (count - 0) % Period = count
          BY <3>1, RemainderOfSmall
        <5> QED
          BY <2>1, <2>2, <3>2, <5>1, <5>2, <5>3
      <4>2. 1 \in 0 .. reading'
        BY <2>1, <2>2, <3>1, <3>2 DEF Capped
      <4> QED
        BY <4>1, <4>2
    <3>3. CASE n # Period
      <4>1. snapshot = (count' - (n + 1)) % Period
        BY <2>1, <2>2, <3>1, OneTickOlder
      <4>2. n + 1 \in 0 .. reading'
        BY <2>1, <2>2, <3>1, <3>3 DEF Capped
      <4> QED
        BY <4>1, <4>2
    <3> QED
      BY <3>2, <3>3
  <2> QED
    BY <2>1, <2>2
<1>8. CASE Latch
  <2>1. /\ latching /\ snapshot' = count
        /\ UNCHANGED <<count, pc, lo, late, reading>>
    BY <1>8 DEF Latch
  <2>2. snapshot' = (count' - 0) % Period
    <3>1. Period \in Nat \ {0} /\ count \in 0 .. Period - 1
      BY Constants DEF Typing, TypeOK
    <3> QED
      BY <2>1, <3>1, RemainderOfSmall
  <2>3. 0 \in 0 .. reading'
    BY <2>1, Constants DEF Typing, TypeOK
  <2> QED
    BY <2>1, <2>2, <2>3
<1>9. CASE UNCHANGED vars
  BY <1>9 DEF vars
<1> QED
  BY <1>1, <1>2, <1>3, <1>4, <1>5, <1>6, <1>7, <1>8, <1>9 DEF Next, Driver

\* What the code puts together is the snapshot.
LEMMA ValueIsSnapshot ==
    ASSUME TimerAssumption, Typing, Fresh, pc = "hi", ~late
    PROVE  /\ Value = snapshot /\ snapshot \in 0 .. Period - 1
           /\ \E n \in 0 .. reading : snapshot = (count - n) % Period
<1>1. snapshot \in 0 .. Period - 1 /\ lo = snapshot % LoLimit
  BY DEF Typing, TypeOK, Fresh
<1>2. Value = snapshot
  BY <1>1, Halves DEF Value
<1> QED
  BY <1>1, <1>2 DEF Fresh, Reads

LEMMA FreshReading ==
    ASSUME TimerAssumption, Typing, Fresh
    PROVE  TypeOK /\ ReadingIsFresh
  BY ValueIsSnapshot DEF Typing, ReadingIsFresh

\* A reading is a value the counter had since the snapshot was asked for, for
\* every width of the halves and every guard (arch_timer.c:44-45).
THEOREM ReadingsAreFresh == TimerAssumption /\ Spec => []ReadingIsFresh
<1> SUFFICES ASSUME TimerAssumption PROVE Spec => []ReadingIsFresh
  OBVIOUS
<1>1. Init => Typing /\ Fresh
  BY TypingInit, FreshInit
<1>2. Typing /\ Fresh /\ [Next]_vars => Typing' /\ Fresh'
  BY TypingStep, FreshStep
<1>3. Typing /\ Fresh => ReadingIsFresh
  BY FreshReading
<1> QED
  BY <1>1, <1>2, <1>3, PTL DEF Spec

-----------------------------------------------------------------------------
(* Delays. *)

\* The first value that arch_riscv_delay_ms read.
Began == target - InTicks(wait)

\* The counter shows v some ticks after it showed the first value, and the call
\* has lasted for as many.
Passed(v) == \E e \in Nat : v = (Began + e) % Period /\ Capped(e) <= since

Timed ==
    fn = "delay_ms" /\ target # -1 /\ ~late =>
        /\ Began \in 0 .. Period - 1
        /\ Passed(count)
        /\ Reads /\ ~latching => Passed(snapshot)

LEMMA TimedInit == Init => Timed
  BY DEF Init, Timed

LEMMA PassedKept ==
    ASSUME Passed(count), UNCHANGED <<target, wait, count>>, since' = since
    PROVE  Passed(count)'
  BY DEF Passed, Began, Capped

LEMMA PassedByTick ==
    ASSUME TimerAssumption, Typing, Tick, fn # "none", Began \in Int
    PROVE  /\ Passed(count) => Passed(count)'
           /\ Passed(snapshot) => Passed(snapshot)'
<1>1. /\ Period \in Nat \ {0} /\ since \in 0 .. Period
      /\ count' = (count + 1) % Period /\ since' = Capped(since + 1)
      /\ Began' = Began /\ snapshot' = snapshot
  BY Constants DEF Typing, TypeOK, Tick, regs, Began, InTicks
<1>2. ASSUME NEW e \in Nat, count = (Began + e) % Period, Capped(e) <= since
      PROVE  /\ e + 1 \in Nat /\ count' = (Began' + (e + 1)) % Period
             /\ Capped(e + 1) <= since'
  <2>1. count' = (Began + (e + 1)) % Period
    BY <1>1, <1>2, NextOfSum
  <2>2. Capped(e + 1) <= Capped(since + 1)
    BY <1>1, <1>2 DEF Capped
  <2> QED
    BY <1>1, <2>1, <2>2
<1>3. ASSUME NEW e \in Nat, Capped(e) <= since
      PROVE  Capped(e) <= since'
  BY <1>1, <1>3 DEF Capped
<1>4. Passed(count)' <=> \E e \in Nat : count' = (Began' + e) % Period /\ Capped(e) <= since'
  BY DEF Passed, Capped
<1>5. Passed(snapshot)' <=>
        \E e \in Nat : snapshot' = (Began' + e) % Period /\ Capped(e) <= since'
  BY DEF Passed, Capped
<1>6. Passed(count) => Passed(count)'
  <2> SUFFICES ASSUME Passed(count) PROVE Passed(count)'
    OBVIOUS
  <2>1. PICK e \in Nat : count = (Began + e) % Period /\ Capped(e) <= since
    BY DEF Passed
  <2> QED
    BY <1>2, <1>4, <2>1
<1>7. Passed(snapshot) => Passed(snapshot)'
  <2> SUFFICES ASSUME Passed(snapshot) PROVE Passed(snapshot)'
    OBVIOUS
  <2>1. PICK e \in Nat : snapshot = (Began + e) % Period /\ Capped(e) <= since
    BY DEF Passed
  <2> QED
    BY <1>1, <1>3, <1>5, <2>1
<1> QED
  BY <1>6, <1>7

\* The first reading is the beginning, and its snapshot was taken in the call.
LEMMA FirstReading ==
    ASSUME TimerAssumption, Typing, Fresh, pc = "hi", ~late, DelayMs, target = -1
    PROVE  /\ (Began \in 0 .. Period - 1)'
           /\ Passed(count)'
<1>1. /\ Period \in Nat \ {0} /\ InTicks(wait) \in 0 .. Period - 1
      /\ count \in 0 .. Period - 1 /\ since \in 0 .. Period /\ reading \in 0 .. Period
      /\ reading <= since
  BY Constants DEF Typing, TypeOK
<1>2. /\ target' = Value + InTicks(wait) /\ wait' = wait /\ since' = since /\ count' = count
  BY DEF DelayMs, hw
<1>3. PICK n \in 0 .. reading : Value = (count - n) % Period /\ Value \in 0 .. Period - 1
  BY ValueIsSnapshot
<1>4. Began' = Value
  BY <1>1, <1>2, <1>3 DEF Began, InTicks
<1>5. n \in Nat
  BY <1>1
<1>6. count = (Value + n) % Period
  BY <1>1, <1>3, <1>5, AgeHasPassed
<1>7. Capped(n) <= since
  BY <1>1, <1>3 DEF Capped
<1>8. Passed(count)' <=> \E e \in Nat : count' = (Began' + e) % Period /\ Capped(e) <= since'
  BY DEF Passed, Capped
<1> QED
  BY <1>2, <1>3, <1>4, <1>5, <1>6, <1>7, <1>8

LEMMA TimedStep ==
    ASSUME TimerAssumption, Typing, Fresh, Timed, [Next]_vars
    PROVE  Timed'
<1> SUFFICES ASSUME (fn = "delay_ms" /\ target # -1 /\ ~late)'
             PROVE  /\ (Began \in 0 .. Period - 1)'
                    /\ Passed(count)'
                    /\ (Reads /\ ~latching)' => Passed(snapshot)'
  BY DEF Timed
<1> USE DEF hw, regs
<1>0. Capped(0) = 0 /\ \A e : Capped(e)' = Capped(e)
  BY Constants DEF Capped
<1>1. CASE Start
  BY <1>1 DEF Start, Typing
<1>2. CASE AskLatch
  BY <1>2 DEF AskLatch, Timed, Passed, Began, Capped, Reads, InTicks
<1>3. CASE PollLatch
  BY <1>3 DEF PollLatch, Acknowledged, Timed, Passed, Began, Capped, Reads, InTicks
<1>4. CASE ReadLo
  BY <1>4 DEF ReadLo, Timed, Passed, Began, Capped, Reads, InTicks
<1>5. CASE GetTickMs
  BY <1>5 DEF GetTickMs, Return
<1>6. CASE DelayMs
  <2>1. pc = "hi" /\ fn = "delay_ms" /\ ~late /\ ~Reads'
    BY <1>6 DEF DelayMs, Return, Reads
  <2>2. CASE target = -1
    BY <1>6, <2>1, <2>2, FirstReading
  <2>3. CASE target # -1
    BY <1>6, <2>1, <2>3 DEF DelayMs, Return, Timed, Passed, Began, Capped, InTicks
  <2> QED
    BY <2>2, <2>3
<1>7. CASE Tick
  <2>1. /\ fn = "delay_ms" /\ target # -1 /\ ~late /\ UNCHANGED <<pc, latching>>
        /\ Began' = Began
    BY <1>7 DEF Tick, Began, InTicks
  <2>2. Began \in 0 .. Period - 1 /\ Period \in Nat
    BY <2>1, Constants DEF Timed
  <2>3. (Began \in 0 .. Period - 1)'
    BY <2>1, <2>2
  <2> QED
    BY <1>7, <2>1, <2>2, <2>3, PassedByTick DEF Timed, Reads
<1>8. CASE Latch
  <2>1. /\ UNCHANGED <<fn, target, wait, since, late, count, pc>>
        /\ snapshot' = count
    BY <1>8 DEF Latch
  <2> QED
    BY <2>1 DEF Timed, Passed, Began, Capped, InTicks
<1>9. CASE UNCHANGED vars
  BY <1>9 DEF vars, Timed, Passed, Began, Capped, Reads, InTicks
<1> QED
  BY <1>1, <1>2, <1>3, <1>4, <1>5, <1>6, <1>7, <1>8, <1>9 DEF Next, Driver

\* The step in which a delay returns: a value that is large enough has taken
\* long enough, wrapped or not.
LEMMA DelayEnds ==
    ASSUME TimerAssumption, Typing, Fresh, Timed, [Next]_vars
    PROVE  DelayIsLongEnough
<1> SUFFICES ASSUME fn = "delay_ms", fn' = "none", ~late
             PROVE  since >= InTicks(wait)
  BY DEF DelayIsLongEnough, InTicks
<1>1. DelayMs
  BY DEF Next, Driver, Start, AskLatch, PollLatch, ReadLo, GetTickMs, Tick, Latch, vars, hw, regs
<1>2. pc = "hi" /\ target # -1 /\ Value >= target
  BY <1>1 DEF DelayMs
<1>3. /\ Period \in Nat \ {0} /\ InTicks(wait) \in 0 .. Period - 1 /\ since \in 0 .. Period
      /\ target \in Int
  BY Constants DEF Typing, TypeOK
<1>4. Value = snapshot /\ Value \in 0 .. Period - 1 /\ ~latching
  BY <1>2, ValueIsSnapshot DEF Fresh
<1>5. Began \in 0 .. Period - 1 /\ Passed(Value)
  BY <1>2, <1>4 DEF Timed, Reads
<1>6. PICK e \in Nat : Value = (Began + e) % Period /\ Capped(e) <= since
  BY <1>5 DEF Passed
<1>7. Value <= Began + e
  BY <1>3, <1>5, <1>6, RemainderIsLess
<1>8. e >= InTicks(wait)
  BY <1>2, <1>3, <1>4, <1>5, <1>7 DEF Began
<1> QED
  BY <1>3, <1>6, <1>8 DEF Capped

\* arch_riscv_delay_ms waits as long as it was asked to, wherever the counter is
\* when it begins and however often it wraps (arch_timer.c:81-88).
THEOREM DelaysAreLongEnough == TimerAssumption /\ Spec => [][DelayIsLongEnough]_vars
<1> SUFFICES ASSUME TimerAssumption PROVE Spec => [][DelayIsLongEnough]_vars
  OBVIOUS
<1>1. Init => Typing /\ Fresh /\ Timed
  BY TypingInit, FreshInit, TimedInit
<1>2. Typing /\ Fresh /\ Timed /\ [Next]_vars => Typing' /\ Fresh' /\ Timed'
  BY TypingStep, FreshStep, TimedStep
<1>3. Typing /\ Fresh /\ Timed /\ [Next]_vars => [DelayIsLongEnough]_vars
  BY DelayEnds
<1> QED
  BY <1>1, <1>2, <1>3, PTL DEF Spec
=============================================================================
