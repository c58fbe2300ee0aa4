---------------------------- MODULE PartsProofs -----------------------------
(***************************************************************************)
(* The promises of the parts that stand alone, for every value of the      *)
(* constants of their instances.  A step of one part is a step of its own  *)
(* specification, and leaves the others nothing to do; so each part is     *)
(* proved on its own and then found in the run of all.                     *)
(***************************************************************************)
EXTENDS MCParts, NumberLemmas, FiniteSetTheorems, SequenceTheorems

LEMMA PartInit ==
    ASSUME PartsInit
    PROVE  /\ part = "timer" => Timer!Init
           /\ part = "chacha" => Chacha!Init
           /\ part = "aead" => Session!Init
           /\ part = "verify" => Hal!Init
           /\ part = "efuse" => Efuse!Init
           /\ part = "sandbox" => Sandbox!Init
           /\ part = "gate" => Gate!Init
<1> USE DEF PartsInit, ShaInit, TimerInit, ChachaInit, SessionInit, HalInit, EfuseInit,
        SandboxInit, GateInit, PolyInit, ArgonInit, SigInit
<1>1. part = "timer" => Timer!Init
  BY Zenon
<1>2. part = "chacha" => Chacha!Init
  BY Zenon
<1>3. part = "aead" => Session!Init
  BY Zenon
<1>4. part = "verify" => Hal!Init
  BY Zenon
<1>5. part = "efuse" => Efuse!Init
  BY Zenon
<1>6. part = "sandbox" => Sandbox!Init
  BY Zenon
<1>7. part = "gate" => Gate!Init
  BY Zenon
<1> QED
  BY <1>1, <1>2, <1>3, <1>4, <1>5, <1>6, <1>7

LEMMA PartNext ==
    ASSUME PartsNext
    PROVE  /\ part' = part
           /\ part = "timer" => Timer!Next
           /\ part = "chacha" => Chacha!Next
           /\ part = "aead" => Session!Next
           /\ part = "verify" => Hal!Next
           /\ part = "efuse" => Efuse!Next
           /\ part = "sandbox" => Sandbox!Next
           /\ part = "gate" => Gate!Next
<1> USE DEF PartsNext, ShaNext, TimerNext, ChachaNext, SessionNext, HalNext, EfuseNext,
        SandboxNext, GateNext, PolyNext, ArgonNext, SigNext
<1>1. part' = part
  BY Zenon DEF RestUnchanged
<1>2. part = "timer" => Timer!Next
  BY Zenon
<1>3. part = "chacha" => Chacha!Next
  BY Zenon
<1>4. part = "aead" => Session!Next
  BY Zenon
<1>5. part = "verify" => Hal!Next
  BY Zenon
<1>6. part = "efuse" => Efuse!Next
  BY Zenon
<1>7. part = "sandbox" => Sandbox!Next
  BY Zenon
<1>8. part = "gate" => Gate!Next
  BY Zenon
<1> QED
  BY <1>1, <1>2, <1>3, <1>4, <1>5, <1>6, <1>7, <1>8

\* Stuttering of all is stuttering of each.
LEMMA PartStep ==
    ASSUME [PartsNext]_partsVars
    PROVE  /\ part' = part
           /\ part = "timer" => [Timer!Next]_Timer!vars
           /\ part = "chacha" => [Chacha!Next]_Chacha!vars
           /\ part = "aead" => [Session!Next]_Session!vars
           /\ part = "verify" => [Hal!Next]_Hal!vars
           /\ part = "efuse" => [Efuse!Next]_Efuse!vars
           /\ part = "sandbox" => [Sandbox!Next]_Sandbox!vars
           /\ part = "gate" => [Gate!Next]_Gate!vars
<1>1. CASE PartsNext
  BY <1>1, PartNext
<1>2. CASE UNCHANGED partsVars
  BY <1>2 DEF partsVars, Timer!vars, Timer!hw, Timer!regs, Chacha!vars, Session!vars, Hal!vars,
              Efuse!vars, Sandbox!vars, Gate!vars
<1> QED
  BY <1>1, <1>2

-----------------------------------------------------------------------------
(* The system timer. *)

TimerProof == INSTANCE SysTimerProofs WITH
    count <- v1, latching <- v2, snapshot <- v3, fn <- v4, pc <- v5, polls <- v6, lo <- v7,
    target <- v8, ms <- v9, wait <- v10, since <- v11, reading <- v12, late <- v13

\* The specification that the theorems are about is that of the part.
LEMMA TimerSame ==
    /\ TimerProof!TimerAssumption
    /\ Timer!Init = TimerProof!Init
    /\ [Timer!Next]_Timer!vars = [TimerProof!Next]_TimerProof!vars
    /\ Timer!TypeOK = TimerProof!TypeOK
    /\ Timer!ReadingIsFresh = TimerProof!ReadingIsFresh
    /\ Timer!DelayIsLongEnough = TimerProof!DelayIsLongEnough
<1>1. TimerProof!TimerAssumption
  BY TimerOk DEF Timer!TimerAssumption, TimerProof!TimerAssumption, Timer!Period, TimerProof!Period
<1>2. Timer!Init = TimerProof!Init
  BY DEF
      Timer!Init, TimerProof!Init, Timer!Period, TimerProof!Period
<1>3. [Timer!Next]_Timer!vars = [TimerProof!Next]_TimerProof!vars
  BY DEF
      Timer!Period, TimerProof!Period, Timer!hw, TimerProof!hw, Timer!regs,
      TimerProof!regs, Timer!vars, TimerProof!vars, Timer!Capped, TimerProof!Capped,
      Timer!Tick, TimerProof!Tick, Timer!Latch, TimerProof!Latch, Timer!Start,
      TimerProof!Start, Timer!AskLatch, TimerProof!AskLatch, Timer!Acknowledged,
      TimerProof!Acknowledged, Timer!PollLatch, TimerProof!PollLatch, Timer!ReadLo,
      TimerProof!ReadLo, Timer!Value, TimerProof!Value, Timer!Return,
      TimerProof!Return, Timer!InMs, TimerProof!InMs, Timer!GetTickMs,
      TimerProof!GetTickMs, Timer!InTicks, TimerProof!InTicks, Timer!DelayMs,
      TimerProof!DelayMs, Timer!Driver, TimerProof!Driver, Timer!Next, TimerProof!Next
<1>4. Timer!TypeOK = TimerProof!TypeOK
  BY DEF
      Timer!TypeOK, TimerProof!TypeOK, Timer!Period, TimerProof!Period
<1>5. /\ Timer!ReadingIsFresh = TimerProof!ReadingIsFresh
      /\ Timer!DelayIsLongEnough = TimerProof!DelayIsLongEnough
  BY DEF
      Timer!ReadingIsFresh, TimerProof!ReadingIsFresh, Timer!DelayIsLongEnough,
      TimerProof!DelayIsLongEnough, Timer!Value, TimerProof!Value, Timer!Period,
      TimerProof!Period
<1> QED
  BY <1>1, <1>2, <1>3, <1>4, <1>5

\* Readings of the timer are whole and fresh, whatever its width
\* (arch_timer.c:44-45).
THEOREM ReadingsAreFresh == PartsSpec => []TimerReadingIsFresh
<1> DEFINE I == part = "timer" =>
                    TimerProof!Typing /\ TimerProof!Fresh /\ TimerProof!Timed
<1>1. PartsInit => I
  BY PartInit, TimerSame, TimerProof!TypingInit, TimerProof!FreshInit, TimerProof!TimedInit
<1>2. I /\ [PartsNext]_partsVars => I'
  BY PartStep, TimerSame, TimerProof!TypingStep, TimerProof!FreshStep, TimerProof!TimedStep
<1>3. I => TimerReadingIsFresh
  BY TimerSame, TimerProof!FreshReading DEF TimerReadingIsFresh
<1> QED
  BY <1>1, <1>2, <1>3, PTL DEF PartsSpec

\* A delay lasts as long as it was asked to, across every wrap of the counter
\* (arch_timer.c:81-88).
THEOREM DelaysAreLongEnough == PartsSpec => TimerDelayIsLongEnough
<1> DEFINE I == part = "timer" =>
                    TimerProof!Typing /\ TimerProof!Fresh /\ TimerProof!Timed
<1>1. PartsInit => I
  BY PartInit, TimerSame, TimerProof!TypingInit, TimerProof!FreshInit, TimerProof!TimedInit
<1>2. I /\ [PartsNext]_partsVars => I'
  BY PartStep, TimerSame, TimerProof!TypingStep, TimerProof!FreshStep, TimerProof!TimedStep
<1>3. I /\ [PartsNext]_partsVars => [part = "timer" => Timer!DelayIsLongEnough]_partsVars
  BY PartStep, TimerSame, TimerProof!DelayEnds
<1> QED
  BY <1>1, <1>2, <1>3, PTL DEF PartsSpec, TimerDelayIsLongEnough

-----------------------------------------------------------------------------
(* ChaCha20: the counters of a text, and what the calls make of it. *)

CipherSizes == BlockBytes \in Nat \ {0} /\ CtrRange \in Nat \ {0}

LEMMA CipherOk == CipherSizes
BY ChachaOk DEF Chacha!StreamAssumption, Chacha!ChachaAssumption, CipherSizes

\* The two words of the counter.
WordsOf(a) == <<a % CtrRange, (a \div CtrRange) % CtrRange>>

\* Blocks of a text of n bytes.
BlocksOf(n) == (n + BlockBytes - 1) \div BlockBytes

LEMMA WordsType ==
    ASSUME NEW a \in Int
    PROVE  /\ a % CtrRange \in 0 .. CtrRange - 1 /\ a \div CtrRange \in Int
           /\ (a \div CtrRange) % CtrRange \in 0 .. CtrRange - 1
<1>1. CtrRange \in Nat \ {0}
  BY CipherOk DEF CipherSizes
<1>2. PICK k \in Int, r \in 0 .. CtrRange - 1 :
        a = CtrRange * k + r /\ a \div CtrRange = k /\ a % CtrRange = r
  BY <1>1, Quotient
<1>3. PICK q \in Int, s \in 0 .. CtrRange - 1 :
        k = CtrRange * q + s /\ k \div CtrRange = q /\ k % CtrRange = s
  BY <1>1, Quotient
<1> QED
  BY <1>2, <1>3

\* The carry: the words of the next number are those of the next block.
LEMMA NextBlockIs ==
    ASSUME NEW a \in Int
    PROVE  Chacha!NextBlock(WordsOf(a)[1], WordsOf(a)[2]) = WordsOf(a + 1)
<1>0. CtrRange \in Nat \ {0}
  BY CipherOk DEF CipherSizes
<1>1. PICK k \in Int, r \in 0 .. CtrRange - 1 :
        a = CtrRange * k + r /\ a \div CtrRange = k /\ a % CtrRange = r
  BY <1>0, Quotient
<1>2. WordsOf(a)[1] = r /\ WordsOf(a)[2] = k % CtrRange
  BY <1>1 DEF WordsOf
<1>3. CASE r < CtrRange - 1
  <2>1. r + 1 \in 0 .. CtrRange - 1 /\ r + 1 # 0 /\ a + 1 \in Int /\ a + 1 = CtrRange * k + (r + 1)
    BY <1>0, <1>1, <1>3
  <2>2. (a + 1) % CtrRange = r + 1 /\ (a + 1) \div CtrRange = k
    BY <1>0, <1>1, <2>1, Remainder
  <2>3. (r + 1) % CtrRange = r + 1
    BY <1>0, <2>1, RemainderOfSmall
  <2> QED
    BY <1>2, <2>1, <2>2, <2>3 DEF Chacha!NextBlock, WordsOf
<1>4. CASE r = CtrRange - 1
  <2>1. a + 1 = CtrRange * (k + 1) + 0
    BY <1>0, <1>1, <1>4, Z3
  <2>2. 0 \in 0 .. CtrRange - 1 /\ a + 1 \in Int /\ k + 1 \in Int
    BY <1>0, <1>1
  <2>3. (a + 1) % CtrRange = 0 /\ (a + 1) \div CtrRange = k + 1
    BY <1>0, <2>1, <2>2, Remainder
  <2>4. CtrRange = CtrRange * 1 + 0
    BY <1>0, Z3
  <2>5. CtrRange % CtrRange = 0
    <3>1. CtrRange \in Int /\ 1 \in Int
      BY <1>0
    <3> QED
      BY <1>0, <2>2, <2>4, <3>1, Remainder
  <2>6. r + 1 = CtrRange
    BY <1>0, <1>4
  <2>7. ((k % CtrRange) + 1) % CtrRange = (k + 1) % CtrRange
    <3>1. 1 \in Int
      OBVIOUS
    <3> QED
      BY <1>0, <1>1, <3>1, RemainderOfSum
  <2> QED
    BY <1>2, <2>3, <2>5, <2>6, <2>7 DEF Chacha!NextBlock, WordsOf
<1> QED
  BY <1>0, <1>1, <1>3, <1>4

\* The counters of the blocks of a text are consecutive numbers.
LEMMA CountersAre ==
    ASSUME NEW c \in Nat, NEW n \in Nat
    PROVE  \A b \in Nat : b <= n \div BlockBytes => Chacha!Counters(c, n)[b] = WordsOf(c + b)
<1> DEFINE m == n \div BlockBytes
           f == Chacha!Counters(c, n)
           g == [b \in 0 .. m |-> WordsOf(c + b)]
           Recursion(h) == h = [b \in 0 .. m |->
                IF b = 0 THEN <<c % CtrRange, (c \div CtrRange) % CtrRange>>
                ELSE Chacha!NextBlock(h[b - 1][1], h[b - 1][2])]
<1>1. m \in Nat
  <2>1. BlockBytes \in Nat \ {0} /\ n \in Int
    BY CipherOk DEF CipherSizes
  <2>2. PICK k \in Int, r \in 0 .. BlockBytes - 1 : n = BlockBytes * k + r /\ n \div BlockBytes = k
    BY <2>1, Quotient
  <2>3. k <= -1 => BlockBytes * k <= -BlockBytes
    BY <2>1, Z3
  <2> QED
    BY <2>1, <2>2, <2>3
<1>2. Recursion(g)
  <2>1. ASSUME NEW b \in 0 .. m, b # 0
        PROVE  g[b] = Chacha!NextBlock(g[b - 1][1], g[b - 1][2])
    <3>1. b - 1 \in 0 .. m /\ c + (b - 1) \in Int /\ (c + (b - 1)) + 1 = c + b
      BY <1>1, <2>1
    <3>2. g[b - 1] = WordsOf(c + (b - 1))
      BY <3>1
    <3> QED
      BY <3>1, <3>2, NextBlockIs
  <2>2. g[0] = <<c % CtrRange, (c \div CtrRange) % CtrRange>>
    BY <1>1 DEF WordsOf
  <2> HIDE DEF m
  <2> QED
    BY <2>1, <2>2
<1>3. Recursion(f)
  <2>1. f = CHOOSE h : Recursion(h)
    BY Zenon DEF Chacha!Counters, Chacha!CtrLow, Chacha!CtrHigh
  <2> HIDE DEF f, g, Recursion
  <2> QED
    BY <1>2, <2>1, Zenon
<1> DEFINE S == {b \in Nat : b <= m => f[b] = WordsOf(c + b)}
<1>4. 0 \in S
  <2>1. f[0] = <<c % CtrRange, (c \div CtrRange) % CtrRange>>
    <3> HIDE DEF m, f
    <3> QED
      BY <1>1, <1>3
  <2>2. c + 0 = c
    OBVIOUS
  <2> QED
    BY <2>1, <2>2 DEF WordsOf
<1>5. ASSUME NEW b \in Nat, b \in S
      PROVE  b + 1 \in S
  <2> SUFFICES ASSUME b + 1 <= m PROVE f[b + 1] = WordsOf(c + (b + 1))
    OBVIOUS
  <2>1. b + 1 \in 0 .. m /\ b + 1 # 0 /\ (b + 1) - 1 = b /\ b <= m
    BY <1>1
  <2>2. f[b + 1] = Chacha!NextBlock(f[(b + 1) - 1][1], f[(b + 1) - 1][2])
    <3> HIDE DEF m, f
    <3> QED
      BY <1>3, <2>1
  <2>3. f[b] = WordsOf(c + b)
    BY <1>5, <2>1
  <2>4. c + b \in Int /\ (c + b) + 1 = c + (b + 1)
    OBVIOUS
  <2> HIDE DEF m, f
  <2> QED
    BY <2>1, <2>2, <2>3, <2>4, NextBlockIs
<1>6. \A b \in Nat : b \in S
  <2> HIDE DEF S
  <2> QED
    BY <1>4, <1>5, Induction
<1> QED
  BY <1>6

\* The number that two words make up.
LEMMA NumberOfWords ==
    ASSUME NEW a \in Int
    PROVE  Chacha!Ctr(WordsOf(a)[1], WordsOf(a)[2]) = a % (CtrRange * CtrRange)
<1>0. CtrRange \in Nat \ {0}
  BY CipherOk DEF CipherSizes
<1>1. PICK k \in Int, r \in 0 .. CtrRange - 1 :
        a = CtrRange * k + r /\ a \div CtrRange = k /\ a % CtrRange = r
  BY <1>0, Quotient
<1>2. PICK q \in Int, s \in 0 .. CtrRange - 1 :
        k = CtrRange * q + s /\ k % CtrRange = s
  BY <1>0, Quotient
<1> DEFINE p == CtrRange * CtrRange
           t == r + CtrRange * s
<1>3. p \in Nat \ {0}
  BY <1>0, Z3
<1>4. t \in 0 .. p - 1
  <2>1. CtrRange * s >= 0 /\ CtrRange * s <= CtrRange * (CtrRange - 1)
    BY <1>0, <1>2, Z3
  <2>2. CtrRange * (CtrRange - 1) = p - CtrRange
    BY <1>0, Z3
  <2>3. CtrRange * s \in Int /\ p \in Int
    BY <1>0, <1>2, <1>3
  <2> HIDE DEF p
  <2> QED
    BY <1>0, <1>1, <2>1, <2>2, <2>3
<1>5. a = p * q + t
  <2>1. CtrRange * (CtrRange * q + s) = p * q + CtrRange * s
    BY <1>0, <1>2, Z3
  <2>2. CtrRange * s \in Int /\ p * q \in Int
    BY <1>0, <1>2, <1>3
  <2> HIDE DEF p
  <2> QED
    BY <1>0, <1>1, <1>2, <2>1, <2>2
<1>6. a % p = t
  <2> HIDE DEF p, t
  <2> QED
    BY <1>2, <1>3, <1>4, <1>5, Remainder
<1> QED
  BY <1>1, <1>2, <1>6 DEF Chacha!Ctr, WordsOf

\* Two blocks of one key stream have different words.
LEMMA WordsDiffer ==
    ASSUME NEW a \in Int, NEW b \in Int, WordsOf(a) = WordsOf(b),
           a - b < CtrRange * CtrRange, b - a < CtrRange * CtrRange
    PROVE  a = b
<1>0. CtrRange * CtrRange \in Nat \ {0}
  BY CipherOk, Z3 DEF CipherSizes
<1>1. a % (CtrRange * CtrRange) = b % (CtrRange * CtrRange)
  BY NumberOfWords
<1> DEFINE p == CtrRange * CtrRange
<1>2. p \in Nat \ {0} /\ a % p = b % p /\ a - b < p /\ b - a < p
  BY <1>0, <1>1
<1> HIDE DEF p
<1> QED
  BY <1>2, SameRemainder

\* What a text takes, by the length of its rest.
LEMMA BlocksAre ==
    ASSUME NEW n \in Nat
    PROVE  /\ n \div BlockBytes \in Nat /\ BlocksOf(n) \in Nat
           /\ BlocksOf(n) = (n \div BlockBytes) + (IF n % BlockBytes > 0 THEN 1 ELSE 0)
           /\ \A i \in 0 .. n - 1 :
                /\ i \div BlockBytes \in 0 .. BlocksOf(n) - 1 /\ i % BlockBytes \in 0 .. BlockBytes - 1
                /\ i \div BlockBytes <= n \div BlockBytes
                /\ i = BlockBytes * (i \div BlockBytes) + (i % BlockBytes)
           /\ n % BlockBytes = 0 => n = BlockBytes * BlocksOf(n)
           /\ n = 0 => BlocksOf(n) = 0
           /\ n > 0 => BlocksOf(n) > 0
<1> DEFINE B == BlockBytes
<1>0. B \in Nat \ {0}
  BY CipherOk DEF CipherSizes
<1> HIDE DEF B
<1>1. PICK m \in Int, r \in 0 .. B - 1 : n = B * m + r /\ n \div B = m /\ n % B = r
  BY <1>0, Quotient
<1>2. m <= -1 => B * m <= -B
  BY <1>0, <1>1, Z3
<1>3. m \in Nat
  BY <1>0, <1>1, <1>2
<1>4. B * (m + 1) = B * m + B
  BY <1>0, <1>1, Z3
<1>5. (n + B - 1) \div B = m + (IF r > 0 THEN 1 ELSE 0)
  <2> DEFINE x == n + B - 1
  <2>0. x \in Int /\ B * m \in Int
    BY <1>0, <1>1
  <2>1. CASE r = 0
    <3>1. x = B * m + (B - 1) /\ B - 1 \in 0 .. B - 1
      BY <1>0, <1>1, <2>0, <2>1
    <3> HIDE DEF x
    <3>2. x \div B = m
      BY <1>0, <1>1, <2>0, <3>1, Remainder
    <3> QED
      BY <1>1, <2>1, <3>2 DEF x
  <2>2. CASE r > 0
    <3>1. x = B * (m + 1) + (r - 1) /\ r - 1 \in 0 .. B - 1 /\ m + 1 \in Int
      BY <1>0, <1>1, <1>4, <2>0, <2>2
    <3> HIDE DEF x
    <3>2. x \div B = m + 1
      BY <1>0, <2>0, <3>1, Remainder
    <3> QED
      BY <1>1, <2>2, <3>2 DEF x
  <2> QED
    BY <1>0, <1>1, <2>1, <2>2
<1>6. BlocksOf(n) = m + (IF r > 0 THEN 1 ELSE 0)
  BY <1>5 DEF BlocksOf, B
<1>7. ASSUME NEW i \in 0 .. n - 1
      PROVE  /\ i \div B \in 0 .. BlocksOf(n) - 1 /\ i % B \in 0 .. B - 1
             /\ i \div B <= m
             /\ i = B * (i \div B) + (i % B)
  <2>1. PICK q \in Int, s \in 0 .. B - 1 : i = B * q + s /\ i \div B = q /\ i % B = s
    BY <1>0, Quotient
  <2>2. q <= -1 => B * q <= -B
    BY <1>0, <2>1, Z3
  <2>3. q >= m + 1 => B * q >= B * (m + 1)
    BY <1>0, <1>1, <2>1, Z3
  <2>4. q >= m => B * q >= B * m
    BY <1>0, <1>1, <2>1, Z3
  <2>5. q >= 0
    BY <1>0, <2>1, <2>2
  <2>6. q <= m /\ (r = 0 => q < m)
    BY <1>0, <1>1, <1>4, <2>1, <2>3, <2>4
  <2> QED
    BY <1>0, <1>1, <1>3, <1>6, <2>1, <2>5, <2>6
<1>8. r = 0 => n = B * BlocksOf(n)
  BY <1>0, <1>1, <1>3, <1>6
<1>9. n = 0 => BlocksOf(n) = 0
  <2> SUFFICES ASSUME n = 0 PROVE BlocksOf(n) = 0
    OBVIOUS
  <2>1. m >= 1 => B * m >= B
    BY <1>0, <1>1, Z3
  <2> QED
    BY <1>0, <1>1, <1>3, <1>6, <2>1
<1>10. n > 0 => BlocksOf(n) > 0
  <2> SUFFICES ASSUME n > 0 PROVE BlocksOf(n) > 0
    OBVIOUS
  <2>1. m = 0 => B * m = 0
    BY <1>0, <1>1, Z3
  <2> QED
    BY <1>0, <1>1, <1>3, <1>6, <2>1
<1> QED
  BY <1>1, <1>3, <1>6, <1>7, <1>8, <1>9, <1>10 DEF B

\* The counter that a call returns is the number of the block behind its text.
LEMMA DjbNextIs ==
    ASSUME NEW c \in Nat, NEW n \in Nat
    PROVE  Chacha!DjbNext(n, c) = (c + BlocksOf(n)) % (CtrRange * CtrRange)
<1> DEFINE p == CtrRange * CtrRange
           m == n \div BlockBytes
           e == IF n % BlockBytes > 0 THEN 1 ELSE 0
<1>0. p \in Nat \ {0}
  BY CipherOk, Z3 DEF CipherSizes
<1>1. m \in Nat /\ e \in Nat /\ BlocksOf(n) = m + e
  BY BlocksAre
<1>2. Chacha!Counters(c, n)[m] = WordsOf(c + m)
  BY <1>1, CountersAre
<1>3. c + m \in Int
  BY <1>1
<1>4. Chacha!DjbNext(n, c) = (((c + m) % p) + e) % p
  BY <1>2, <1>3, NumberOfWords DEF Chacha!DjbNext
<1> HIDE DEF p, m, e
<1>5. (((c + m) % p) + e) % p = ((c + m) + e) % p
  <2>1. e \in Int
    BY <1>1
  <2> QED
    BY <1>0, <1>3, <2>1, RemainderOfSum
<1>6. (c + m) + e = c + BlocksOf(n)
  BY <1>1
<1> QED
  BY <1>4, <1>5, <1>6 DEF p

\* The byte of key stream at place i of a text that begins at block c.
StreamAt(key, nonce, c, i) ==
    Chacha!KeyStream(key, nonce, WordsOf(c + (i \div BlockBytes))[1],
                     WordsOf(c + (i \div BlockBytes))[2], i % BlockBytes)

LEMMA DjbIs ==
    ASSUME NEW U, NEW text \in Seq(U), NEW key, NEW nonce, NEW c \in Nat
    PROVE  /\ DOMAIN Chacha!Djb(text, key, nonce, c) = 1 .. Len(text)
           /\ \A j \in 1 .. Len(text) :
                LET k == StreamAt(key, nonce, c, j - 1)
                IN  Chacha!Djb(text, key, nonce, c)[j]
                        = <<text[j][1], (text[j][2] \ {k}) \cup ({k} \ text[j][2])>>
           /\ Chacha!Djb(text, key, nonce, c)
                = [j \in 1 .. Len(text) |-> Chacha!Djb(text, key, nonce, c)[j]]
<1> DEFINE n == Len(text)
           blocks == Chacha!Counters(c, n)
<1>1. n \in Nat
  OBVIOUS
<1>2. ASSUME NEW j \in 1 .. n
      PROVE  blocks[(j - 1) \div BlockBytes] = WordsOf(c + ((j - 1) \div BlockBytes))
  <2>1. j - 1 \in 0 .. n - 1
    BY <1>1
  <2> DEFINE i == j - 1
  <2> HIDE DEF i
  <2>3. i \in 0 .. n - 1
    BY <2>1 DEF i
  <2>4. BlocksOf(n) \in Nat /\ i \div BlockBytes \in 0 .. BlocksOf(n) - 1
        /\ i \div BlockBytes <= n \div BlockBytes
    BY <1>1, <2>3, BlocksAre
  <2>2. (j - 1) \div BlockBytes \in Nat /\ (j - 1) \div BlockBytes <= n \div BlockBytes
    BY <2>4 DEF i
  <2> QED
    BY <1>1, <2>2, CountersAre
<1>3. Chacha!Djb(text, key, nonce, c) =
        [j \in 1 .. n |->
            <<text[j][1], (text[j][2] \ {Chacha!KeyStream(key, nonce, blocks[(j - 1) \div BlockBytes][1],
                                             blocks[(j - 1) \div BlockBytes][2], (j - 1) % BlockBytes)})
               \cup ({Chacha!KeyStream(key, nonce, blocks[(j - 1) \div BlockBytes][1],
                                             blocks[(j - 1) \div BlockBytes][2], (j - 1) % BlockBytes)}
                        \ text[j][2])>>]
  BY DEF Chacha!Djb
<1> HIDE DEF n, blocks
<1>4. \A j \in 1 .. n :
        StreamAt(key, nonce, c, j - 1) =
            Chacha!KeyStream(key, nonce, blocks[(j - 1) \div BlockBytes][1],
                             blocks[(j - 1) \div BlockBytes][2], (j - 1) % BlockBytes)
  BY <1>2 DEF StreamAt
<1>5. \A j \in 1 .. n :
        LET k == StreamAt(key, nonce, c, j - 1)
        IN  Chacha!Djb(text, key, nonce, c)[j]
                = <<text[j][1], (text[j][2] \ {k}) \cup ({k} \ text[j][2])>>
  BY <1>3, <1>4
<1>6. DOMAIN Chacha!Djb(text, key, nonce, c) = 1 .. n
  BY <1>3
<1>7. Chacha!Djb(text, key, nonce, c) = [j \in 1 .. n |-> Chacha!Djb(text, key, nonce, c)[j]]
  BY <1>3
<1> QED
  BY <1>5, <1>6, <1>7 DEF n

-----------------------------------------------------------------------------
(* Texts in pieces. *)

StreamKey(kind, nonce) == IF kind = "x" THEN Chacha!HKey(<<1>>, nonce[1]) ELSE <<1>>
StreamNonce(kind, nonce) == IF kind = "djb" THEN nonce ELSE nonce[2]
StreamBase(kind, nonce) == IF kind = "ietf" THEN CtrRange * nonce[1] ELSE 0
StreamWidth(kind) == IF kind = "ietf" THEN CtrRange ELSE CtrRange * CtrRange

\* Byte o of block a of a nonce's key stream.
StreamName(kind, nonce, a, o) ==
    Chacha!KeyStream(StreamKey(kind, nonce), StreamNonce(kind, nonce),
                     WordsOf(a + StreamBase(kind, nonce))[1],
                     WordsOf(a + StreamBase(kind, nonce))[2], o)

\* The blocks of every cipher are numbered within its range of the counter.
LEMMA BaseFits ==
    ASSUME NEW kind \in Variants, NEW nonce \in StreamNonces, NEW a \in Nat, a < StreamWidth(kind)
    PROVE  /\ StreamBase(kind, nonce) \in Nat /\ a + StreamBase(kind, nonce) \in Nat
           /\ a + StreamBase(kind, nonce) < CtrRange * CtrRange
<1>0. CtrRange \in Nat \ {0} /\ nonce[1] \in 0 .. CtrRange - 1
  BY CipherOk, ChachaOk DEF CipherSizes, Chacha!StreamAssumption
<1>1. CASE kind = "ietf"
  <2>1. CtrRange * nonce[1] \in Nat /\ CtrRange * nonce[1] <= CtrRange * (CtrRange - 1)
    BY <1>0, Z3
  <2>2. CtrRange * (CtrRange - 1) = CtrRange * CtrRange - CtrRange /\ CtrRange * CtrRange \in Nat
    BY <1>0, Z3
  <2>3. a < CtrRange
    BY <1>1 DEF StreamWidth
  <2>4. StreamBase(kind, nonce) = CtrRange * nonce[1]
    BY <1>1 DEF StreamBase
  <2> QED
    BY <1>0, <2>1, <2>2, <2>3, <2>4
<1>2. CASE kind # "ietf"
  BY <1>2 DEF StreamBase, StreamWidth
<1> QED
  BY <1>1, <1>2

\* No byte of key stream has two places.
LEMMA NamesDiffer ==
    ASSUME NEW kind \in Variants, NEW n1 \in StreamNonces, NEW n2 \in StreamNonces,
           NEW a1 \in Nat, NEW a2 \in Nat, a1 < StreamWidth(kind), a2 < StreamWidth(kind),
           NEW o1, NEW o2, StreamName(kind, n1, a1, o1) = StreamName(kind, n2, a2, o2)
    PROVE  n1 = n2 /\ a1 = a2 /\ o1 = o2
<1> DEFINE c1 == a1 + StreamBase(kind, n1)
           c2 == a2 + StreamBase(kind, n2)
<1>0. CtrRange \in Nat \ {0} /\ kind \in {"djb", "ietf", "x"}
  BY CipherOk, ChachaOk DEF CipherSizes, Chacha!StreamAssumption
<1>1. /\ n1 = <<n1[1], n1[2]>> /\ n1[1] \in 0 .. CtrRange - 1
      /\ n2 = <<n2[1], n2[2]>> /\ n2[1] \in 0 .. CtrRange - 1
  BY ChachaOk DEF Chacha!StreamAssumption
<1>2. /\ StreamKey(kind, n1) = StreamKey(kind, n2) /\ StreamNonce(kind, n1) = StreamNonce(kind, n2)
      /\ WordsOf(c1)[1] = WordsOf(c2)[1] /\ WordsOf(c1)[2] = WordsOf(c2)[2] /\ o1 = o2
  BY DEF StreamName, Chacha!KeyStream
<1>3. WordsOf(c1) = WordsOf(c2)
  BY <1>2 DEF WordsOf
<1>4. c1 \in Nat /\ c2 \in Nat /\ c1 < CtrRange * CtrRange /\ c2 < CtrRange * CtrRange
  BY BaseFits
<1>5. c1 = c2
  <2>1. CtrRange * CtrRange \in Nat
    BY <1>0, Z3
  <2>2. c1 - c2 < CtrRange * CtrRange /\ c2 - c1 < CtrRange * CtrRange
    <3> DEFINE p == CtrRange * CtrRange
    <3>1. p \in Nat /\ c1 \in Nat /\ c2 \in Nat /\ c1 < p /\ c2 < p
      BY <1>4, <2>1
    <3> HIDE DEF p, c1, c2
    <3>2. c1 - c2 < p /\ c2 - c1 < p
      BY <3>1
    <3> QED
      BY <3>2 DEF p
  <2>3. c1 \in Int /\ c2 \in Int
    BY <1>4
  <2> HIDE DEF c1, c2
  <2> QED
    BY <1>3, <2>2, <2>3, WordsDiffer
<1>6. CASE kind = "djb"
  BY <1>2, <1>5, <1>6 DEF StreamNonce, StreamBase
<1>7. CASE kind = "x"
  <2>1. n1[1] = n2[1]
    <3>1. Chacha!HKey(<<1>>, n1[1]) = Chacha!HKey(<<1>>, n2[1])
      BY <1>2, <1>7 DEF StreamKey
    <3>2. Chacha!HKey(<<1>>, n1[1])[1][2] = {<<<<1>>, n1[1]>>}
      BY DEF Chacha!HKey
    <3>3. Chacha!HKey(<<1>>, n2[1])[1][2] = {<<<<1>>, n2[1]>>}
      BY DEF Chacha!HKey
    <3> DEFINE b1 == <<<<1>>, n1[1]>>
               b2 == <<<<1>>, n2[1]>>
    <3>4. b1[2] = n1[1] /\ b2[2] = n2[1]
      OBVIOUS
    <3>5. {b1} = {b2}
      BY <3>1, <3>2, <3>3
    <3> HIDE DEF b1, b2
    <3>6. b1 = b2
      BY <3>5
    <3> QED
      BY <3>4, <3>6
  <2>2. n1[2] = n2[2]
    BY <1>2, <1>7 DEF StreamNonce
  <2> QED
    BY <1>1, <1>2, <1>5, <1>7, <2>1, <2>2 DEF StreamBase
<1>8. CASE kind = "ietf"
  <2>1. n1[2] = n2[2]
    BY <1>2, <1>8 DEF StreamNonce
  <2>2. CtrRange * n1[1] + a1 = CtrRange * n2[1] + a2
    <3>1. CtrRange * n1[1] \in Nat /\ CtrRange * n2[1] \in Nat
      BY <1>0, <1>1, Z3
    <3> QED
      BY <1>5, <1>8, <3>1 DEF StreamBase
  <2>3. a1 \in 0 .. CtrRange - 1 /\ a2 \in 0 .. CtrRange - 1
    BY <1>0, <1>8 DEF StreamWidth
  <2>4. n1[1] \in Int /\ n2[1] \in Int
    BY <1>0, <1>1
  <2> DEFINE x == CtrRange * n1[1] + a1
  <2>5. x \in Int /\ x = CtrRange * n1[1] + a1 /\ x = CtrRange * n2[1] + a2
    <3>1. CtrRange * n1[1] \in Nat
      BY <1>0, <1>1, Z3
    <3> QED
      BY <2>2, <3>1
  <2> HIDE DEF x
  <2>6. x % CtrRange = a1 /\ x \div CtrRange = n1[1] /\ x % CtrRange = a2 /\ x \div CtrRange = n2[1]
    BY <1>0, <2>3, <2>4, <2>5, Remainder
  <2> QED
    BY <1>1, <1>2, <2>1, <2>6
<1> QED
  BY <1>0, <1>6, <1>7, <1>8

LEMMA EncryptIs ==
    ASSUME v1 \in Variants, NEW text, NEW nonce, NEW c \in Nat, nonce[1] \in Nat
    PROVE  Chacha!Encrypt(text, nonce, c) =
                Chacha!Djb(text, StreamKey(v1, nonce), StreamNonce(v1, nonce),
                           c + StreamBase(v1, nonce))
<1>0. v1 \in {"djb", "ietf", "x"}
  BY ChachaOk DEF Chacha!StreamAssumption
<1>1. CASE v1 = "djb"
  <2>1. c + 0 = c
    OBVIOUS
  <2> QED
    BY <1>1, <2>1 DEF Chacha!Encrypt, StreamKey, StreamNonce, StreamBase
<1>2. CASE v1 = "x"
  <2>1. c + 0 = c
    OBVIOUS
  <2> QED
    BY <1>2, <2>1 DEF Chacha!Encrypt, Chacha!X, StreamKey, StreamNonce, StreamBase
<1>3. CASE v1 = "ietf"
  BY <1>3 DEF Chacha!Encrypt, Chacha!Ietf, Chacha!IetfCtr, Chacha!Ctr, StreamKey, StreamNonce,
              StreamBase
<1> QED
  BY <1>0, <1>1, <1>2, <1>3

\* The counter that a call passes on.
LEMMA Next64Is ==
    ASSUME v1 \in Variants, NEW nonce \in StreamNonces, NEW n \in Nat, NEW a \in Nat,
           NEW c, c = a % StreamWidth(v1), a <= StreamWidth(v1)
    PROVE  Chacha!Next64(n, nonce, c) = (a + BlocksOf(n)) % StreamWidth(v1)
<1> DEFINE p == CtrRange * CtrRange
           m == BlocksOf(n)
<1>0. /\ CtrRange \in Nat \ {0} /\ p \in Nat \ {0} /\ v1 \in {"djb", "ietf", "x"}
      /\ nonce[1] \in 0 .. CtrRange - 1
  <2>1. CtrRange \in Nat \ {0}
    BY CipherOk DEF CipherSizes
  <2>2. p \in Nat \ {0}
    BY <2>1, Z3
  <2> QED
    BY <2>1, <2>2, ChachaOk DEF Chacha!StreamAssumption
<1>1. m \in Nat
  BY BlocksAre
<1> HIDE DEF p, m
<1>2. CASE v1 # "ietf"
  <2>1. c = a % p
    BY <1>2 DEF StreamWidth, p
  <2>2. c \in Nat
    BY <1>0, <2>1
  <2>3. Chacha!Next64(n, nonce, c) = (c + m) % p
    BY <1>2, <2>2, DjbNextIs DEF Chacha!Next64, p, m
  <2>4. ((a % p) + m) % p = (a + m) % p
    <3>1. a \in Int /\ m \in Int
      BY <1>1
    <3> QED
      BY <1>0, <3>1, RemainderOfSum
  <2> QED
    BY <1>2, <2>1, <2>3, <2>4 DEF StreamWidth, p, m
<1>3. CASE v1 = "ietf"
  <2> DEFINE b == CtrRange * nonce[1]
  <2>1. c = a % CtrRange /\ c \in Nat
    BY <1>0, <1>3 DEF StreamWidth
  <2>2. b \in Nat
    BY <1>0, Z3
  <2>3. Chacha!Next64(n, nonce, c) = ((c + b + m) % p) % CtrRange
    <3>1. c + b \in Nat
      BY <2>1, <2>2
    <3> HIDE DEF b
    <3> QED
      BY <1>3, <3>1, DjbNextIs
         DEF Chacha!Next64, Chacha!IetfNext, Chacha!IetfCtr, Chacha!Ctr, p, m, b
  <2>4. ASSUME NEW x \in Int
        PROVE  (x % p) % CtrRange = x % CtrRange
    <3>1. PICK k \in Int, r \in 0 .. p - 1 : x = p * k + r /\ x % p = r
      BY <1>0, Quotient
    <3>2. p * k = CtrRange * (CtrRange * k) /\ CtrRange * k \in Int
      BY <1>0, <3>1, Z3 DEF p
    <3>3. r \in Int
      BY <1>0
    <3>4. (CtrRange * (CtrRange * k) + r) % CtrRange = r % CtrRange
      BY <1>0, <3>2, <3>3, RemainderWithout
    <3> QED
      BY <3>1, <3>2, <3>4
  <2>5. c + b + m \in Int
    BY <1>1, <2>1, <2>2
  <2>6. ((c + b + m) % p) % CtrRange = (c + b + m) % CtrRange
    BY <2>4, <2>5
  <2>7. (c + b + m) % CtrRange = (a + m) % CtrRange
    <3>1. c + m \in Int /\ a \in Int /\ m \in Int /\ nonce[1] \in Int
      BY <1>0, <1>1, <2>1
    <3>2. c + b + m = b + (c + m)
      BY <2>1, <2>2, <1>1
    <3>3. (CtrRange * nonce[1] + (c + m)) % CtrRange = (c + m) % CtrRange
      BY <1>0, <3>1, RemainderWithout
    <3>4. (c + m) % CtrRange = (a + m) % CtrRange
      <4>1. ((a % CtrRange) + m) % CtrRange = (a + m) % CtrRange
        BY <1>0, <3>1, RemainderOfSum
      <4> QED
        BY <2>1, <4>1
    <3> QED
      BY <3>2, <3>3, <3>4
  <2> QED
    BY <1>3, <2>3, <2>6, <2>7 DEF StreamWidth, m
<1> QED
  BY <1>2, <1>3

-----------------------------------------------------------------------------
(* What one nonce's calls have made of its text. *)

\* The bytes of a text and what the nonce's key stream makes of them.
TextBytes(kind, nonce) ==
    Nat \X SUBSET {StreamName(kind, nonce, a, o) : a \in Nat, o \in Nat}

\* Byte j of a text, as block a of the key stream encrypts it.
Encrypted(kind, nonce, j, a, o) == <<j, {StreamName(kind, nonce, a, o)}>>

\* Every byte met a block of the key stream that was spent for it.
BytesArePaid(kind, f, nonce, x, s) ==
    \A j \in 1 .. Len(x) : \E b \in Nat, o \in Nat :
        b < s /\ x[j] = Encrypted(kind, nonce, j, f + b, o)

BytesDiffer(x) == \A i, j \in 1 .. Len(x) : x[i][2] = x[j][2] => i = j

\* What one call would have made of the text.
MadeAtOnce(kind, f, nonce, x, s) ==
    /\ s = BlocksOf(Len(x))
    /\ \A j \in 1 .. Len(x) :
        x[j] = Encrypted(kind, nonce, j, f + ((j - 1) \div BlockBytes), (j - 1) % BlockBytes)

EndsAreWhole(e, l) == \A z \in e : z % BlockBytes = 0 \/ z = l

StreamInv(kind, f, nonce, c, p, e, x, s) ==
    /\ f \in Nat /\ s \in Nat /\ f + s <= StreamWidth(kind) /\ c = (f + s) % StreamWidth(kind)
    /\ p \in Seq(TextBytes(kind, nonce)) /\ \A j \in 1 .. Len(p) : p[j] = <<j, {}>>
    /\ x \in Seq(TextBytes(kind, nonce)) /\ Len(x) = Len(p)
    /\ BytesArePaid(kind, f, nonce, x, s) /\ BytesDiffer(x)
    /\ e \subseteq 0 .. Len(p) /\ (Len(p) = 0 \/ Len(p) \in e)
    /\ EndsAreWhole(e, Len(p)) => MadeAtOnce(kind, f, nonce, x, s)

LEMMA WidthIs == \A kind : StreamWidth(kind) \in Nat \ {0}
<1>1. CtrRange \in Nat \ {0}
  BY CipherOk DEF CipherSizes
<1>2. CtrRange * CtrRange \in Nat \ {0}
  BY <1>1, Z3
<1> QED
  BY <1>1, <1>2 DEF StreamWidth

\* The key stream byte at place i of a call's text is that of the nonce's block.
LEMMA StreamAtIs ==
    ASSUME v1 \in Variants, NEW nonce \in StreamNonces, NEW c \in Nat, NEW i \in Nat
    PROVE  StreamAt(StreamKey(v1, nonce), StreamNonce(v1, nonce), c + StreamBase(v1, nonce), i)
             = StreamName(v1, nonce, c + (i \div BlockBytes), i % BlockBytes)
<1>1. StreamBase(v1, nonce) \in Nat
  <2>1. 0 \in Nat /\ 0 < StreamWidth(v1)
    BY WidthIs
  <2> QED
    BY <2>1, BaseFits
<1>2. i \div BlockBytes \in Nat
  BY BlocksAre
<1>3. (c + StreamBase(v1, nonce)) + (i \div BlockBytes)
        = (c + (i \div BlockBytes)) + StreamBase(v1, nonce)
  BY <1>1, <1>2
<1> QED
  BY <1>3 DEF StreamAt, StreamName

\* What a call makes of plain bytes.
LEMMA EncryptedPiece ==
    ASSUME v1 \in Variants, NEW nonce \in StreamNonces, NEW c \in Nat, NEW l \in Nat,
           NEW piece \in Seq(TextBytes(v1, nonce)),
           \A j \in 1 .. Len(piece) : piece[j] = <<l + j, {}>>
    PROVE  /\ Chacha!Encrypt(piece, nonce, c) \in Seq(TextBytes(v1, nonce))
           /\ Len(Chacha!Encrypt(piece, nonce, c)) = Len(piece)
           /\ \A j \in 1 .. Len(piece) :
                Chacha!Encrypt(piece, nonce, c)[j]
                  = Encrypted(v1, nonce, l + j, c + ((j - 1) \div BlockBytes), (j - 1) % BlockBytes)
<1> DEFINE n == Len(piece)
           enc == Chacha!Encrypt(piece, nonce, c)
           key == StreamKey(v1, nonce)
           rest == StreamNonce(v1, nonce)
           b == c + StreamBase(v1, nonce)
<1>0. n \in Nat
  OBVIOUS
<1>1. b \in Nat
  <2>1. 0 \in Nat /\ 0 < StreamWidth(v1)
    BY WidthIs
  <2>2. StreamBase(v1, nonce) \in Nat
    BY <2>1, BaseFits
  <2> QED
    BY <2>2
<1>2. enc = Chacha!Djb(piece, key, rest, b)
  <2>1. nonce[1] \in Nat
    BY ChachaOk DEF Chacha!StreamAssumption
  <2> QED
    BY <2>1, EncryptIs
<1> HIDE DEF b, key, rest, enc
<1>3. /\ DOMAIN enc = 1 .. n
      /\ \A j \in 1 .. n :
            LET k == StreamAt(key, rest, b, j - 1)
            IN  enc[j] = <<piece[j][1], (piece[j][2] \ {k}) \cup ({k} \ piece[j][2])>>
      /\ enc = [j \in 1 .. n |-> enc[j]]
  BY <1>1, <1>2, DjbIs
<1>4. ASSUME NEW j \in 1 .. n
      PROVE  /\ enc[j] = Encrypted(v1, nonce, l + j, c + ((j - 1) \div BlockBytes), (j - 1) % BlockBytes)
             /\ enc[j] \in TextBytes(v1, nonce)
  <2> DEFINE k == StreamAt(key, rest, b, j - 1)
  <2>1. piece[j][1] = l + j /\ piece[j][2] = {}
    <3>1. piece[j] = <<l + j, {}>>
      BY <1>4
    <3> QED
      BY <3>1
  <2>2. enc[j] = <<l + j, ({} \ {k}) \cup ({k} \ {})>>
    BY <1>3, <1>4, <2>1
  <2>3. ({} \ {k}) \cup ({k} \ {}) = {k}
    OBVIOUS
  <2>4. j - 1 \in Nat
    BY <1>0, <1>4
  <2>5. k = StreamName(v1, nonce, c + ((j - 1) \div BlockBytes), (j - 1) % BlockBytes)
    BY <2>4, StreamAtIs DEF key, rest, b
  <2>6. enc[j] = Encrypted(v1, nonce, l + j, c + ((j - 1) \div BlockBytes), (j - 1) % BlockBytes)
    BY <2>2, <2>3, <2>5, Zenon DEF Encrypted
  <2>7. c + ((j - 1) \div BlockBytes) \in Nat /\ (j - 1) % BlockBytes \in Nat
    <3>1. (j - 1) \div BlockBytes \in Nat /\ (j - 1) % BlockBytes \in 0 .. BlockBytes - 1
      <4>1. j - 1 \in 0 .. n - 1
        BY <1>0, <1>4
      <4> QED
        BY <1>0, <2>4, <4>1, BlocksAre
    <3> QED
      BY <3>1, CipherOk DEF CipherSizes
  <2>8. l + j \in Nat
    BY <1>0, <1>4
  <2> HIDE DEF k
  <2>9. enc[j] \in TextBytes(v1, nonce)
    BY <2>6, <2>7, <2>8 DEF Encrypted, TextBytes
  <2> QED
    BY <2>6, <2>9
<1>5. enc \in [1 .. n -> TextBytes(v1, nonce)]
  BY <1>3, <1>4
<1>6. enc \in Seq(TextBytes(v1, nonce)) /\ Len(enc) = n
  BY <1>0, <1>5
<1> QED
  BY <1>4, <1>6 DEF enc

\* A place in a text behind whole blocks.
LEMMA PlacesAdd ==
    ASSUME NEW s \in Nat, NEW i \in Nat
    PROVE  /\ (BlockBytes * s + i) \div BlockBytes = s + (i \div BlockBytes)
           /\ (BlockBytes * s + i) % BlockBytes = i % BlockBytes
           /\ BlocksOf(BlockBytes * s + i) = s + BlocksOf(i)
<1> DEFINE B == BlockBytes
<1>0. B \in Nat \ {0}
  BY CipherOk DEF CipherSizes
<1>1. ASSUME NEW y \in Nat
      PROVE  (B * s + y) \div B = s + (y \div B) /\ (B * s + y) % B = y % B
  <2>1. PICK k \in Int, r \in 0 .. B - 1 : y = B * k + r /\ y \div B = k /\ y % B = r
    BY <1>0, Quotient
  <2> DEFINE z == B * s + y
  <2>2. z = B * (s + k) + r
    <3>1. B * (s + k) = B * s + B * k /\ B * s \in Int /\ B * k \in Int
      BY <1>0, Z3
    <3> QED
      BY <1>0, <2>1, <3>1
  <2>3. z \in Int /\ s + k \in Int
    BY <1>0, Z3
  <2> HIDE DEF z, B
  <2>4. z % B = r /\ z \div B = s + k
    BY <1>0, <2>2, <2>3, Remainder
  <2> QED
    BY <2>1, <2>4 DEF z
<1>2. (B * s + (i + B - 1)) \div B = s + ((i + B - 1) \div B)
  <2>1. i + B - 1 \in Nat
    BY <1>0
  <2> HIDE DEF B
  <2> QED
    BY <1>1, <2>1
<1>3. B * s + (i + B - 1) = (B * s + i) + B - 1
  <2>1. B * s \in Int
    BY <1>0, Z3
  <2> HIDE DEF B
  <2> QED
    BY <1>0, <2>1
<1> QED
  BY <1>1, <1>2, <1>3 DEF BlocksOf, B

LEMMA Joined ==
    ASSUME NEW U, NEW s \in Seq(U), NEW t \in Seq(U)
    PROVE  /\ s \o t \in Seq(U) /\ Len(s \o t) = Len(s) + Len(t)
           /\ \A j \in 1 .. Len(s) : (s \o t)[j] = s[j]
<1> DEFINE u == s \o t
           l == Len(s)
           n == Len(t)
<1>1. /\ u \in Seq(U) /\ Len(u) = l + n /\ l \in Nat /\ n \in Nat
      /\ \A i \in 1 .. l + n : u[i] = IF i <= l THEN s[i] ELSE t[i - l]
  BY ConcatProperties, LenProperties
<1> HIDE DEF u, l, n
<1>2. ASSUME NEW j \in 1 .. l
      PROVE  u[j] = s[j]
  <2>1. j \in 1 .. l + n /\ j <= l
    BY <1>1
  <2> QED
    BY <1>1, <2>1
<1> QED
  BY <1>1, <1>2 DEF u, l, n

LEMMA JoinedBehind ==
    ASSUME NEW U, NEW s \in Seq(U), NEW t \in Seq(U), NEW j \in 1 .. Len(t)
    PROVE  (s \o t)[Len(s) + j] = t[j]
<1> DEFINE u == s \o t
           l == Len(s)
           n == Len(t)
<1>1. /\ l \in Nat /\ n \in Nat
      /\ \A i \in 1 .. l + n : u[i] = IF i <= l THEN s[i] ELSE t[i - l]
  BY ConcatProperties, LenProperties
<1> HIDE DEF u, l, n
<1>2. l + j \in 1 .. l + n /\ ~(l + j <= l) /\ (l + j) - l = j
  <2>1. j \in 1 .. n
    BY DEF n
  <2> QED
    BY <1>1, <2>1
<1>3. u[l + j] = t[j]
  BY <1>1, <1>2
<1> QED
  BY <1>3 DEF u, l, n

\* One more call.
LEMMA CallStep ==
    ASSUME v1 \in Variants, NEW nonce \in StreamNonces,
           NEW f, NEW c, NEW p, NEW e, NEW x, NEW s, NEW n \in Nat,
           StreamInv(v1, f, nonce, c, p, e, x, s), f + s + BlocksOf(n) <= StreamWidth(v1),
           NEW piece \in Seq(TextBytes(v1, nonce)), Len(piece) = n,
           \A j \in 1 .. n : piece[j] = <<Len(p) + j, {}>>
    PROVE  StreamInv(v1, f, nonce, Chacha!Next64(n, nonce, c), p \o piece, e \cup {Len(p) + n},
                     x \o Chacha!Encrypt(piece, nonce, c), s + BlocksOf(n))
<1> DEFINE U == TextBytes(v1, nonce)
           l == Len(p)
           m == BlocksOf(n)
           W == StreamWidth(v1)
           enc == Chacha!Encrypt(piece, nonce, c)
           q == p \o piece
           y == x \o enc
<1>0. /\ f \in Nat /\ s \in Nat /\ f + s <= W /\ c = (f + s) % W
      /\ p \in Seq(U) /\ x \in Seq(U) /\ Len(x) = l /\ l \in Nat
      /\ \A j \in 1 .. l : p[j] = <<j, {}>>
      /\ e \subseteq 0 .. l /\ (l = 0 \/ l \in e)
  <2>1. p \in Seq(U)
    BY DEF StreamInv
  <2>2. l \in Nat
    BY <2>1, LenProperties
  <2> QED
    BY <2>2, Zenon DEF StreamInv
<1>1. /\ BytesArePaid(v1, f, nonce, x, s) /\ BytesDiffer(x)
      /\ EndsAreWhole(e, l) => MadeAtOnce(v1, f, nonce, x, s)
  BY DEF StreamInv
<1>2. W \in Nat \ {0} /\ f + s + m <= W
  BY WidthIs
<1>3. m \in Nat /\ (n > 0 => m > 0)
  BY BlocksAre
<1>p. piece \in Seq(U) /\ Len(piece) = n /\ \A j \in 1 .. n : piece[j] = <<l + j, {}>>
  BY Zenon
<1> HIDE DEF U, l, m, W
<1>4. c \in Nat /\ (n > 0 => c = f + s)
  <2>1. c \in Nat
    BY <1>0, <1>2
  <2>2. ASSUME n > 0
        PROVE  c = f + s
    <3>1. f + s \in 0 .. W - 1
      BY <1>0, <1>2, <1>3, <2>2
    <3> QED
      BY <1>0, <1>2, <3>1, RemainderOfSmall
  <2> QED
    BY <2>1, <2>2
<1>5. /\ enc \in Seq(U) /\ Len(enc) = n
      /\ \A j \in 1 .. n :
           enc[j] = Encrypted(v1, nonce, l + j, c + ((j - 1) \div BlockBytes), (j - 1) % BlockBytes)
  <2>1. \A j \in 1 .. Len(piece) : piece[j] = <<l + j, {}>>
    BY <1>p
  <2>2. piece \in Seq(TextBytes(v1, nonce))
    BY <1>p DEF U
  <2>3. c \in Nat /\ l \in Nat
    BY <1>0, <1>4
  <2>4. /\ enc \in Seq(TextBytes(v1, nonce)) /\ Len(enc) = Len(piece)
        /\ \A j \in 1 .. Len(piece) :
             enc[j] = Encrypted(v1, nonce, l + j, c + ((j - 1) \div BlockBytes),
                                (j - 1) % BlockBytes)
    BY <2>1, <2>2, <2>3, EncryptedPiece
  <2> QED
    BY <1>p, <2>4 DEF U
<1> HIDE DEF enc
<1>6. /\ q \in Seq(U) /\ Len(q) = l + n
      /\ \A j \in 1 .. l : q[j] = p[j]
      /\ \A j \in 1 .. n : q[l + j] = piece[j]
  <2>1. p \in Seq(U) /\ Len(p) = l /\ l \in Nat /\ n \in Nat
    BY <1>0 DEF l
  <2>2. piece \in Seq(U) /\ Len(piece) = n
    BY <1>p
  <2>3. q \in Seq(U) /\ Len(q) = Len(p) + Len(piece)
    BY <2>1, <2>2, Joined, Zenon DEF q
  <2>4. \A j \in 1 .. Len(p) : q[j] = p[j]
    BY <2>1, <2>2, Joined, Zenon DEF q
  <2>5. ASSUME NEW j \in 1 .. Len(piece)
        PROVE  q[Len(p) + j] = piece[j]
    BY <2>1, <2>2, <2>5, JoinedBehind, Zenon DEF q
  <2> HIDE DEF q
  <2> QED
    BY <2>1, <2>2, <2>3, <2>4, <2>5
<1>7. /\ y \in Seq(U) /\ Len(y) = l + n
      /\ \A j \in 1 .. l : y[j] = x[j]
      /\ \A j \in 1 .. n : y[l + j] = enc[j]
  <2>1. x \in Seq(U) /\ Len(x) = l /\ l \in Nat /\ n \in Nat
    BY <1>0
  <2>2. enc \in Seq(U) /\ Len(enc) = n
    BY <1>5
  <2>3. y \in Seq(U) /\ Len(y) = Len(x) + Len(enc)
    BY <2>1, <2>2, Joined, Zenon DEF y
  <2>4. \A j \in 1 .. Len(x) : y[j] = x[j]
    BY <2>1, <2>2, Joined, Zenon DEF y
  <2>5. ASSUME NEW j \in 1 .. Len(enc)
        PROVE  y[Len(x) + j] = enc[j]
    BY <2>1, <2>2, <2>5, JoinedBehind, Zenon DEF y
  <2> HIDE DEF y
  <2> QED
    BY <2>1, <2>2, <2>3, <2>4, <2>5
<1> HIDE DEF q, y
\* Every place of the new text is an old one or one of the piece.
<1>8. ASSUME NEW j \in 1 .. l + n
      PROVE  j \in 1 .. l \/ \E i \in 1 .. n : j = l + i
  <2>1. j <= l => j \in 1 .. l
    BY <1>0
  <2>2. j > l => (j - l) \in 1 .. n /\ j = l + (j - l)
    BY <1>0
  <2> QED
    BY <1>0, <2>1, <2>2
\* The bytes of the piece, by the block spent for them.
<1>9. ASSUME NEW j \in 1 .. n
      PROVE  /\ (j - 1) \div BlockBytes \in Nat /\ (j - 1) \div BlockBytes < m
             /\ (j - 1) % BlockBytes \in Nat
             /\ j - 1 = BlockBytes * ((j - 1) \div BlockBytes) + ((j - 1) % BlockBytes)
             /\ s + ((j - 1) \div BlockBytes) \in Nat /\ s + ((j - 1) \div BlockBytes) < s + m
             /\ f + (s + ((j - 1) \div BlockBytes)) < W
             /\ y[l + j] = Encrypted(v1, nonce, l + j, f + (s + ((j - 1) \div BlockBytes)),
                                     (j - 1) % BlockBytes)
  <2> DEFINE d == (j - 1) \div BlockBytes
  <2>1. j - 1 \in 0 .. n - 1 /\ n > 0
    BY <1>9
  <2>2. /\ d \in 0 .. m - 1 /\ (j - 1) % BlockBytes \in 0 .. BlockBytes - 1
        /\ j - 1 = BlockBytes * d + ((j - 1) % BlockBytes)
    BY <2>1, BlocksAre DEF m
  <2> HIDE DEF d
  <2>3. d \in Nat /\ d < m /\ (j - 1) % BlockBytes \in Nat
    BY <1>3, <2>2, CipherOk DEF CipherSizes
  <2>4. c + d = f + (s + d)
    BY <1>0, <1>4, <2>1, <2>3
  <2>5. f + s + m <= W
    BY <1>2
  <2>6. s + d \in Nat /\ s + d < s + m
    BY <1>0, <1>3, <2>3
  <2>7. f + (s + d) < W
    BY <1>0, <1>2, <1>3, <2>3, <2>5
  <2>8. y[l + j] = Encrypted(v1, nonce, l + j, c + d, (j - 1) % BlockBytes)
    BY <1>5, <1>7 DEF d
  <2> QED
    BY <2>2, <2>3, <2>4, <2>6, <2>7, <2>8 DEF d
<1>10. BytesArePaid(v1, f, nonce, y, s + m)
  <2> SUFFICES ASSUME NEW j \in 1 .. l + n
               PROVE  \E b \in Nat, o \in Nat :
                        b < s + m /\ y[j] = Encrypted(v1, nonce, j, f + b, o)
    BY <1>7 DEF BytesArePaid
  <2>1. CASE j \in 1 .. l
    <3>1. PICK b \in Nat, o \in Nat : b < s /\ x[j] = Encrypted(v1, nonce, j, f + b, o)
      BY <1>0, <1>1, <2>1 DEF BytesArePaid
    <3>2. b < s + m /\ y[j] = Encrypted(v1, nonce, j, f + b, o)
      BY <1>0, <1>3, <1>7, <2>1, <3>1
    <3> QED
      BY <3>2
  <2>2. ASSUME NEW i \in 1 .. n, j = l + i
        PROVE  \E b \in Nat, o \in Nat :
                        b < s + m /\ y[j] = Encrypted(v1, nonce, j, f + b, o)
    BY <1>9, <2>2
  <2> QED
    BY <1>8, <2>1, <2>2
<1>11. BytesDiffer(y)
  <2>0. \A b \in Nat : b < s => f + b \in Nat /\ f + b < W
    BY <1>0, <1>2
  <2>1. ASSUME NEW i \in 1 .. l, NEW j \in 1 .. n
        PROVE  y[i][2] # y[l + j][2]
    <3> DEFINE d == s + ((j - 1) \div BlockBytes)
               o2 == (j - 1) % BlockBytes
    <3>1. PICK b \in Nat, o \in Nat : b < s /\ x[i] = Encrypted(v1, nonce, i, f + b, o)
      BY <1>0, <1>1, <2>1 DEF BytesArePaid
    <3>2. d \in Nat /\ f + d < W /\ y[l + j] = Encrypted(v1, nonce, l + j, f + d, o2) /\ b < d
      <4>1. (j - 1) \div BlockBytes \in Nat /\ f + d < W
            /\ y[l + j] = Encrypted(v1, nonce, l + j, f + d, o2)
        BY <1>9
      <4> DEFINE k == (j - 1) \div BlockBytes
      <4> HIDE DEF k
      <4>2. k \in Nat /\ d = s + k
        BY <4>1 DEF k
      <4>3. d \in Nat /\ b < d
        BY <1>0, <3>1, <4>2
      <4> QED
        BY <4>1, <4>3
    <3> HIDE DEF d, o2
    <3>3. y[i][2] = {StreamName(v1, nonce, f + b, o)} /\ y[l + j][2] = {StreamName(v1, nonce, f + d, o2)}
      BY <1>7, <3>1, <3>2 DEF Encrypted
    <3>4. ASSUME StreamName(v1, nonce, f + b, o) = StreamName(v1, nonce, f + d, o2)
          PROVE  FALSE
      <4>1. f + b \in Nat /\ f + d \in Nat /\ f + b < W /\ f + d < W
        <5>1. f + b \in Nat /\ f + b < W
          BY <2>0, <3>1
        <5> QED
          BY <1>0, <3>2, <5>1
      <4>2. f + b = f + d
        BY <3>4, <4>1, NamesDiffer DEF W
      <4> QED
        BY <1>0, <3>2, <4>2
    <3> QED
      BY <3>3, <3>4
  <2>2. ASSUME NEW i \in 1 .. n, NEW j \in 1 .. n, y[l + i][2] = y[l + j][2]
        PROVE  i = j
    <3> DEFINE d1 == (i - 1) \div BlockBytes
               d2 == (j - 1) \div BlockBytes
               o1 == (i - 1) % BlockBytes
               o2 == (j - 1) % BlockBytes
    <3>1. /\ d1 \in Nat /\ f + (s + d1) < W /\ i - 1 = BlockBytes * d1 + o1
          /\ y[l + i] = Encrypted(v1, nonce, l + i, f + (s + d1), o1)
      BY <1>9
    <3>2. /\ d2 \in Nat /\ f + (s + d2) < W /\ j - 1 = BlockBytes * d2 + o2
          /\ y[l + j] = Encrypted(v1, nonce, l + j, f + (s + d2), o2)
      BY <1>9
    <3> HIDE DEF d1, d2, o1, o2
    <3>3. StreamName(v1, nonce, f + (s + d1), o1) = StreamName(v1, nonce, f + (s + d2), o2)
      <4>1. y[l + i][2] = {StreamName(v1, nonce, f + (s + d1), o1)}
        BY <3>1 DEF Encrypted
      <4>2. y[l + j][2] = {StreamName(v1, nonce, f + (s + d2), o2)}
        BY <3>2 DEF Encrypted
      <4> QED
        BY <2>2, <4>1, <4>2
    <3>4. f + (s + d1) \in Nat /\ f + (s + d2) \in Nat
      BY <1>0, <3>1, <3>2
    <3>5. f + (s + d1) = f + (s + d2) /\ o1 = o2
      BY <3>1, <3>2, <3>3, <3>4, NamesDiffer DEF W
    <3>6. d1 = d2
      <4>1. d1 \in Nat /\ d2 \in Nat /\ f + (s + d1) = f + (s + d2)
        BY <3>1, <3>2, <3>5
      <4>2. f \in Nat /\ s \in Nat
        BY <1>0
      <4> QED
        BY <4>1, <4>2, SMT
    <3>7. i - 1 = j - 1
      BY <3>1, <3>2, <3>5, <3>6, Zenon
    <3> QED
      BY <3>7
  <2>3. ASSUME NEW i \in 1 .. l, NEW j \in 1 .. l, y[i][2] = y[j][2]
        PROVE  i = j
    BY <1>0, <1>1, <1>7, <2>3 DEF BytesDiffer
  <2> SUFFICES ASSUME NEW i \in 1 .. l + n, NEW j \in 1 .. l + n, y[i][2] = y[j][2]
               PROVE  i = j
    BY <1>7 DEF BytesDiffer
  <2>4. CASE i \in 1 .. l
    <3>1. CASE j \in 1 .. l
      BY <2>3, <2>4, <3>1
    <3>2. ASSUME NEW a \in 1 .. n, j = l + a
          PROVE  i = j
      BY <2>1, <2>4, <3>2
    <3> QED
      BY <1>8, <3>1, <3>2
  <2>5. ASSUME NEW a \in 1 .. n, i = l + a
        PROVE  i = j
    <3>1. CASE j \in 1 .. l
      BY <2>1, <2>5, <3>1
    <3>2. ASSUME NEW b \in 1 .. n, j = l + b
          PROVE  i = j
      BY <2>2, <2>5, <3>2
    <3> QED
      BY <1>8, <3>1, <3>2
  <2> QED
    BY <1>8, <2>4, <2>5
<1>12. /\ f \in Nat /\ s + m \in Nat /\ f + (s + m) <= W
       /\ Chacha!Next64(n, nonce, c) = (f + (s + m)) % W
  <2>1. f + s \in Nat /\ f + s <= W /\ c = (f + s) % W
    BY <1>0
  <2>2. Chacha!Next64(n, nonce, c) = ((f + s) + m) % W
    BY <2>1, Next64Is DEF m, W
  <2>3. (f + s) + m = f + (s + m)
    BY <1>0, <1>3
  <2>4. f + s + m <= W
    BY <1>2
  <2> QED
    BY <1>0, <1>3, <2>2, <2>3, <2>4
<1>13. \A j \in 1 .. l + n : q[j] = <<j, {}>>
  <2> SUFFICES ASSUME NEW j \in 1 .. l + n
               PROVE  q[j] = <<j, {}>>
    OBVIOUS
  <2>1. CASE j \in 1 .. l
    BY <1>0, <1>6, <2>1
  <2>2. ASSUME NEW i \in 1 .. n, j = l + i
        PROVE  q[j] = <<j, {}>>
    BY <1>6, <1>p, <2>2
  <2> QED
    BY <1>8, <2>1, <2>2
<1>14. e \cup {l + n} \subseteq 0 .. l + n
  <2>1. \A z \in 0 .. l : z \in 0 .. l + n
    BY <1>0
  <2>2. l + n \in 0 .. l + n
    BY <1>0
  <2> QED
    BY <1>0, <2>1, <2>2
<1>15. ASSUME EndsAreWhole(e \cup {l + n}, l + n)
       PROVE  MadeAtOnce(v1, f, nonce, y, s + m)
  <2>1. EndsAreWhole(e, l)
    <3>1. CASE n = 0
      BY <1>0, <1>15, <3>1 DEF EndsAreWhole
    <3>2. CASE n > 0
      <4> SUFFICES ASSUME NEW z \in e
                   PROVE  z % BlockBytes = 0
        BY DEF EndsAreWhole
      <4>1. z # l + n
        BY <1>0, <3>2
      <4> QED
        BY <1>15, <4>1 DEF EndsAreWhole
    <3> QED
      BY <3>1, <3>2
  <2>2. MadeAtOnce(v1, f, nonce, x, s)
    BY <1>1, <2>1
  <2>3. s = BlocksOf(l)
    BY <1>0, <2>2 DEF MadeAtOnce
  <2>4. ASSUME NEW j \in 1 .. l
        PROVE  y[j] = Encrypted(v1, nonce, j, f + ((j - 1) \div BlockBytes), (j - 1) % BlockBytes)
    BY <1>0, <1>7, <2>2 DEF MadeAtOnce
  <2>5. CASE n = 0
    <3>1. m = 0
      BY <2>5, BlocksAre DEF m
    <3>2. s + m = s /\ Len(y) = l
      BY <1>0, <1>7, <2>5, <3>1
    <3> QED
      BY <2>3, <2>4, <3>2 DEF MadeAtOnce
  <2>6. CASE n > 0
    <3>1. l % BlockBytes = 0
      <4>1. CASE l = 0
        <5>1. 0 \in 0 .. BlockBytes - 1 /\ BlockBytes \in Nat \ {0}
          BY CipherOk DEF CipherSizes
        <5> QED
          BY <4>1, <5>1, RemainderOfSmall
      <4>2. CASE l # 0
        <5>1. l \in e /\ l # l + n
          BY <1>0, <2>6, <4>2
        <5> QED
          BY <1>15, <5>1 DEF EndsAreWhole
      <4> QED
        BY <4>1, <4>2
    <3>2. l = BlockBytes * s
      BY <1>0, <2>3, <3>1, BlocksAre
    <3>3. s + m = BlocksOf(l + n)
      BY <1>0, <3>2, PlacesAdd DEF m
    <3>4. ASSUME NEW j \in 1 .. n
          PROVE  y[l + j] = Encrypted(v1, nonce, l + j, f + (((l + j) - 1) \div BlockBytes),
                                      ((l + j) - 1) % BlockBytes)
      <4>1. j - 1 \in Nat /\ (l + j) - 1 = l + (j - 1)
        <5>1. j \in Nat /\ j >= 1 /\ l \in Nat
          BY <1>0
        <5> QED
          BY <5>1
      <4>2. /\ (l + (j - 1)) \div BlockBytes = s + ((j - 1) \div BlockBytes)
            /\ (l + (j - 1)) % BlockBytes = (j - 1) % BlockBytes
        BY <1>0, <3>2, <4>1, PlacesAdd
      <4>3. y[l + j] = Encrypted(v1, nonce, l + j, f + (s + ((j - 1) \div BlockBytes)),
                                 (j - 1) % BlockBytes)
        BY <1>9, <3>4
      <4> QED
        BY <4>1, <4>2, <4>3
    <3>5. ASSUME NEW j \in 1 .. l + n
          PROVE  y[j] = Encrypted(v1, nonce, j, f + ((j - 1) \div BlockBytes), (j - 1) % BlockBytes)
      <4>1. ASSUME NEW i \in 1 .. n, j = l + i
            PROVE  y[j] = Encrypted(v1, nonce, j, f + ((j - 1) \div BlockBytes),
                                    (j - 1) % BlockBytes)
        BY <3>4, <4>1
      <4> QED
        BY <1>8, <2>4, <4>1
    <3> QED
      BY <1>7, <3>3, <3>5 DEF MadeAtOnce
  <2> QED
    BY <2>5, <2>6
<1>16. StreamInv(v1, f, nonce, Chacha!Next64(n, nonce, c), q, e \cup {l + n}, y, s + m)
  <2>1. Len(q) = l + n /\ Len(y) = l + n /\ q \in Seq(U) /\ y \in Seq(U)
    BY <1>6, <1>7
  <2>2. l + n \in e \cup {l + n}
    OBVIOUS
  <2> QED
    BY <1>10, <1>11, <1>12, <1>13, <1>14, <1>15, <2>1, <2>2 DEF StreamInv, U, W
<1> QED
  BY <1>16 DEF q, y, m, enc, l

-----------------------------------------------------------------------------
(* The key stream, and texts in pieces. *)

ChachaInv ==
    /\ v1 \in Variants
    /\ v3 \in [StreamNonces -> Nat] /\ DOMAIN v4 = StreamNonces /\ DOMAIN v5 = StreamNonces
    /\ DOMAIN v6 = StreamNonces /\ DOMAIN v7 = StreamNonces
    /\ \A nonce \in StreamNonces :
        StreamInv(v1, v2, nonce, v3[nonce], v4[nonce], v5[nonce], v6[nonce], v7[nonce])

LEMMA StreamStart ==
    ASSUME NEW kind \in Variants, NEW nonce \in StreamNonces, NEW f \in Nat, f < StreamWidth(kind)
    PROVE  StreamInv(kind, f, nonce, f, <<>>, {}, <<>>, 0)
<1>1. StreamWidth(kind) \in Nat \ {0} /\ f \in 0 .. StreamWidth(kind) - 1
  BY WidthIs
<1>2. f = (f + 0) % StreamWidth(kind)
  BY <1>1, RemainderOfSmall
<1>3. <<>> \in Seq(TextBytes(kind, nonce)) /\ Len(<<>>) = 0
  OBVIOUS
<1>4. BlocksOf(0) = 0
  BY BlocksAre
<1> QED
  BY <1>1, <1>2, <1>3, <1>4 DEF StreamInv, BytesArePaid, BytesDiffer, MadeAtOnce, EndsAreWhole

LEMMA ChachaStart ==
    ASSUME Chacha!Init
    PROVE  ChachaInv
<1>1. /\ v1 \in Variants /\ v2 \in Nat /\ v2 < StreamWidth(v1)
      /\ v3 = [nonce \in StreamNonces |-> v2] /\ v4 = [nonce \in StreamNonces |-> <<>>]
      /\ v5 = [nonce \in StreamNonces |-> {}] /\ v6 = [nonce \in StreamNonces |-> <<>>]
      /\ v7 = [nonce \in StreamNonces |-> 0]
  <2>1. FirstCtrs \subseteq Nat
    BY ChachaOk DEF Chacha!StreamAssumption
  <2> QED
    BY <2>1 DEF Chacha!Init, Chacha!CtrWidth, StreamWidth
<1>2. ASSUME NEW nonce \in StreamNonces
      PROVE  StreamInv(v1, v2, nonce, v3[nonce], v4[nonce], v5[nonce], v6[nonce], v7[nonce])
  <2>1. StreamInv(v1, v2, nonce, v2, <<>>, {}, <<>>, 0)
    BY <1>1, StreamStart
  <2> QED
    BY <1>1, <2>1
<1> QED
  BY <1>1, <1>2 DEF ChachaInv

LEMMA ChachaStep ==
    ASSUME ChachaInv, [Chacha!Next]_Chacha!vars
    PROVE  ChachaInv'
<1>1. CASE UNCHANGED Chacha!vars
  BY <1>1 DEF ChachaInv, Chacha!vars
<1>2. ASSUME NEW nonce \in StreamNonces, Chacha!Call(nonce)
      PROVE  ChachaInv'
  <2> DEFINE l == Len(v4[nonce])
             Piece(n) == [j \in 1 .. n |-> Chacha!Plain(l + j)]
  <2>1. PICK n \in PieceSizes :
            /\ v2 + v7[nonce] + BlocksOf(n) <= StreamWidth(v1)
            /\ v7' = [v7 EXCEPT ![nonce] = @ + BlocksOf(n)]
            /\ v4' = [v4 EXCEPT ![nonce] = @ \o Piece(n)]
            /\ v5' = [v5 EXCEPT ![nonce] = @ \cup {l + n}]
            /\ v6' = [v6 EXCEPT ![nonce] = @ \o Chacha!Encrypt(Piece(n), nonce, v3[nonce])]
            /\ v3' = [v3 EXCEPT ![nonce] = Chacha!Next64(n, nonce, @)]
            /\ v1' = v1 /\ v2' = v2
    BY <1>2 DEF Chacha!Call, Chacha!CtrWidth, StreamWidth, BlocksOf
  <2> DEFINE piece == Piece(n)
  <2>2. n \in Nat
    BY ChachaOk DEF Chacha!StreamAssumption
  <2>3. StreamInv(v1, v2, nonce, v3[nonce], v4[nonce], v5[nonce], v6[nonce], v7[nonce])
    BY DEF ChachaInv
  <2>4. l \in Nat
    <3>1. v4[nonce] \in Seq(TextBytes(v1, nonce))
      BY <2>3 DEF StreamInv
    <3> QED
      BY <3>1, LenProperties
  <2>5. /\ piece \in Seq(TextBytes(v1, nonce)) /\ Len(piece) = n
        /\ \A j \in 1 .. n : piece[j] = <<l + j, {}>>
    <3> HIDE DEF l
    <3>1. \A j \in 1 .. n : Chacha!Plain(l + j) = <<l + j, {}>> /\ l + j \in Nat
      BY <2>2, <2>4 DEF Chacha!Plain
    <3>2. \A j \in 1 .. n : Chacha!Plain(l + j) \in TextBytes(v1, nonce)
      BY <3>1 DEF TextBytes
    <3>3. piece \in [1 .. n -> TextBytes(v1, nonce)]
      BY <3>2
    <3>4. piece \in Seq(TextBytes(v1, nonce)) /\ Len(piece) = n
      BY <2>2, <3>3
    <3> QED
      BY <3>1, <3>4
  <2> HIDE DEF piece
  <2>6. StreamInv(v1, v2, nonce, Chacha!Next64(n, nonce, v3[nonce]), v4[nonce] \o piece,
                  v5[nonce] \cup {l + n},
                  v6[nonce] \o Chacha!Encrypt(piece, nonce, v3[nonce]), v7[nonce] + BlocksOf(n))
    <3>1. v1 \in Variants
      BY DEF ChachaInv
    <3> QED
      BY <2>1, <2>2, <2>3, <2>5, <3>1, CallStep
  <2>7. /\ v3'[nonce] = Chacha!Next64(n, nonce, v3[nonce]) /\ v4'[nonce] = v4[nonce] \o piece
        /\ v5'[nonce] = v5[nonce] \cup {l + n}
        /\ v6'[nonce] = v6[nonce] \o Chacha!Encrypt(piece, nonce, v3[nonce])
        /\ v7'[nonce] = v7[nonce] + BlocksOf(n)
    BY <2>1, Zenon DEF ChachaInv, piece
  <2>8. Chacha!Next64(n, nonce, v3[nonce]) \in Nat
    <3>1. CtrRange \in Nat \ {0} /\ CtrRange * CtrRange \in Nat \ {0}
      <4>1. CtrRange \in Nat \ {0}
        BY CipherOk DEF CipherSizes
      <4> QED
        BY <4>1, Z3
    <3>2. \A k \in Nat : \A w \in Nat \ {0} : k % w \in Nat
      OBVIOUS
    <3>3. StreamWidth(v1) \in Nat \ {0}
      BY WidthIs
    <3>4. v7[nonce] + BlocksOf(n) \in Nat /\ v2 + (v7[nonce] + BlocksOf(n)) \in Nat
      BY <2>6 DEF StreamInv
    <3> QED
      BY <2>6, <3>2, <3>3, <3>4 DEF StreamInv
  <2>9. ASSUME NEW other \in StreamNonces
        PROVE  StreamInv(v1', v2', other, v3'[other], v4'[other], v5'[other], v6'[other], v7'[other])
    <3>1. CASE other = nonce
      BY <2>1, <2>6, <2>7, <3>1
    <3>2. CASE other # nonce
      <4>1. /\ v3'[other] = v3[other] /\ v4'[other] = v4[other] /\ v5'[other] = v5[other]
            /\ v6'[other] = v6[other] /\ v7'[other] = v7[other]
        BY <2>1, <3>2 DEF ChachaInv
      <4>2. StreamInv(v1, v2, other, v3[other], v4[other], v5[other], v6[other], v7[other])
        BY DEF ChachaInv
      <4> QED
        BY <2>1, <4>1, <4>2
    <3> QED
      BY <3>1, <3>2
  <2>10. /\ v1' \in Variants
         /\ v3' \in [StreamNonces -> Nat] /\ DOMAIN v4' = StreamNonces /\ DOMAIN v5' = StreamNonces
         /\ DOMAIN v6' = StreamNonces /\ DOMAIN v7' = StreamNonces
    BY <2>1, <2>8 DEF ChachaInv
  <2> QED
    BY <2>9, <2>10 DEF ChachaInv
<1> QED
  BY <1>1, <1>2 DEF Chacha!Next

LEMMA NoByteTwice ==
    ASSUME ChachaInv
    PROVE  Chacha!KeyStreamUsedOnce
<1> SUFFICES ASSUME NEW n1 \in StreamNonces, NEW n2 \in StreamNonces,
                    NEW i \in DOMAIN v6[n1], NEW j \in DOMAIN v6[n2], v6[n1][i][2] = v6[n2][j][2]
             PROVE  n1 = n2 /\ i = j
  BY DEF Chacha!KeyStreamUsedOnce
<1>1. v1 \in Variants /\ v2 \in Nat
  BY DEF ChachaInv, StreamInv
<1>2. ASSUME NEW nonce \in StreamNonces
      PROVE  /\ v6[nonce] \in Seq(TextBytes(v1, nonce)) /\ v7[nonce] \in Nat
             /\ v2 + v7[nonce] <= StreamWidth(v1)
             /\ BytesArePaid(v1, v2, nonce, v6[nonce], v7[nonce]) /\ BytesDiffer(v6[nonce])
  BY DEF ChachaInv, StreamInv
<1>3. ASSUME NEW nonce \in StreamNonces, NEW k \in DOMAIN v6[nonce]
      PROVE  \E a \in Nat, o \in Nat :
                a < StreamWidth(v1) /\ v6[nonce][k][2] = {StreamName(v1, nonce, a, o)}
  <2>1. k \in 1 .. Len(v6[nonce])
    BY <1>2
  <2>2. PICK b \in Nat, o \in Nat :
            b < v7[nonce] /\ v6[nonce][k] = Encrypted(v1, nonce, k, v2 + b, o)
    BY <1>2, <2>1 DEF BytesArePaid
  <2>3. StreamWidth(v1) \in Nat
    BY WidthIs
  <2>4. v2 + b \in Nat /\ v2 + b < StreamWidth(v1)
    BY <1>1, <1>2, <2>2, <2>3
  <2>5. v6[nonce][k][2] = {StreamName(v1, nonce, v2 + b, o)}
    BY <2>2 DEF Encrypted
  <2> QED
    BY <2>4, <2>5
<1>4. PICK a1 \in Nat, o1 \in Nat :
            a1 < StreamWidth(v1) /\ v6[n1][i][2] = {StreamName(v1, n1, a1, o1)}
  BY <1>3
<1>5. PICK a2 \in Nat, o2 \in Nat :
            a2 < StreamWidth(v1) /\ v6[n2][j][2] = {StreamName(v1, n2, a2, o2)}
  BY <1>3
<1>6. StreamName(v1, n1, a1, o1) = StreamName(v1, n2, a2, o2)
  BY <1>4, <1>5
<1>7. n1 = n2
  BY <1>1, <1>4, <1>5, <1>6, NamesDiffer
<1>8. i \in 1 .. Len(v6[n1]) /\ j \in 1 .. Len(v6[n1])
  BY <1>2, <1>7
<1> QED
  BY <1>2, <1>7, <1>8 DEF BytesDiffer

LEMMA OneCall ==
    ASSUME v1 \in Variants, NEW nonce \in StreamNonces,
           NEW f, NEW c, NEW p, NEW e, NEW x, NEW s,
           StreamInv(v1, f, nonce, c, p, e, x, s), EndsAreWhole(e, Len(p))
    PROVE  x = Chacha!Encrypt(p, nonce, f) /\ Chacha!Encrypt(x, nonce, f) = p
<1> DEFINE l == Len(p)
           U == TextBytes(v1, nonce)
           one == Chacha!Encrypt(p, nonce, f)
           key == StreamKey(v1, nonce)
           rest == StreamNonce(v1, nonce)
           b == f + StreamBase(v1, nonce)
           back == Chacha!Djb(x, key, rest, b)
<1>1. f \in Nat /\ p \in Seq(U) /\ x \in Seq(U) /\ Len(x) = l /\ l \in Nat
  <2>1. f \in Nat /\ p \in Seq(U) /\ x \in Seq(U) /\ Len(x) = l
    BY DEF StreamInv
  <2> QED
    BY <2>1, LenProperties
<1>2. \A j \in 1 .. l : p[j] = <<j, {}>>
  BY DEF StreamInv
<1>3. MadeAtOnce(v1, f, nonce, x, s)
  BY DEF StreamInv
<1>4. /\ one \in Seq(U) /\ Len(one) = l
      /\ \A j \in 1 .. l :
            one[j] = Encrypted(v1, nonce, 0 + j, f + ((j - 1) \div BlockBytes), (j - 1) % BlockBytes)
  <2> HIDE DEF l, U, one, key, rest, b, back
  <2>0. PICK z : z = 0
    OBVIOUS
  <2>1. \A j \in 1 .. Len(p) : p[j] = <<z + j, {}>>
    <3> SUFFICES ASSUME NEW j \in 1 .. l
                 PROVE  p[j] = <<z + j, {}>>
      BY DEF l
    <3>1. j \in Nat
      BY <1>1
    <3>2. z + j = j
      BY <2>0, <3>1
    <3> QED
      BY <1>2, <3>2
  <2>2. p \in Seq(TextBytes(v1, nonce))
    BY <1>1 DEF U
  <2>3. f \in Nat /\ z \in Nat
    BY <1>1, <2>0
  <2>4. /\ one \in Seq(TextBytes(v1, nonce)) /\ Len(one) = Len(p)
        /\ \A j \in 1 .. Len(p) :
             one[j] = Encrypted(v1, nonce, z + j, f + ((j - 1) \div BlockBytes), (j - 1) % BlockBytes)
    BY <2>1, <2>2, <2>3, EncryptedPiece DEF one
  <2> QED
    BY <2>0, <2>4 DEF U, l
<1>5. x = one
  <2> HIDE DEF one, U, l
  <2>1. ASSUME NEW j \in 1 .. l
        PROVE  x[j] = one[j]
    <3>1. x[j] = Encrypted(v1, nonce, j, f + ((j - 1) \div BlockBytes), (j - 1) % BlockBytes)
      BY <1>1, <1>3 DEF MadeAtOnce
    <3>2. 0 + j = j
      BY <1>1
    <3> QED
      BY <1>4, <3>1, <3>2
  <2> QED
    BY <1>1, <1>4, <2>1, SeqEqual
<1>6. b \in Nat
  <2>1. 0 \in Nat /\ 0 < StreamWidth(v1)
    BY WidthIs
  <2>2. StreamBase(v1, nonce) \in Nat
    BY <1>1, <2>1, BaseFits
  <2> QED
    BY <1>1, <2>2
<1>7. Chacha!Encrypt(x, nonce, f) = back
  <2>1. nonce[1] \in Nat
    BY ChachaOk DEF Chacha!StreamAssumption
  <2> QED
    BY <1>1, <2>1, EncryptIs
<1>8. /\ DOMAIN back = 1 .. l /\ back = [j \in 1 .. l |-> back[j]]
      /\ \A j \in 1 .. l :
            LET k == StreamAt(key, rest, b, j - 1)
            IN  back[j] = <<x[j][1], (x[j][2] \ {k}) \cup ({k} \ x[j][2])>>
  <2> HIDE DEF key, rest, b, U
  <2> QED
    BY <1>1, <1>6, DjbIs
<1>9. ASSUME NEW j \in 1 .. l
      PROVE  back[j] = p[j]
  <2> DEFINE k == StreamAt(key, rest, b, j - 1)
  <2>1. j - 1 \in Nat
    BY <1>1
  <2>2. k = StreamName(v1, nonce, f + ((j - 1) \div BlockBytes), (j - 1) % BlockBytes)
    BY <1>1, <2>1, StreamAtIs
  <2> HIDE DEF key, rest, b, U, back, l
  <2>3. x[j] = <<j, {k}>>
    BY <1>1, <1>3, <2>2 DEF MadeAtOnce, Encrypted
  <2> HIDE DEF k
  <2>4. x[j][1] = j /\ x[j][2] = {k}
    BY <2>3
  <2>5. ({k} \ {k}) \cup ({k} \ {k}) = {}
    OBVIOUS
  <2>6. back[j] = <<x[j][1], (x[j][2] \ {k}) \cup ({k} \ x[j][2])>>
    BY <1>8 DEF k
  <2> QED
    BY <1>2, <2>4, <2>5, <2>6
<1>10. back = p
  <2>1. p = [j \in 1 .. l |-> p[j]]
    BY <1>1
  <2> HIDE DEF back
  <2> QED
    BY <1>8, <1>9, <2>1
<1> QED
  BY <1>5, <1>7, <1>10

LEMMA OneText ==
    ASSUME ChachaInv
    PROVE  Chacha!PiecesAreOneText
<1> SUFFICES ASSUME NEW nonce \in StreamNonces,
                    \A e \in v5[nonce] : e % BlockBytes = 0 \/ e = Len(v4[nonce])
             PROVE  /\ v6[nonce] = Chacha!Encrypt(v4[nonce], nonce, v2)
                    /\ Chacha!Encrypt(v6[nonce], nonce, v2) = v4[nonce]
  BY DEF Chacha!PiecesAreOneText
<1>1. /\ v1 \in Variants
      /\ StreamInv(v1, v2, nonce, v3[nonce], v4[nonce], v5[nonce], v6[nonce], v7[nonce])
  BY DEF ChachaInv
<1>2. EndsAreWhole(v5[nonce], Len(v4[nonce]))
  BY DEF EndsAreWhole
<1> QED
  BY <1>1, <1>2, OneCall

\* Whatever the block size, the width of the counter's words, the cipher, the
\* nonces and the pieces, no byte of key stream meets two bytes of text, and
\* pieces of whole blocks make up what one call makes (monocypher.c:220-286).
THEOREM KeyStreamUsedOnceAlways == PartsSpec => []KeyStreamUsedOnce
<1> DEFINE I == part = "chacha" => ChachaInv
<1>1. PartsInit => I
  BY PartInit, ChachaStart
<1>2. I /\ [PartsNext]_partsVars => I'
  BY PartStep, ChachaStep
<1>3. I => KeyStreamUsedOnce
  BY NoByteTwice, OneText DEF KeyStreamUsedOnce
<1> QED
  BY <1>1, <1>2, <1>3, PTL DEF PartsSpec

-----------------------------------------------------------------------------
(* Sessions: the keys of the messages, and what the reader makes of them. *)

LEMMA SameCipher ==
    /\ \A text, key, nonce, c : Session!Djb(text, key, nonce, c) = Chacha!Djb(text, key, nonce, c)
    /\ \A key, nonce : Session!HKey(key, nonce) = Chacha!HKey(key, nonce)
    /\ \A v : Session!Plain(v) = Chacha!Plain(v)
<1>1. ASSUME NEW text, NEW key, NEW nonce, NEW c
      PROVE  Session!Djb(text, key, nonce, c) = Chacha!Djb(text, key, nonce, c)
  BY DEF Session!Djb, Chacha!Djb, Session!Counters, Chacha!Counters, Session!NextBlock,
         Chacha!NextBlock, Session!CtrLow, Chacha!CtrLow, Session!CtrHigh, Chacha!CtrHigh,
         Session!KeyStream, Chacha!KeyStream
<1> QED
  BY <1>1 DEF Session!HKey, Chacha!HKey, Session!Plain, Chacha!Plain

\* Whose places in the key stream are equal.
LEMMA PlacesDiffer ==
    ASSUME NEW k1, NEW k2, NEW nonce, NEW c \in Nat, NEW i \in Nat, NEW j \in Nat,
           StreamAt(k1, nonce, c, i) = StreamAt(k2, nonce, c, j)
    PROVE  /\ k1 = k2
           /\ i < BlockBytes * (CtrRange * CtrRange) /\ j < BlockBytes * (CtrRange * CtrRange)
                => i = j
<1> DEFINE a == c + (i \div BlockBytes)
           b == c + (j \div BlockBytes)
           p == CtrRange * CtrRange
<1>0. BlockBytes \in Nat \ {0} /\ CtrRange \in Nat \ {0} /\ p \in Nat \ {0}
  <2>1. BlockBytes \in Nat \ {0} /\ CtrRange \in Nat \ {0}
    BY CipherOk DEF CipherSizes
  <2> QED
    BY <2>1, Z3
<1>1. /\ k1 = k2 /\ WordsOf(a)[1] = WordsOf(b)[1] /\ WordsOf(a)[2] = WordsOf(b)[2]
      /\ i % BlockBytes = j % BlockBytes
  BY DEF StreamAt, Chacha!KeyStream
<1>2. SUFFICES ASSUME i < BlockBytes * p, j < BlockBytes * p PROVE i = j
  BY <1>1
<1>3. ASSUME NEW y \in Nat, y < BlockBytes * p
      PROVE  y \div BlockBytes \in 0 .. p - 1
             /\ y = BlockBytes * (y \div BlockBytes) + (y % BlockBytes)
  <2>1. PICK k \in Int, r \in 0 .. BlockBytes - 1 :
          y = BlockBytes * k + r /\ y \div BlockBytes = k /\ y % BlockBytes = r
    BY <1>0, Quotient
  <2>2. k <= -1 => BlockBytes * k <= -BlockBytes
    BY <1>0, Z3
  <2>3. k >= p => BlockBytes * k >= BlockBytes * p
    BY <1>0, Z3
  <2>4. BlockBytes * k \in Int /\ BlockBytes * p \in Int
    BY <1>0, Z3
  <2> DEFINE x == BlockBytes * k
             z == BlockBytes * p
  <2>5. /\ x \in Int /\ z \in Int /\ y < z /\ y = x + r /\ (k <= -1 => x <= -BlockBytes)
        /\ (k >= p => x >= z)
    BY <1>3, <2>1, <2>2, <2>3, <2>4
  <2> HIDE DEF x, z, p
  <2>6. k \in 0 .. p - 1
    BY <1>0, <2>5
  <2> QED
    BY <2>1, <2>6
<1>4. /\ i \div BlockBytes \in 0 .. p - 1 /\ i = BlockBytes * (i \div BlockBytes) + (i % BlockBytes)
      /\ j \div BlockBytes \in 0 .. p - 1 /\ j = BlockBytes * (j \div BlockBytes) + (j % BlockBytes)
  BY <1>2, <1>3
<1>5. WordsOf(a) = WordsOf(b)
  BY <1>1 DEF WordsOf
<1>6. a \in Int /\ b \in Int /\ a - b < p /\ b - a < p
  BY <1>0, <1>4
<1>7. a = b
  <2> HIDE DEF a, b
  <2> QED
    BY <1>5, <1>6, WordsDiffer
<1>8. i \div BlockBytes = j \div BlockBytes
  BY <1>4, <1>7
<1> QED
  BY <1>1, <1>4, <1>8

SessionCtx(key, c) == [key |-> key, nonce |-> "n8", counter |-> c]

\* The stream behind a context: its first block gives keys, the rest meets the text.
LEMMA CtxStream ==
    ASSUME NEW key, NEW c \in Nat, NEW i \in Nat
    PROVE  StreamAt(key, "n8", c, BlockBytes + i) = StreamAt(key, "n8", c + 1, i)
<1>1. i \div BlockBytes \in Int /\ 1 \in Nat /\ BlockBytes * 1 + i = BlockBytes + i
  BY CipherOk, Quotient DEF CipherSizes
<1>2. /\ (BlockBytes + i) \div BlockBytes = 1 + (i \div BlockBytes)
      /\ (BlockBytes + i) % BlockBytes = i % BlockBytes
  BY <1>1, PlacesAdd
<1>3. c + (1 + (i \div BlockBytes)) = (c + 1) + (i \div BlockBytes)
  BY <1>1
<1> QED
  BY <1>2, <1>3 DEF StreamAt

\* The first block.
LEMMA AuthKeyIs ==
    ASSUME NEW key, NEW c \in Nat
    PROVE  Session!AuthKey(SessionCtx(key, c))
              = [j \in 1 .. BlockBytes |-> <<0, {StreamAt(key, "n8", c, j - 1)}>>]
<1> DEFINE text == [j \in 1 .. BlockBytes |-> <<0, {}>>]
           U == { <<0, {}>> }
           out == Chacha!Djb(text, key, "n8", c)
<1>1. BlockBytes \in Nat \ {0}
  BY CipherOk DEF CipherSizes
<1>2. text \in Seq(U) /\ Len(text) = BlockBytes
  <2>1. text \in [1 .. BlockBytes -> U]
    OBVIOUS
  <2> HIDE DEF text, U
  <2>2. text \in Seq(U)
    BY <1>1, <2>1
  <2> QED
    BY <1>1, <2>1, <2>2
<1>3. Session!AuthKey(SessionCtx(key, c)) = out
  <2>1. Session!NoText(BlockBytes) = text
    BY DEF Session!NoText, Session!Plain
  <2>2. Session!AuthKey(SessionCtx(key, c)) = Session!Djb(text, key, "n8", c)
    BY <2>1 DEF Session!AuthKey, SessionCtx
  <2> QED
    BY <2>2, SameCipher
<1>4. /\ out = [j \in 1 .. BlockBytes |-> out[j]]
      /\ \A j \in 1 .. BlockBytes :
            LET k == StreamAt(key, "n8", c, j - 1)
            IN  out[j] = <<text[j][1], (text[j][2] \ {k}) \cup ({k} \ text[j][2])>>
  <2> HIDE DEF text, U, out
  <2> QED
    BY <1>2, DjbIs DEF out
<1>5. ASSUME NEW j \in 1 .. BlockBytes
      PROVE  out[j] = <<0, {StreamAt(key, "n8", c, j - 1)}>>
  <2>1. text[j][1] = 0 /\ text[j][2] = {}
    OBVIOUS
  <2> DEFINE k == StreamAt(key, "n8", c, j - 1)
  <2> HIDE DEF out, text, k
  <2>2. out[j] = <<text[j][1], (text[j][2] \ {k}) \cup ({k} \ text[j][2])>>
    BY <1>4 DEF k
  <2>3. (text[j][2] \ {k}) \cup ({k} \ text[j][2]) = {k}
    BY <2>1
  <2> QED
    BY <2>1, <2>2, <2>3 DEF k
<1> HIDE DEF out, text, U
<1> QED
  BY <1>3, <1>4, <1>5

LEMMA Listed ==
    ASSUME NEW n \in Nat, NEW U, NEW f \in [1 .. n -> U]
    PROVE  f \in Seq(U) /\ Len(f) = n
<1>1. f \in Seq(U)
  OBVIOUS
<1> QED
  BY <1>1

PlainBytes == Nat \X {{}}
\* Bytes of a text and of its cipher text.
SessionBytes(key, c) == Nat \X SUBSET {StreamAt(key, "n8", c, x) : x \in Nat}

LEMMA TextIsPlain ==
    ASSUME NEW i \in Nat, NEW n \in Nat
    PROVE  Session!TextBytes(i, n) \in Seq(PlainBytes) /\ Len(Session!TextBytes(i, n)) = n
<1> DEFINE s == Session!TextBytes(i, n)
<1>1. s = [j \in 1 .. n |-> <<10 * i + j, {}>>]
  BY DEF Session!TextBytes, Session!Plain
<1>2. \A j \in 1 .. n : <<10 * i + j, {}>> \in PlainBytes
  BY DEF PlainBytes
<1>3. s \in [1 .. n -> PlainBytes]
  BY <1>1, <1>2
<1> HIDE DEF s
<1>4. s \in Seq(PlainBytes)
  BY <1>3
<1> QED
  BY <1>3, <1>4 DEF s

LEMMA CryptIs ==
    ASSUME NEW key, NEW c \in Nat, NEW U, NEW text \in Seq(U)
    PROVE  LET out == Session!Crypt(SessionCtx(key, c), text)
           IN  /\ out = [j \in 1 .. Len(text) |-> out[j]]
               /\ \A j \in 1 .. Len(text) :
                    LET k == StreamAt(key, "n8", c, BlockBytes + (j - 1))
                    IN  out[j] = <<text[j][1], (text[j][2] \ {k}) \cup ({k} \ text[j][2])>>
<1> DEFINE out == Session!Crypt(SessionCtx(key, c), text)
<1>1. out = Chacha!Djb(text, key, "n8", c + 1)
  <2>1. out = Session!Djb(text, key, "n8", c + 1)
    BY DEF Session!Crypt, Session!TextCounter, SessionCtx
  <2> QED
    BY <2>1, SameCipher
<1>2. c + 1 \in Nat
  OBVIOUS
<1> HIDE DEF out
<1>3. /\ out = [j \in 1 .. Len(text) |-> out[j]]
      /\ \A j \in 1 .. Len(text) :
            LET k == StreamAt(key, "n8", c + 1, j - 1)
            IN  out[j] = <<text[j][1], (text[j][2] \ {k}) \cup ({k} \ text[j][2])>>
  BY <1>1, <1>2, DjbIs
<1>4. ASSUME NEW j \in 1 .. Len(text)
      PROVE  StreamAt(key, "n8", c + 1, j - 1) = StreamAt(key, "n8", c, BlockBytes + (j - 1))
  <2>1. j - 1 \in Nat
    OBVIOUS
  <2> QED
    BY <2>1, CtxStream
<1> QED
  BY <1>3, <1>4 DEF out

\* What the writer hides comes out again.
LEMMA CryptTwice ==
    ASSUME NEW key, NEW c \in Nat, NEW text \in Seq(PlainBytes)
    PROVE  LET hidden == Session!Crypt(SessionCtx(key, c), text)
           IN  /\ hidden \in Seq(SessionBytes(key, c)) /\ Len(hidden) = Len(text)
               /\ \A j \in 1 .. Len(text) :
                    hidden[j][2] = {StreamAt(key, "n8", c, BlockBytes + (j - 1))}
               /\ Session!Crypt(SessionCtx(key, c), hidden) = text
<1> DEFINE n == Len(text)
           hidden == Session!Crypt(SessionCtx(key, c), text)
           back == Session!Crypt(SessionCtx(key, c), hidden)
           k(j) == StreamAt(key, "n8", c, BlockBytes + (j - 1))
           U == SessionBytes(key, c)
<1>0. BlockBytes \in Nat \ {0} /\ n \in Nat
  BY CipherOk DEF CipherSizes
<1>1. ASSUME NEW j \in 1 .. n
      PROVE  text[j] = <<text[j][1], {}>> /\ text[j][1] \in Nat /\ text[j][2] = {}
  <2>1. text[j] \in PlainBytes
    OBVIOUS
  <2> QED
    BY <2>1 DEF PlainBytes
<1>2. /\ hidden = [j \in 1 .. n |-> hidden[j]]
      /\ \A j \in 1 .. n : hidden[j] = <<text[j][1], (text[j][2] \ {k(j)}) \cup ({k(j)} \ text[j][2])>>
  <2> HIDE DEF hidden
  <2> QED
    BY CryptIs DEF hidden
<1>3. ASSUME NEW j \in 1 .. n
      PROVE  /\ hidden[j] = <<text[j][1], {k(j)}>>
             /\ hidden[j][1] = text[j][1] /\ hidden[j][2] = {k(j)}
  <2> DEFINE d == k(j)
  <2> HIDE DEF d, hidden
  <2>1. (text[j][2] \ {d}) \cup ({d} \ text[j][2]) = {d}
    BY <1>1
  <2>2. hidden[j] = <<text[j][1], (text[j][2] \ {d}) \cup ({d} \ text[j][2])>>
    BY <1>2 DEF d
  <2> QED
    BY <2>1, <2>2 DEF d
<1> HIDE DEF hidden
<1>4. ASSUME NEW j \in 1 .. n
      PROVE  hidden[j] \in U
  <2>1. BlockBytes + (j - 1) \in Nat
    BY <1>0
  <2> DEFINE d == {k(j)}
             a == text[j][1]
  <2>2. d \in SUBSET {StreamAt(key, "n8", c, x) : x \in Nat}
    BY <2>1
  <2>3. hidden[j] = <<a, d>> /\ a \in Nat
    BY <1>1, <1>3, Zenon
  <2> HIDE DEF a, d
  <2> QED
    BY <2>2, <2>3 DEF SessionBytes
<1>5. hidden \in Seq(U) /\ Len(hidden) = n
  <2> HIDE DEF U, n
  <2>1. hidden \in [1 .. n -> U]
    BY <1>2, <1>4
  <2>2. hidden \in Seq(U)
    BY <1>0, <2>1
  <2> QED
    BY <1>0, <2>1, <2>2
<1>6. /\ back = [j \in 1 .. n |-> back[j]]
      /\ \A j \in 1 .. n : back[j] = <<hidden[j][1], (hidden[j][2] \ {k(j)}) \cup ({k(j)} \ hidden[j][2])>>
  <2> HIDE DEF back, U, n
  <2> QED
    BY <1>5, CryptIs DEF back
<1> HIDE DEF back
<1>7. ASSUME NEW j \in 1 .. n
      PROVE  back[j] = text[j]
  <2> DEFINE d == k(j)
  <2> HIDE DEF d
  <2>1. hidden[j][1] = text[j][1] /\ hidden[j][2] = {d}
    BY <1>3, Zenon DEF d
  <2>2. (hidden[j][2] \ {d}) \cup ({d} \ hidden[j][2]) = {}
    BY <2>1
  <2>3. back[j] = <<hidden[j][1], (hidden[j][2] \ {d}) \cup ({d} \ hidden[j][2])>>
    BY <1>6 DEF d
  <2> QED
    BY <1>1, <2>1, <2>2, <2>3
<1>8. back = text
  <2>1. text = [j \in 1 .. n |-> text[j]]
    BY <1>0
  <2> QED
    BY <1>6, <1>7, <2>1
<1>9. \A j \in 1 .. n : hidden[j][2] = {k(j)}
  BY <1>3, Zenon
<1> QED
  BY <1>5, <1>8, <1>9 DEF hidden, back

-----------------------------------------------------------------------------
(* Keys. *)

AfterKey(key, c) == Session!SecondHalf(Session!AuthKey(SessionCtx(key, c)))
FirstKeys == {Session!Key, Session!HKey(Session!Key, "n16")}

\* Either half of the first block tells its key.
LEMMA KeysTell ==
    ASSUME NEW k1, NEW k2, NEW c \in Nat
    PROVE  /\ Session!FirstHalf(Session!AuthKey(SessionCtx(k1, c)))
                = Session!FirstHalf(Session!AuthKey(SessionCtx(k2, c))) => k1 = k2
           /\ AfterKey(k1, c) = AfterKey(k2, c) => k1 = k2
           /\ AfterKey(k1, c) \notin FirstKeys
<1> DEFINE h == BlockBytes \div 2
           key(k) == Session!AuthKey(SessionCtx(k, c))
<1>1. h \in Nat \ {0} /\ BlockBytes = 2 * h
  BY CipherOk, SessionOk DEF CipherSizes, Session!AeadAssumption
<1> HIDE DEF h
<1>2. ASSUME NEW k
      PROVE  /\ Session!FirstHalf(key(k))[1] = <<0, {StreamAt(k, "n8", c, 0)}>>
             /\ AfterKey(k, c)[1] = <<0, {StreamAt(k, "n8", c, h)}>>
  <2> DEFINE s == key(k)
             V == {<<0, {StreamAt(k, "n8", c, j - 1)}>> : j \in 1 .. BlockBytes}
  <2>1. s = [j \in 1 .. BlockBytes |-> <<0, {StreamAt(k, "n8", c, j - 1)}>>]
    BY AuthKeyIs
  <2>2. s \in [1 .. BlockBytes -> V]
    BY <2>1
  <2>3. /\ s[1] = <<0, {StreamAt(k, "n8", c, 0)}>>
        /\ s[h + 1] = <<0, {StreamAt(k, "n8", c, h)}>>
    <3>1. 1 \in 1 .. BlockBytes /\ h + 1 \in 1 .. BlockBytes /\ 1 - 1 = 0 /\ (h + 1) - 1 = h
      BY <1>1
    <3> HIDE DEF s, V
    <3> QED
      BY <2>1, <3>1
  <2>4. Session!FirstHalf(s) = SubSeq(s, 1, h) /\ AfterKey(k, c) = SubSeq(s, h + 1, BlockBytes)
    BY DEF AfterKey, Session!FirstHalf, Session!SecondHalf, h
  <2> HIDE DEF s, V
  <2>5. s \in Seq(V) /\ Len(s) = BlockBytes
    <3>1. BlockBytes \in Nat
      BY <1>1
    <3>2. s \in Seq(V)
      BY <2>2, <3>1
    <3> QED
      BY <2>2, <3>1, <3>2
  <2>6. SubSeq(s, 1, h)[1] = s[1] /\ SubSeq(s, h + 1, BlockBytes)[1] = s[h + 1]
    BY <1>1, <2>5
  <2> QED
    BY <2>3, <2>4, <2>6 DEF s
<1> HIDE DEF key
<1>3. ASSUME NEW i \in Nat, <<0, {StreamAt(k1, "n8", c, i)}>> = <<0, {StreamAt(k2, "n8", c, i)}>>
      PROVE  k1 = k2
  <2>1. {StreamAt(k1, "n8", c, i)} = {StreamAt(k2, "n8", c, i)}
    BY <1>3
  <2>2. StreamAt(k1, "n8", c, i) = StreamAt(k2, "n8", c, i)
    BY <2>1, Zenon
  <2> QED
    BY <2>2, PlacesDiffer
<1>4. Session!FirstHalf(key(k1)) = Session!FirstHalf(key(k2)) => k1 = k2
  <2>1. SUFFICES ASSUME Session!FirstHalf(key(k1)) = Session!FirstHalf(key(k2)) PROVE k1 = k2
    OBVIOUS
  <2>2. <<0, {StreamAt(k1, "n8", c, 0)}>> = <<0, {StreamAt(k2, "n8", c, 0)}>>
    BY <1>2, <2>1, Zenon
  <2> QED
    BY <1>3, <2>2
<1>5. AfterKey(k1, c) = AfterKey(k2, c) => k1 = k2
  <2>1. SUFFICES ASSUME AfterKey(k1, c) = AfterKey(k2, c) PROVE k1 = k2
    OBVIOUS
  <2>2. <<0, {StreamAt(k1, "n8", c, h)}>> = <<0, {StreamAt(k2, "n8", c, h)}>>
    BY <1>2, <2>1, Zenon
  <2> QED
    BY <1>1, <1>3, <2>2
<1>6. AfterKey(k1, c) # Session!Key
  <2>1. Session!Key[1] = <<1, {}>>
    BY DEF Session!Key, Session!Plain
  <2>2. <<1, {}>> # <<0, {StreamAt(k1, "n8", c, h)}>>
    OBVIOUS
  <2> QED
    BY <1>2, <2>1, <2>2
<1>7. AfterKey(k1, c) # Session!HKey(Session!Key, "n16")
  <2>1. Session!HKey(Session!Key, "n16")[1] = <<0, {<<Session!Key, "n16">>}>>
    BY DEF Session!HKey
  <2>2. \A low, high, i : <<Session!Key, "n16">> # <<k1, "n8", low, high, i>>
    OBVIOUS
  <2>3. <<Session!Key, "n16">> # StreamAt(k1, "n8", c, h)
    BY <2>2 DEF StreamAt, Chacha!KeyStream
  <2>4. <<0, {<<Session!Key, "n16">>}>> # <<0, {StreamAt(k1, "n8", c, h)}>>
    <3> DEFINE a == <<Session!Key, "n16">>
               b == StreamAt(k1, "n8", c, h)
    <3> HIDE DEF a, b
    <3>1. a # b
      BY <2>3 DEF a, b
    <3>2. {a} # {b}
      BY <3>1
    <3>3. <<0, {a}>> # <<0, {b}>>
      BY <3>2
    <3> QED
      BY <3>3 DEF a, b
  <2> QED
    BY <1>2, <2>1, <2>4
<1> QED
  BY <1>4, <1>5, <1>6, <1>7 DEF FirstKeys, key

\* The keys of a session: K[i] is the writer's after message i.
Chained(K, n, c) ==
    /\ K[0] \in FirstKeys
    /\ \A i \in 0 .. n - 1 : K[i + 1] = AfterKey(K[i], c)

\* No key comes back.
LEMMA KeysDiffer ==
    ASSUME NEW K, NEW n \in Nat, NEW c \in Nat, Chained(K, n, c)
    PROVE  \A i, j \in 0 .. n : K[i] = K[j] => i = j
<1> DEFINE S == {i \in Nat : \A j \in 0 .. n : i < j => K[i] # K[j]}
<1>1. ASSUME NEW j \in 1 .. n
      PROVE  K[j] = AfterKey(K[j - 1], c) /\ K[j] \notin FirstKeys /\ j - 1 \in 0 .. n
  <2>1. j - 1 \in 0 .. n - 1 /\ (j - 1) + 1 = j
    OBVIOUS
  <2>2. K[(j - 1) + 1] = AfterKey(K[j - 1], c)
    BY <2>1 DEF Chained
  <2> QED
    BY <2>1, <2>2, KeysTell
<1>2. 0 \in S
  <2>1. K[0] \in FirstKeys
    BY DEF Chained
  <2> QED
    BY <1>1, <2>1
<1>3. ASSUME NEW i \in Nat, i \in S
      PROVE  i + 1 \in S
  <2> SUFFICES ASSUME NEW j \in 0 .. n, i + 1 < j, K[i + 1] = K[j]
               PROVE  FALSE
    OBVIOUS
  <2>1. i + 1 \in 1 .. n /\ j \in 1 .. n /\ (i + 1) - 1 = i
    OBVIOUS
  <2>2. K[i + 1] = AfterKey(K[i], c) /\ K[j] = AfterKey(K[j - 1], c) /\ j - 1 \in 0 .. n
    BY <1>1, <2>1
  <2>3. K[i] = K[j - 1]
    BY <2>2, KeysTell
  <2>4. i < j - 1
    BY <2>1
  <2> QED
    BY <1>3, <2>2, <2>3, <2>4
<1> HIDE DEF S
<1>4. \A i \in Nat : i \in S
  BY <1>2, <1>3, Induction
<1> QED
  BY <1>4 DEF S

\* One key more.
LEMMA NextKey ==
    ASSUME NEW K, NEW n \in Nat, NEW c \in Nat, Chained(K, n, c)
    PROVE  LET L == [i \in 0 .. n + 1 |-> IF i <= n THEN K[i] ELSE AfterKey(K[n], c)]
           IN  Chained(L, n + 1, c) /\ \A i \in 0 .. n : L[i] = K[i]
<1> DEFINE L == [i \in 0 .. n + 1 |-> IF i <= n THEN K[i] ELSE AfterKey(K[n], c)]
<1>1. \A i \in 0 .. n : L[i] = K[i]
  OBVIOUS
<1>2. L[n + 1] = AfterKey(K[n], c) /\ DOMAIN L = 0 .. n + 1
  OBVIOUS
<1> HIDE DEF L
<1>3. ASSUME NEW i \in 0 .. n
      PROVE  L[i + 1] = AfterKey(L[i], c)
  <2>1. CASE i = n
    BY <1>1, <1>2, <2>1
  <2>2. CASE i # n
    <3>1. i \in 0 .. n - 1 /\ i + 1 \in 0 .. n
      BY <2>2
    <3> QED
      BY <1>1, <3>1 DEF Chained
  <2> QED
    BY <2>1, <2>2
<1>4. L[0] \in FirstKeys
  BY <1>1 DEF Chained
<1>5. (n + 1) - 1 = n
  OBVIOUS
<1>6. Chained(L, n + 1, c)
  BY <1>2, <1>3, <1>4, <1>5 DEF Chained
<1> QED
  BY <1>1, <1>6 DEF L

-----------------------------------------------------------------------------
(* What is authenticated. *)

LEMMA GapIs ==
    ASSUME NEW i \in Nat
    PROVE  Session!Gap(i) \in Seq(PlainBytes)
<1> DEFINE x == MacBlock - (i % MacBlock)
           y == x % MacBlock
<1>0. MacBlock \in Nat \ {0}
  BY SessionOk DEF Session!AeadAssumption
<1>1. x \in Int
  BY <1>0
<1> HIDE DEF x
<1>2. y \in Nat
  BY <1>0, <1>1, Quotient
<1> HIDE DEF y
<1>3. Session!Gap(i) = [j \in 1 .. y |-> <<0, {}>>]
  BY DEF Session!Gap, Session!NoText, Session!Plain, x, y
<1>4. <<0, {}>> \in PlainBytes
  BY DEF PlainBytes
<1>5. Session!Gap(i) \in [1 .. y -> PlainBytes]
  BY <1>3, <1>4
<1> QED
  BY <1>2, <1>5

\* Joined texts that begin with texts of the same length.
LEMMA SameParts ==
    ASSUME NEW U, NEW s1 \in Seq(U), NEW t1 \in Seq(U), NEW s2 \in Seq(U), NEW t2 \in Seq(U),
           s1 \o t1 = s2 \o t2, Len(s1) = Len(s2)
    PROVE  s1 = s2 /\ t1 = t2
<1>1. Len(s1 \o t1) = Len(s1) + Len(t1) /\ Len(s2 \o t2) = Len(s2) + Len(t2)
  BY Joined
<1>2. Len(s1) \in Nat /\ Len(t1) \in Nat /\ Len(t2) \in Nat
  BY LenProperties
<1>3. Len(t1) = Len(t2)
  BY <1>1, <1>2
<1>4. \A j \in 1 .. Len(s1) : s1[j] = s2[j]
  BY Joined
<1>5. ASSUME NEW j \in 1 .. Len(t1)
      PROVE  t1[j] = t2[j]
  <2>1. (s1 \o t1)[Len(s1) + j] = t1[j]
    BY JoinedBehind
  <2>2. j \in 1 .. Len(t2)
    BY <1>3
  <2>3. (s2 \o t2)[Len(s2) + j] = t2[j]
    BY <2>2, JoinedBehind
  <2> QED
    BY <2>1, <2>3
<1>6. \A s, t \in Seq(U) : Len(s) = Len(t) /\ (\A j \in 1 .. Len(s) : s[j] = t[j]) => s = t
  BY SeqEqual
<1> QED
  BY <1>3, <1>4, <1>5, <1>6

\* The input of the authenticator tells its two parts.
LEMMA AuthTells ==
    ASSUME NEW U, PlainBytes \subseteq U, NEW k1, NEW k2,
           NEW a1 \in Seq(U), NEW t1 \in Seq(U), NEW a2 \in Seq(U), NEW t2 \in Seq(U),
           Session!LockAuth(k1, a1, t1) = Session!LockAuth(k2, a2, t2)
    PROVE  k1 = k2 /\ a1 = a2 /\ t1 = t2
<1> DEFINE g(s) == Session!Gap(Len(s))
           sizes(a, t) == << <<Len(a), {}>>, <<Len(t), {}>> >>
           body(a, t) == a \o g(a) \o t \o g(t)
<1>1. ASSUME NEW s \in Seq(U)
      PROVE  Len(s) \in Nat /\ g(s) \in Seq(U) /\ <<Len(s), {}>> \in U
  <2>1. Len(s) \in Nat
    BY LenProperties
  <2>2. g(s) \in Seq(PlainBytes)
    BY <2>1, GapIs
  <2>3. <<Len(s), {}>> \in PlainBytes
    BY <2>1 DEF PlainBytes
  <2>4. g(s) \in Seq(U)
    <3> DEFINE G == g(s)
    <3> HIDE DEF G
    <3> QED
      BY <2>2 DEF G
  <2> QED
    BY <2>1, <2>3, <2>4
<1>2. ASSUME NEW a \in Seq(U), NEW t \in Seq(U)
      PROVE  /\ body(a, t) \in Seq(U) /\ a \o g(a) \o t \in Seq(U) /\ a \o g(a) \in Seq(U)
             /\ sizes(a, t) \in Seq(U) /\ Len(sizes(a, t)) = 2
             /\ sizes(a, t)[1] = <<Len(a), {}>> /\ sizes(a, t)[2] = <<Len(t), {}>>
  <2>1. g(a) \in Seq(U) /\ g(t) \in Seq(U) /\ <<Len(a), {}>> \in U /\ <<Len(t), {}>> \in U
    BY <1>1
  <2> HIDE DEF g
  <2>2. a \o g(a) \in Seq(U)
    BY <2>1, Joined
  <2>3. a \o g(a) \o t \in Seq(U)
    BY <2>2, Joined
  <2>4. body(a, t) \in Seq(U)
    BY <2>1, <2>3, Joined
  <2>5. sizes(a, t) \in Seq(U)
    BY <2>1
  <2> QED
    BY <2>2, <2>3, <2>4, <2>5
<1>3. ASSUME NEW k, NEW a, NEW t
      PROVE  Session!LockAuth(k, a, t) = <<k, body(a, t) \o sizes(a, t)>>
  BY DEF Session!LockAuth, Session!Plain
<1> HIDE DEF g, sizes, body
<1>4. k1 = k2 /\ body(a1, t1) \o sizes(a1, t1) = body(a2, t2) \o sizes(a2, t2)
  <2> DEFINE x == body(a1, t1) \o sizes(a1, t1)
             y == body(a2, t2) \o sizes(a2, t2)
  <2>1. <<k1, x>> = <<k2, y>>
    BY <1>3
  <2> HIDE DEF x, y
  <2>2. k1 = k2 /\ x = y
    BY <2>1
  <2> QED
    BY <2>2 DEF x, y
<1>5. Len(body(a1, t1)) = Len(body(a2, t2))
  <2>1. /\ Len(body(a1, t1) \o sizes(a1, t1)) = Len(body(a1, t1)) + Len(sizes(a1, t1))
        /\ Len(body(a2, t2) \o sizes(a2, t2)) = Len(body(a2, t2)) + Len(sizes(a2, t2))
    BY <1>2, Joined
  <2>2. Len(body(a1, t1)) \in Nat /\ Len(body(a2, t2)) \in Nat
    BY <1>1, <1>2
  <2>3. Len(sizes(a1, t1)) = 2 /\ Len(sizes(a2, t2)) = 2
    BY <1>2
  <2>4. Len(body(a1, t1)) + 2 = Len(body(a2, t2)) + 2
    BY <1>4, <2>1, <2>3
  <2> QED
    BY <2>2, <2>4
<1>6. body(a1, t1) = body(a2, t2) /\ sizes(a1, t1) = sizes(a2, t2)
  <2> DEFINE b1 == body(a1, t1)
             b2 == body(a2, t2)
             z1 == sizes(a1, t1)
             z2 == sizes(a2, t2)
  <2>1. b1 \in Seq(U) /\ z1 \in Seq(U) /\ b2 \in Seq(U) /\ z2 \in Seq(U)
    BY <1>2
  <2>2. b1 \o z1 = b2 \o z2 /\ Len(b1) = Len(b2)
    BY <1>4, <1>5
  <2> HIDE DEF b1, b2, z1, z2
  <2>3. b1 = b2 /\ z1 = z2
    BY <2>1, <2>2, SameParts
  <2> QED
    BY <2>3 DEF b1, b2, z1, z2
<1>7. Len(a1) = Len(a2) /\ Len(t1) = Len(t2)
  <2>1. /\ sizes(a1, t1)[1] = <<Len(a1), {}>> /\ sizes(a1, t1)[2] = <<Len(t1), {}>>
        /\ sizes(a2, t2)[1] = <<Len(a2), {}>> /\ sizes(a2, t2)[2] = <<Len(t2), {}>>
    BY <1>2
  <2>2. <<Len(a1), {}>> = <<Len(a2), {}>> /\ <<Len(t1), {}>> = <<Len(t2), {}>>
    BY <1>6, <2>1
  <2> QED
    BY <2>2
<1>8. a1 \o g(a1) \o t1 = a2 \o g(a2) \o t2
  <2> DEFINE x1 == a1 \o g(a1) \o t1
             x2 == a2 \o g(a2) \o t2
  <2>1. x1 \o g(t1) = x2 \o g(t2)
    BY <1>6 DEF body
  <2>2. g(t1) = g(t2)
    BY <1>7 DEF g
  <2>3. x1 \in Seq(U) /\ x2 \in Seq(U) /\ g(t1) \in Seq(U)
    BY <1>1, <1>2
  <2> HIDE DEF x1, x2
  <2>4. Len(x1) = Len(x2)
    <3>1. Len(x1 \o g(t1)) = Len(x1) + Len(g(t1)) /\ Len(x2 \o g(t1)) = Len(x2) + Len(g(t1))
      BY <2>3, Joined
    <3>2. Len(x1) \in Nat /\ Len(x2) \in Nat /\ Len(g(t1)) \in Nat
      BY <2>3, LenProperties
    <3> QED
      BY <2>1, <2>2, <3>1, <3>2
  <2>5. x1 = x2
    BY <2>1, <2>2, <2>3, <2>4, SameParts
  <2> QED
    BY <2>5 DEF x1, x2
<1>9. a1 \o g(a1) = a2 \o g(a2) /\ t1 = t2
  <2>1. g(a1) = g(a2)
    BY <1>7 DEF g
  <2>2. Len(a1 \o g(a1)) = Len(a2 \o g(a2))
    <3>1. g(a1) \in Seq(U) /\ g(a2) \in Seq(U)
      BY <1>1
    <3>2. Len(a1 \o g(a1)) = Len(a1) + Len(g(a1)) /\ Len(a2 \o g(a2)) = Len(a2) + Len(g(a2))
      BY <3>1, Joined
    <3> QED
      BY <1>7, <2>1, <3>2
  <2> QED
    BY <1>2, <1>8, <2>2, SameParts
<1>10. a1 = a2
  BY <1>1, <1>7, <1>9, SameParts
<1> QED
  BY <1>4, <1>9, <1>10

-----------------------------------------------------------------------------
(* The invariant of a session, over the keys K of its messages. *)

LongestText == BlockBytes * (CtrRange * CtrRange - 1)
Written == {m \in [ad : Seq(PlainBytes), text : Seq(PlainBytes)] : Len(m.text) <= LongestText}

SentAs(K, c, s, i) == Session!Locked(SessionCtx(K[i - 1], c), s[i].ad, s[i].text)

\* Each side holds the key behind the last message it has seen.
Kept(K, c, w, r, s, g) ==
    /\ c \in Nat /\ s \in Seq(Written) /\ g \in Seq(Written)
    /\ Chained(K, Len(s), c)
    /\ w = SessionCtx(K[Len(s)], c)
    /\ r = SessionCtx(K[Len(g)], c)
    /\ Len(g) <= Len(s) /\ \A i \in 1 .. Len(g) : g[i] = s[i]

\* On its way is what was written, and all of it if nothing was lost.
Carried(K, c, s, N, lo) ==
    /\ \A m \in N : \E i \in 1 .. Len(s) : m = SentAs(K, c, s, i)
    /\ ~lo => \A i \in 1 .. Len(s) : SentAs(K, c, s, i) \in N

\* The key stream used is that of the keys so far, each byte once.
StreamSets(K, n, c) == {{StreamAt(K[i], "n8", c, x)} : i \in 0 .. n - 1, x \in Nat}
Spent(K, c, n, u) ==
    /\ u \in Seq(StreamSets(K, n, c))
    /\ \A p, q \in 1 .. Len(u) : u[p] = u[q] => p = q

StreamOf(bytes) == [j \in DOMAIN bytes |-> bytes[j][2]]
StreamFrom(key, c, l) == [j \in 1 .. l |-> {StreamAt(key, "n8", c, j - 1)}]

LEMMA StreamFromIs ==
    ASSUME NEW key, NEW c, NEW l \in Nat, NEW U,
           \A j \in 1 .. l : {StreamAt(key, "n8", c, j - 1)} \in U
    PROVE  /\ StreamFrom(key, c, l) \in Seq(U) /\ Len(StreamFrom(key, c, l)) = l
           /\ \A j \in 1 .. l : StreamFrom(key, c, l)[j] = {StreamAt(key, "n8", c, j - 1)}
<1> DEFINE Z == StreamFrom(key, c, l)
<1>1. DOMAIN Z = 1 .. l /\ \A j \in 1 .. l : Z[j] = {StreamAt(key, "n8", c, j - 1)}
  BY DEF StreamFrom
<1>2. Z = [j \in 1 .. l |-> Z[j]]
  BY DEF StreamFrom
<1> HIDE DEF Z
<1>3. Z \in [1 .. l -> U]
  BY <1>1, <1>2
<1>4. Z \in Seq(U)
  BY <1>3
<1>5. Len(Z) = l
  BY <1>3, <1>4
<1> QED
  BY <1>1, <1>4, <1>5 DEF Z

\* The stream that one message uses.
LEMMA StreamOfMessage ==
    ASSUME NEW key, NEW c \in Nat, NEW text \in Seq(PlainBytes), NEW U,
           \A j \in 1 .. BlockBytes + Len(text) : {StreamAt(key, "n8", c, j - 1)} \in U
    PROVE  /\ StreamOf(Session!AuthKey(SessionCtx(key, c))) \in Seq(U)
           /\ StreamOf(Session!Crypt(SessionCtx(key, c), text)) \in Seq(U)
           /\ StreamOf(Session!AuthKey(SessionCtx(key, c)))
                 \o StreamOf(Session!Crypt(SessionCtx(key, c), text))
                = StreamFrom(key, c, BlockBytes + Len(text))
<1> DEFINE n == Len(text)
           first == Session!AuthKey(SessionCtx(key, c))
           t == Session!Crypt(SessionCtx(key, c), text)
           A == StreamOf(first)
           T == StreamOf(t)
           m == BlockBytes + n
           Z == StreamFrom(key, c, m)
           D(x) == {StreamAt(key, "n8", c, x)}
<1>0. BlockBytes \in Nat \ {0} /\ n \in Nat /\ m \in Nat
  <2>1. BlockBytes \in Nat \ {0} /\ n \in Nat
    BY CipherOk, LenProperties DEF CipherSizes
  <2> HIDE DEF n
  <2> QED
    BY <2>1
<1>1. DOMAIN A = 1 .. BlockBytes /\ (\A j \in 1 .. BlockBytes : A[j] = D(j - 1))
      /\ A = [j \in 1 .. BlockBytes |-> A[j]]
  <2>1. first = [j \in 1 .. BlockBytes |-> <<0, D(j - 1)>>]
    BY AuthKeyIs
  <2> HIDE DEF first
  <2>2. DOMAIN first = 1 .. BlockBytes
    BY <2>1
  <2>3. \A j \in 1 .. BlockBytes : first[j][2] = D(j - 1)
    BY <2>1
  <2>4. A = [j \in 1 .. BlockBytes |-> first[j][2]]
    BY <2>2 DEF StreamOf
  <2> HIDE DEF A
  <2> QED
    BY <2>3, <2>4
<1>2. DOMAIN T = 1 .. n /\ (\A j \in 1 .. n : T[j] = D(BlockBytes + (j - 1)))
      /\ T = [j \in 1 .. n |-> T[j]]
  <2>1. /\ t \in Seq(SessionBytes(key, c)) /\ Len(t) = n
        /\ \A j \in 1 .. n : t[j][2] = D(BlockBytes + (j - 1))
    BY CryptTwice
  <2> HIDE DEF t
  <2>3. DOMAIN t = 1 .. n
    BY <2>1
  <2>4. T = [j \in 1 .. n |-> t[j][2]]
    BY <2>3 DEF StreamOf
  <2> HIDE DEF T, n
  <2> QED
    BY <2>1, <2>4
<1> HIDE DEF first, t, A, T
<1>3. /\ Z \in Seq(U) /\ Len(Z) = m
      /\ \A j \in 1 .. m : Z[j] = D(j - 1)
  <2> HIDE DEF n
  <2> QED
    BY <1>0, StreamFromIs DEF n
<1> HIDE DEF Z
<1>4. ASSUME NEW j \in 1 .. BlockBytes
      PROVE  A[j] = Z[j] /\ A[j] \in U
  <2>1. j \in 1 .. m
    <3> HIDE DEF n
    <3> QED
      BY <1>0
  <2>2. A[j] = D(j - 1) /\ Z[j] = D(j - 1) /\ D(j - 1) \in U
    BY <1>1, <1>3, <2>1
  <2> HIDE DEF D
  <2> QED
    BY <2>2
<1>5. ASSUME NEW j \in 1 .. n
      PROVE  T[j] = Z[BlockBytes + j] /\ T[j] \in U
  <2>1. BlockBytes + j \in 1 .. m /\ (BlockBytes + j) - 1 = BlockBytes + (j - 1)
    <3>1. n \in Nat /\ j \in 1 .. n
      BY <1>0
    <3> HIDE DEF n
    <3> QED
      BY <1>0, <3>1
  <2> DEFINE k == BlockBytes + j
  <2>2. k \in 1 .. m /\ k - 1 = BlockBytes + (j - 1)
    BY <2>1
  <2> HIDE DEF k, m
  <2>3. Z[k] = D(k - 1) /\ D(k - 1) \in U
    BY <1>3, <2>2 DEF m
  <2>4. T[j] = D(BlockBytes + (j - 1))
    BY <1>2
  <2> HIDE DEF D
  <2>5. T[j] = Z[k] /\ T[j] \in U
    BY <2>2, <2>3, <2>4
  <2> QED
    BY <2>5 DEF k
<1> HIDE DEF n, m, D
<1>6. A \in Seq(U) /\ Len(A) = BlockBytes
  <2>1. A \in [1 .. BlockBytes -> U]
    BY <1>1, <1>4
  <2>2. A \in Seq(U)
    BY <1>0, <2>1
  <2> QED
    BY <1>0, <2>1, <2>2
<1>7. T \in Seq(U) /\ Len(T) = n
  <2>1. T \in [1 .. n -> U]
    BY <1>2, <1>5
  <2>2. T \in Seq(U)
    BY <1>0, <2>1
  <2> QED
    BY <1>0, <2>1, <2>2
<1> DEFINE y == A \o T
<1>8. y \in Seq(U) /\ Len(y) = m /\ \A j \in 1 .. BlockBytes : y[j] = A[j]
  BY <1>6, <1>7, Joined DEF m
<1>9. ASSUME NEW j \in 1 .. n
      PROVE  y[BlockBytes + j] = T[j]
  BY <1>6, <1>7, JoinedBehind
<1> HIDE DEF y
<1>10. ASSUME NEW j \in 1 .. m
       PROVE  y[j] = Z[j]
  <2>1. CASE j <= BlockBytes
    <3>1. j \in 1 .. BlockBytes
      BY <2>1
    <3> QED
      BY <1>4, <1>8, <3>1
  <2>2. CASE ~(j <= BlockBytes)
    <3> DEFINE k == j - BlockBytes
    <3>1. k \in 1 .. n /\ BlockBytes + k = j
      BY <1>0, <2>2 DEF m
    <3> HIDE DEF k
    <3>2. y[BlockBytes + k] = T[k] /\ T[k] = Z[BlockBytes + k]
      BY <1>5, <1>9, <3>1
    <3> QED
      BY <3>1, <3>2
  <2> QED
    BY <2>1, <2>2
<1>11. y = Z
  <2>1. \A s1, s2 \in Seq(U) : Len(s1) = Len(s2) /\ (\A j \in 1 .. Len(s1) : s1[j] = s2[j]) => s1 = s2
    BY SeqEqual
  <2> QED
    BY <1>3, <1>8, <1>10, <2>1
<1> QED
  BY <1>6, <1>7, <1>11 DEF y, A, T, Z, first, t, m, n

\* A message more, and no byte of key stream again.
LEMMA SpentStep ==
    ASSUME NEW K, NEW c \in Nat, NEW n \in Nat, NEW u, Chained(K, n, c), Spent(K, c, n, u),
           NEW l \in Nat, l <= LongestText
    PROVE  /\ u \in Seq(StreamSets(K, n + 1, c))
           /\ \A j \in 1 .. BlockBytes + l : {StreamAt(K[n], "n8", c, j - 1)} \in StreamSets(K, n + 1, c)
           /\ Spent(K, c, n + 1, u \o StreamFrom(K[n], c, BlockBytes + l))
<1> DEFINE m == BlockBytes + l
           Z == StreamFrom(K[n], c, m)
           V == StreamSets(K, n + 1, c)
           y == u \o Z
           lu == Len(u)
<1>0. BlockBytes \in Nat \ {0} /\ m \in Nat /\ m <= BlockBytes * (CtrRange * CtrRange)
  <2>1. BlockBytes \in Nat \ {0} /\ CtrRange \in Nat \ {0}
    BY CipherOk DEF CipherSizes
  <2> DEFINE p == CtrRange * CtrRange
  <2>2. p \in Nat
    BY <2>1, Z3
  <2>3. BlockBytes * (p - 1) = BlockBytes * p - BlockBytes /\ BlockBytes * p \in Int
    BY <2>1, <2>2, Z3
  <2> DEFINE z == BlockBytes * p
  <2>4. z \in Int /\ l <= z - BlockBytes
    BY <2>3 DEF LongestText
  <2> HIDE DEF z, p
  <2>5. m \in Nat /\ m <= z
    BY <2>1, <2>4
  <2> QED
    BY <2>1, <2>5 DEF z, p
<1> HIDE DEF m
<1>1. /\ u \in Seq(StreamSets(K, n, c))
      /\ \A p, q \in 1 .. Len(u) : u[p] = u[q] => p = q
  BY DEF Spent
<1>2. u \in Seq(V) /\ lu \in Nat
  <2>1. StreamSets(K, n, c) \subseteq V
    BY DEF StreamSets
  <2> HIDE DEF V
  <2> QED
    BY <1>1, <2>1, LenProperties
<1>3. \A p \in 1 .. lu : \E i \in 0 .. n - 1, x \in Nat : u[p] = {StreamAt(K[i], "n8", c, x)}
  <2> TAKE p \in 1 .. lu
  <2>1. u[p] \in StreamSets(K, n, c)
    BY <1>1
  <2> QED
    BY <2>1 DEF StreamSets
<1>4. ASSUME NEW j \in 1 .. m
      PROVE  {StreamAt(K[n], "n8", c, j - 1)} \in V
  <2>1. n \in 0 .. (n + 1) - 1 /\ j - 1 \in Nat
    BY <1>0
  <2> QED
    BY <2>1 DEF StreamSets
<1> HIDE DEF V
<1>5. /\ Z \in Seq(V) /\ Len(Z) = m
      /\ \A j \in 1 .. m : Z[j] = {StreamAt(K[n], "n8", c, j - 1)}
  BY <1>0, <1>4, StreamFromIs
<1> HIDE DEF Z, V
<1>6. y \in Seq(V) /\ Len(y) = lu + m /\ \A p \in 1 .. lu : y[p] = u[p]
  BY <1>2, <1>5, Joined
<1>7. ASSUME NEW p \in 1 .. Len(y), ~(p <= lu)
      PROVE  p - lu \in 1 .. m /\ y[p] = {StreamAt(K[n], "n8", c, (p - lu) - 1)}
  <2>1. p - lu \in 1 .. m /\ lu + (p - lu) = p
    BY <1>0, <1>2, <1>6, <1>7
  <2> DEFINE k == p - lu
  <2>2. k \in 1 .. Len(Z) /\ lu + k = p
    BY <1>5, <2>1
  <2> HIDE DEF k, y
  <2>3. y[lu + k] = Z[k]
    BY <1>2, <1>5, <2>2, JoinedBehind DEF y
  <2>4. Z[k] = {StreamAt(K[n], "n8", c, k - 1)}
    BY <1>5, <2>2
  <2> QED
    BY <2>1, <2>2, <2>3, <2>4 DEF k
<1> HIDE DEF y
<1>8. ASSUME NEW p \in 1 .. Len(y), NEW q \in 1 .. Len(y), p <= lu, ~(q <= lu)
      PROVE  y[p] # y[q]
  <2>1. p \in 1 .. lu
    BY <1>8
  <2>2. PICK i \in 0 .. n - 1, x \in Nat : u[p] = {StreamAt(K[i], "n8", c, x)}
    BY <1>3, <2>1
  <2>3. PICK z \in Nat : y[q] = {StreamAt(K[n], "n8", c, z)}
    <3>1. (q - lu) - 1 \in Nat /\ y[q] = {StreamAt(K[n], "n8", c, (q - lu) - 1)}
      BY <1>0, <1>7, <1>8
    <3> QED
      BY <3>1
  <2>4. SUFFICES ASSUME y[p] = y[q] PROVE FALSE
    OBVIOUS
  <2>5. {StreamAt(K[i], "n8", c, x)} = {StreamAt(K[n], "n8", c, z)}
    BY <1>6, <2>1, <2>2, <2>3, <2>4, Zenon
  <2>6. StreamAt(K[i], "n8", c, x) = StreamAt(K[n], "n8", c, z)
    BY <2>5, Zenon
  <2>7. K[i] = K[n]
    BY <2>6, PlacesDiffer
  <2>8. i \in 0 .. n /\ n \in 0 .. n /\ i # n
    OBVIOUS
  <2> QED
    BY <2>7, <2>8, KeysDiffer
<1>9. ASSUME NEW p \in 1 .. Len(y), NEW q \in 1 .. Len(y), y[p] = y[q]
      PROVE  p = q
  <2>1. CASE p <= lu /\ q <= lu
    <3>1. p \in 1 .. lu /\ q \in 1 .. lu
      BY <2>1
    <3> QED
      BY <1>1, <1>6, <1>9, <3>1
  <2>2. CASE ~(p <= lu) /\ ~(q <= lu)
    <3> DEFINE a == (p - lu) - 1
               b == (q - lu) - 1
    <3>1. /\ p - lu \in 1 .. m /\ y[p] = {StreamAt(K[n], "n8", c, a)}
          /\ q - lu \in 1 .. m /\ y[q] = {StreamAt(K[n], "n8", c, b)}
      BY <1>7, <2>2
    <3>2. a \in Nat /\ b \in Nat /\ a < m /\ b < m
      BY <1>0, <3>1
    <3> HIDE DEF a, b
    <3>3. {StreamAt(K[n], "n8", c, a)} = {StreamAt(K[n], "n8", c, b)}
      BY <1>9, <3>1, Zenon
    <3>4. StreamAt(K[n], "n8", c, a) = StreamAt(K[n], "n8", c, b)
      BY <3>3, Zenon
    <3>5. a < BlockBytes * (CtrRange * CtrRange) /\ b < BlockBytes * (CtrRange * CtrRange)
      <4> DEFINE z == BlockBytes * (CtrRange * CtrRange)
      <4>1. z \in Int
        <5>1. CtrRange \in Int /\ BlockBytes \in Int
          BY CipherOk DEF CipherSizes
        <5> QED
          BY <5>1, Z3
      <4>2. m \in Int /\ m <= z /\ a < m /\ b < m
        BY <1>0, <3>2
      <4> HIDE DEF z
      <4>3. a < z /\ b < z
        BY <3>2, <4>1, <4>2
      <4> QED
        BY <4>3 DEF z
    <3>6. a = b
      BY <3>2, <3>4, <3>5, PlacesDiffer
    <3> QED
      BY <1>2, <3>6 DEF a, b
  <2>3. CASE p <= lu /\ ~(q <= lu)
    BY <1>8, <1>9, <2>3
  <2>4. CASE ~(p <= lu) /\ q <= lu
    BY <1>8, <1>9, <2>4
  <2> QED
    BY <2>1, <2>2, <2>3, <2>4
<1>10. Spent(K, c, n + 1, y)
  BY <1>6, <1>9 DEF Spent, V
<1> QED
  BY <1>2, <1>4, <1>10 DEF Z, V, y, m

\* Keys that are the same up to n serve the same.
LEMMA SpentSame ==
    ASSUME NEW K, NEW L, NEW c, NEW n \in Nat, NEW u, \A i \in 0 .. n : L[i] = K[i],
           Spent(K, c, n, u)
    PROVE  Spent(L, c, n, u)
<1>1. ASSUME NEW z \in StreamSets(K, n, c)
      PROVE  z \in StreamSets(L, n, c)
  <2>1. PICK i \in 0 .. n - 1, x \in Nat : z = {StreamAt(K[i], "n8", c, x)}
    BY <1>1 DEF StreamSets
  <2>2. i \in 0 .. n
    OBVIOUS
  <2>3. z = {StreamAt(L[i], "n8", c, x)}
    BY <2>1, <2>2
  <2> QED
    BY <2>3 DEF StreamSets
<1>2. u \in Seq(StreamSets(L, n, c))
  <2> DEFINE A == StreamSets(K, n, c)
             B == StreamSets(L, n, c)
  <2>1. u \in Seq(A) /\ A \subseteq B
    BY <1>1 DEF Spent
  <2> HIDE DEF A, B
  <2> QED
    BY <2>1 DEF B
<1> QED
  BY <1>2 DEF Spent

\* The message that was written as number i.
LEMMA MessageIs ==
    ASSUME NEW K, NEW c, NEW w, NEW r, NEW s, NEW g, Kept(K, c, w, r, s, g),
           NEW i \in 1 .. Len(s)
    PROVE  LET m == SentAs(K, c, s, i)
               held == SessionCtx(K[i - 1], c)
               U == SessionBytes(K[i - 1], c)
           IN  /\ m = [ad |-> m.ad, text |-> m.text, mac |-> m.mac]
               /\ m.ad = s[i].ad /\ m.ad \in Seq(U) /\ s[i] = [ad |-> s[i].ad, text |-> s[i].text]
               /\ m.text = Session!Crypt(held, s[i].text) /\ m.text \in Seq(U)
               /\ m.mac = Session!LockAuth(Session!FirstHalf(Session!AuthKey(held)), m.ad, m.text)
               /\ Session!Crypt(held, m.text) = s[i].text
<1> DEFINE m == SentAs(K, c, s, i)
           held == SessionCtx(K[i - 1], c)
           U == SessionBytes(K[i - 1], c)
           e == s[i]
<1>1. c \in Nat /\ e \in Written
  BY DEF Kept
<1>2. e = [ad |-> e.ad, text |-> e.text] /\ e.ad \in Seq(PlainBytes) /\ e.text \in Seq(PlainBytes)
  <2> HIDE DEF e
  <2> QED
    BY <1>1 DEF Written
<1>3. /\ m = [ad |-> m.ad, text |-> m.text, mac |-> m.mac]
      /\ m.ad = e.ad /\ m.text = Session!Crypt(held, e.text)
      /\ m.mac = Session!LockAuth(Session!FirstHalf(Session!AuthKey(held)), m.ad, m.text)
  <2> DEFINE a == e.ad
             t == Session!Crypt(held, e.text)
             k == Session!FirstHalf(Session!AuthKey(held))
  <2>1. m = [ad |-> a, text |-> t, mac |-> Session!LockAuth(k, a, t)]
    BY DEF SentAs, Session!Locked
  <2> HIDE DEF m, a, t, k
  <2>2. m.ad = a /\ m.text = t /\ m.mac = Session!LockAuth(k, a, t)
    BY <2>1
  <2>3. m = [ad |-> m.ad, text |-> m.text, mac |-> m.mac]
    BY <2>1, <2>2
  <2> QED
    BY <2>2, <2>3 DEF a, t, k
<1> HIDE DEF m, e
<1>4. /\ Session!Crypt(held, e.text) \in Seq(U)
      /\ Session!Crypt(held, Session!Crypt(held, e.text)) = e.text
  BY <1>1, <1>2, CryptTwice
<1>5. m.ad \in Seq(U)
  <2>1. PlainBytes \subseteq U
    BY DEF PlainBytes, SessionBytes
  <2> HIDE DEF U
  <2> QED
    BY <1>2, <1>3, <2>1
<1> QED
  BY <1>2, <1>3, <1>4, <1>5 DEF m, e

LEMMA MessageOpens ==
    ASSUME NEW K, NEW c, NEW w, NEW r, NEW s, NEW g, Kept(K, c, w, r, s, g),
           NEW i \in 1 .. Len(s)
    PROVE  /\ Session!Matches(SessionCtx(K[i - 1], c), SentAs(K, c, s, i))
           /\ Session!Crypt(SessionCtx(K[i - 1], c), SentAs(K, c, s, i).text) = s[i].text
<1> DEFINE m == SentAs(K, c, s, i)
           held == SessionCtx(K[i - 1], c)
           U == SessionBytes(K[i - 1], c)
<1>1. /\ m.ad = s[i].ad /\ m.ad \in Seq(U) /\ s[i] = [ad |-> s[i].ad, text |-> s[i].text]
      /\ m.text = Session!Crypt(held, s[i].text) /\ m.text \in Seq(U)
      /\ m.mac = Session!LockAuth(Session!FirstHalf(Session!AuthKey(held)), m.ad, m.text)
      /\ Session!Crypt(held, m.text) = s[i].text
  BY MessageIs
<1> HIDE DEF m, held, U
<1>2. Session!Matches(held, m)
  BY <1>1 DEF Session!Matches
<1> QED
  BY <1>1, <1>2 DEF m, held

\* What the reader accepts with the authenticator of a message is the next
\* message, and it gets what was written.
LEMMA AcceptedIs ==
    ASSUME NEW K, NEW c, NEW w, NEW r, NEW s, NEW g, Kept(K, c, w, r, s, g),
           NEW i \in 1 .. Len(s), NEW d, d.mac = SentAs(K, c, s, i).mac,
           d.ad \in Seq(SessionBytes(K[i - 1], c)), d.text \in Seq(SessionBytes(K[i - 1], c)),
           Session!Matches(r, d)
    PROVE  /\ i = Len(g) + 1
           /\ d.ad = SentAs(K, c, s, i).ad /\ d.text = SentAs(K, c, s, i).text
           /\ [ad |-> d.ad, text |-> Session!Crypt(r, d.text)] = s[i]
<1> DEFINE m == SentAs(K, c, s, i)
           held == SessionCtx(K[i - 1], c)
           U == SessionBytes(K[i - 1], c)
           half(x) == Session!FirstHalf(Session!AuthKey(x))
<1>1. /\ m.ad = s[i].ad /\ m.ad \in Seq(U) /\ s[i] = [ad |-> s[i].ad, text |-> s[i].text]
      /\ m.text = Session!Crypt(held, s[i].text) /\ m.text \in Seq(U)
      /\ m.mac = Session!LockAuth(half(held), m.ad, m.text)
      /\ Session!Crypt(held, m.text) = s[i].text
  BY MessageIs
<1>2. /\ c \in Nat /\ Chained(K, Len(s), c) /\ r = SessionCtx(K[Len(g)], c)
      /\ Len(g) \in 0 .. Len(s) /\ Len(s) \in Nat
  <2>1. s \in Seq(Written) /\ g \in Seq(Written) /\ Len(g) <= Len(s)
    BY DEF Kept
  <2>2. Len(s) \in Nat /\ Len(g) \in Nat
    BY <2>1, LenProperties
  <2> QED
    BY <2>1, <2>2 DEF Kept
<1>3. d.mac = Session!LockAuth(half(r), d.ad, d.text)
  BY DEF Session!Matches
<1> HIDE DEF m
<1>4. PlainBytes \subseteq U
  BY DEF PlainBytes, SessionBytes
<1>5. half(r) = half(held) /\ d.ad = m.ad /\ d.text = m.text
  <2> DEFINE h1 == half(r)
             h2 == half(held)
             a1 == d.ad
             t1 == d.text
             a2 == m.ad
             t2 == m.text
  <2>1. Session!LockAuth(h1, a1, t1) = Session!LockAuth(h2, a2, t2)
    BY <1>1, <1>3 DEF m
  <2>2. a1 \in Seq(U) /\ t1 \in Seq(U) /\ a2 \in Seq(U) /\ t2 \in Seq(U)
    BY <1>1
  <2> HIDE DEF h1, h2, a1, t1, a2, t2, U
  <2>3. h1 = h2 /\ a1 = a2 /\ t1 = t2
    BY <1>4, <2>1, <2>2, AuthTells, SMTT(40)
  <2> QED
    BY <2>3 DEF h1, h2, a1, t1, a2, t2
<1>6. K[Len(g)] = K[i - 1]
  BY <1>2, <1>5, KeysTell
<1>7. i - 1 \in 0 .. Len(s)
  OBVIOUS
<1>8. Len(g) = i - 1
  BY <1>2, <1>6, <1>7, KeysDiffer
<1>9. i = Len(g) + 1
  BY <1>2, <1>8
<1>10. Session!Crypt(r, d.text) = s[i].text
  BY <1>1, <1>2, <1>5, <1>6
<1> QED
  BY <1>1, <1>5, <1>9, <1>10 DEF m

LEMMA WriteStep ==
    ASSUME NEW K, NEW c, NEW w, NEW r, NEW s, NEW g, NEW N, NEW lo, NEW u,
           Kept(K, c, w, r, s, g), Carried(K, c, s, N, lo), Spent(K, c, Len(s), u),
           NEW e \in Written, NEW m, m = Session!Locked(w, e.ad, e.text)
    PROVE  LET L == [i \in 0 .. Len(s) + 1 |-> IF i <= Len(s) THEN K[i] ELSE AfterKey(K[Len(s)], c)]
           IN  /\ Kept(L, c, Session!Rekeyed(w), r, Append(s, e), g)
               /\ Carried(L, c, Append(s, e), N \cup {m}, lo)
               /\ Spent(L, c, Len(Append(s, e)),
                        u \o StreamOf(Session!AuthKey(w)) \o StreamOf(m.text))
<1> DEFINE n == Len(s)
           L == [i \in 0 .. n + 1 |-> IF i <= n THEN K[i] ELSE AfterKey(K[n], c)]
           first == Session!AuthKey(w)
           s1 == Append(s, e)
           w1 == Session!Rekeyed(w)
<1>1. /\ c \in Nat /\ s \in Seq(Written) /\ g \in Seq(Written) /\ n \in Nat /\ Len(g) \in Nat
      /\ Chained(K, n, c) /\ w = SessionCtx(K[n], c) /\ r = SessionCtx(K[Len(g)], c)
      /\ Len(g) <= n /\ \A i \in 1 .. Len(g) : g[i] = s[i]
  <2>1. s \in Seq(Written) /\ g \in Seq(Written)
    BY DEF Kept
  <2>2. n \in Nat /\ Len(g) \in Nat
    BY <2>1, LenProperties
  <2> QED
    BY <2>1, <2>2 DEF Kept
<1>2. /\ e = [ad |-> e.ad, text |-> e.text] /\ e.ad \in Seq(PlainBytes)
      /\ e.text \in Seq(PlainBytes) /\ Len(e.text) <= LongestText
  BY DEF Written
<1>3. s1 \in Seq(Written) /\ Len(s1) = n + 1 /\ (\A i \in 1 .. n : s1[i] = s[i]) /\ s1[n + 1] = e
  BY <1>1, AppendProperties
<1>4. Chained(L, n + 1, c) /\ \A i \in 0 .. n : L[i] = K[i]
  <2> HIDE DEF n
  <2> QED
    BY <1>1, NextKey
<1>5. L[n + 1] = AfterKey(K[n], c)
  BY <1>1
<1> HIDE DEF n, L, s1
<1>6. w1 = SessionCtx(L[n + 1], c)
  BY <1>1, <1>5 DEF AfterKey, Session!Rekeyed, SessionCtx
<1>7. Kept(L, c, w1, r, s1, g)
  <2>1. L[Len(g)] = K[Len(g)]
    <3>1. Len(g) \in 0 .. n
      BY <1>1
    <3> QED
      BY <1>4, <3>1
  <2>2. \A i \in 1 .. Len(g) : g[i] = s1[i]
    <3> TAKE i \in 1 .. Len(g)
    <3>1. i \in 1 .. n
      BY <1>1
    <3> QED
      BY <1>1, <1>3, <3>1
  <2>3. Len(g) <= Len(s1)
    BY <1>1, <1>3
  <2> HIDE DEF w1
  <2> QED
    BY <1>1, <1>3, <1>4, <1>6, <2>1, <2>2, <2>3 DEF Kept
<1>8. ASSUME NEW i \in 1 .. n
      PROVE  SentAs(L, c, s1, i) = SentAs(K, c, s, i)
  <2>1. i - 1 \in 0 .. n
    BY <1>1
  <2>2. L[i - 1] = K[i - 1] /\ s1[i] = s[i]
    BY <1>3, <1>4, <2>1
  <2> QED
    BY <2>2 DEF SentAs
<1>9. SentAs(L, c, s1, n + 1) = m
  <2>1. (n + 1) - 1 = n /\ n \in 0 .. n
    BY <1>1
  <2>2. L[n] = K[n] /\ s1[n + 1] = e
    BY <1>3, <1>4, <2>1
  <2> QED
    BY <1>1, <2>1, <2>2 DEF SentAs
<1>10. Carried(L, c, s1, N \cup {m}, lo)
  <2>1. ASSUME NEW x \in N \cup {m}
        PROVE  \E i \in 1 .. Len(s1) : x = SentAs(L, c, s1, i)
    <3>1. CASE x \in N
      <4>1. PICK i \in 1 .. n : x = SentAs(K, c, s, i)
        BY <3>1 DEF Carried, n
      <4>2. i \in 1 .. Len(s1) /\ x = SentAs(L, c, s1, i)
        BY <1>1, <1>3, <1>8, <4>1
      <4> QED
        BY <4>2
    <3>2. CASE x = m
      <4>1. n + 1 \in 1 .. Len(s1)
        BY <1>1, <1>3
      <4> QED
        BY <1>9, <3>2, <4>1
    <3> QED
      BY <3>1, <3>2
  <2>2. ASSUME ~lo, NEW i \in 1 .. Len(s1)
        PROVE  SentAs(L, c, s1, i) \in N \cup {m}
    <3>1. CASE i \in 1 .. n
      <4>1. SentAs(K, c, s, i) \in N
        BY <2>2, <3>1 DEF Carried, n
      <4> QED
        BY <1>8, <3>1, <4>1
    <3>2. CASE i = n + 1
      BY <1>9, <3>2
    <3> QED
      BY <1>1, <1>3, <3>1, <3>2
  <2> QED
    BY <2>1, <2>2 DEF Carried
<1>11. Spent(L, c, Len(s1), u \o StreamOf(first) \o StreamOf(m.text))
  <2> DEFINE l == Len(e.text)
             V == StreamSets(L, n + 1, c)
             A == StreamOf(first)
             T == StreamOf(m.text)
  <2>1. l \in Nat /\ l <= LongestText
    BY <1>2, LenProperties
  <2>2. L[n] = K[n]
    BY <1>1, <1>4
  <2>3. Spent(L, c, n, u)
    <3>1. Spent(K, c, n, u)
      BY DEF n
    <3> QED
      BY <1>1, <1>4, <3>1, SpentSame
  <2>4. Chained(L, n, c)
    <3>1. \A i \in 0 .. n - 1 : i \in 0 .. (n + 1) - 1
      BY <1>1
    <3> QED
      BY <1>4, <3>1 DEF Chained
  <2>5. /\ u \in Seq(V)
        /\ \A j \in 1 .. BlockBytes + l : {StreamAt(L[n], "n8", c, j - 1)} \in V
        /\ Spent(L, c, n + 1, u \o StreamFrom(L[n], c, BlockBytes + l))
    <3> HIDE DEF l
    <3>1. n \in Nat /\ c \in Nat
      BY <1>1
    <3> QED
      BY <2>1, <2>3, <2>4, <3>1, SpentStep, Zenon
  <2>6. /\ m.text = Session!Crypt(SessionCtx(L[n], c), e.text)
        /\ first = Session!AuthKey(SessionCtx(L[n], c))
    BY <1>1, <2>2 DEF Session!Locked
  <2>7. A \in Seq(V) /\ T \in Seq(V) /\ A \o T = StreamFrom(L[n], c, BlockBytes + l)
    <3> DEFINE k == L[n]
               t == e.text
    <3>1. /\ c \in Nat /\ t \in Seq(PlainBytes)
          /\ m.text = Session!Crypt(SessionCtx(k, c), t) /\ first = Session!AuthKey(SessionCtx(k, c))
          /\ \A j \in 1 .. BlockBytes + Len(t) : {StreamAt(k, "n8", c, j - 1)} \in V
      BY <1>1, <1>2, <2>5, <2>6
    <3> HIDE DEF k, t, first, V
    <3>2. /\ StreamOf(first) \in Seq(V) /\ StreamOf(m.text) \in Seq(V)
          /\ StreamOf(first) \o StreamOf(m.text) = StreamFrom(k, c, BlockBytes + Len(t))
      BY <3>1, StreamOfMessage
    <3> QED
      BY <3>2 DEF k, t
  <2> HIDE DEF A, T, V
  <2>8. u \o A \o T = u \o (A \o T)
    <3>1. u \in Seq(V) /\ A \in Seq(V) /\ T \in Seq(V)
      BY <2>5, <2>7
    <3> QED
      BY <3>1, ConcatAssociative, SMTT(40)
  <2>9. Spent(L, c, n + 1, u \o A \o T)
    BY <2>5, <2>7, <2>8
  <2> QED
    BY <1>3, <2>9 DEF A, T
<1> QED
  BY <1>7, <1>10, <1>11 DEF L, s1, n

\* What a transport makes of a message: its parts change, not its authenticator.
LEMMA DamageIs ==
    ASSUME NEW U, PlainBytes \subseteq U, NEW m, m.ad \in Seq(U), m.text \in Seq(U),
           m = [ad |-> m.ad, text |-> m.text, mac |-> m.mac],
           NEW d \in Session!Damage(m)
    PROVE  /\ d = [ad |-> d.ad, text |-> d.text, mac |-> m.mac] /\ d.mac = m.mac
           /\ d.ad \in Seq(U) /\ d.text \in Seq(U) /\ d # m
<1> DEFINE a == m.ad
           t == m.text
           z == Session!NoText(1)
           a1 == Append(a, Head(t \o z))
           t1 == IF t = <<>> THEN t ELSE Tail(t)
           t2 == IF a = <<>> THEN t ELSE <<Session!Last(a)>> \o t
           a2 == IF a = <<>> THEN a ELSE Session!Front(a)
           t3 == IF t = <<>> THEN t ELSE Session!Front(t)
<1>1. /\ d # m
      /\ \/ d = [m EXCEPT !.ad = a1, !.text = t1]
         \/ d = [m EXCEPT !.text = t2, !.ad = a2]
         \/ d = [m EXCEPT !.text = t3]
  BY DEF Session!Damage
<1>2. a \in Seq(U) /\ t \in Seq(U) /\ z \in Seq(U) /\ Len(z) = 1
  <2>1. z = [j \in 1 .. 1 |-> <<0, {}>>]
    BY DEF Session!NoText, Session!Plain
  <2>2. <<0, {}>> \in U
    BY DEF PlainBytes
  <2> HIDE DEF z
  <2>3. z \in [1 .. 1 -> U]
    BY <2>1, <2>2
  <2>4. 1 \in Nat
    OBVIOUS
  <2> QED
    BY <2>3, <2>4, Listed
<1> HIDE DEF a, t, z
<1>3. ASSUME NEW s \in Seq(U), s # <<>>
      PROVE  /\ Tail(s) \in Seq(U) /\ Session!Front(s) \in Seq(U) /\ Session!Last(s) \in U
             /\ Head(s) \in U
  <2>1. Tail(s) \in Seq(U) /\ Head(s) \in U /\ Len(s) \in Nat \ {0}
    BY <1>3, HeadTailProperties
  <2>2. SubSeq(s, 1, Len(s) - 1) \in Seq(U) /\ s[Len(s)] \in U
    BY <2>1
  <2> QED
    BY <2>1, <2>2 DEF Session!Front, Session!Last
<1>4. a1 \in Seq(U) /\ t1 \in Seq(U)
  <2>1. t \o z \in Seq(U) /\ Len(t \o z) # 0
    <3>1. t \o z \in Seq(U) /\ Len(t \o z) = Len(t) + Len(z) /\ Len(t) \in Nat
      BY <1>2, Joined, LenProperties
    <3> QED
      BY <1>2, <3>1
  <2>2. t \o z # <<>>
    BY <2>1
  <2>3. Head(t \o z) \in U
    BY <1>3, <2>1, <2>2
  <2> QED
    BY <1>2, <1>3, <2>3, AppendProperties
<1>5. a2 \in Seq(U) /\ t2 \in Seq(U)
  <2>1. a # <<>> => <<Session!Last(a)>> \in Seq(U)
    BY <1>2, <1>3
  <2>2. a # <<>> => <<Session!Last(a)>> \o t \in Seq(U)
    BY <1>2, <2>1, Joined
  <2> QED
    BY <1>2, <1>3, <2>2
<1>6. t3 \in Seq(U)
  BY <1>2, <1>3
<1> HIDE DEF a1, t1, a2, t2, t3
<1>7. m = [ad |-> a, text |-> t, mac |-> m.mac]
  BY DEF a, t
<1> DEFINE k == m.mac
<1> HIDE DEF k
<1>8. \E x, y \in Seq(U) : d = [ad |-> x, text |-> y, mac |-> k]
  <2>0. m = [ad |-> a, text |-> t, mac |-> k]
    BY <1>7 DEF k
  <2>1. CASE d = [m EXCEPT !.ad = a1, !.text = t1]
    <3>1. d = [ad |-> a1, text |-> t1, mac |-> k]
      BY <2>0, <2>1
    <3> QED
      BY <1>4, <3>1
  <2>2. CASE d = [m EXCEPT !.text = t2, !.ad = a2]
    <3>1. d = [ad |-> a2, text |-> t2, mac |-> k]
      BY <2>0, <2>2
    <3> QED
      BY <1>5, <3>1
  <2>3. CASE d = [m EXCEPT !.text = t3]
    <3>1. d = [ad |-> a, text |-> t3, mac |-> k]
      BY <2>0, <2>3
    <3> QED
      BY <1>2, <1>6, <3>1
  <2> QED
    BY <1>1, <2>1, <2>2, <2>3
<1> QED
  BY <1>1, <1>8 DEF k

\* A message is read, or refused.
LEMMA ReadStep ==
    ASSUME NEW K, NEW c, NEW w, NEW r, NEW s, NEW g, Kept(K, c, w, r, s, g),
           NEW i \in 1 .. Len(s), NEW d, d.mac = SentAs(K, c, s, i).mac,
           d.ad \in Seq(SessionBytes(K[i - 1], c)), d.text \in Seq(SessionBytes(K[i - 1], c)),
           Session!Matches(r, d)
    PROVE  Kept(K, c, w, Session!Rekeyed(r), s,
                Append(g, [ad |-> d.ad, text |-> Session!Crypt(r, d.text)]))
<1> DEFINE e == [ad |-> d.ad, text |-> Session!Crypt(r, d.text)]
           g1 == Append(g, e)
           r1 == Session!Rekeyed(r)
<1>1. i = Len(g) + 1 /\ e = s[i]
  BY AcceptedIs
<1>2. /\ c \in Nat /\ s \in Seq(Written) /\ g \in Seq(Written) /\ Chained(K, Len(s), c)
      /\ w = SessionCtx(K[Len(s)], c) /\ r = SessionCtx(K[Len(g)], c)
      /\ \A j \in 1 .. Len(g) : g[j] = s[j]
  BY DEF Kept
<1> HIDE DEF e
<1>3. e \in Written /\ Len(g) \in Nat /\ Len(s) \in Nat
  <2>1. s[i] \in Written
    BY <1>2
  <2> QED
    BY <1>1, <1>2, <2>1, LenProperties
<1>4. g1 \in Seq(Written) /\ Len(g1) = i /\ (\A j \in 1 .. Len(g) : g1[j] = g[j]) /\ g1[i] = e
  BY <1>1, <1>2, <1>3, AppendProperties
<1>5. K[i] = AfterKey(K[Len(g)], c)
  <2>1. Len(g) \in 0 .. Len(s) - 1
    BY <1>1, <1>3
  <2> QED
    BY <1>1, <1>2, <2>1 DEF Chained
<1>6. r1 = SessionCtx(K[i], c)
  BY <1>2, <1>5 DEF AfterKey, Session!Rekeyed, SessionCtx
<1>7. ASSUME NEW j \in 1 .. i
      PROVE  g1[j] = s[j]
  <2>1. CASE j = i
    BY <1>1, <1>4, <2>1
  <2>2. CASE j # i
    <3>1. j \in 1 .. Len(g)
      BY <1>1, <1>3, <2>2
    <3> QED
      BY <1>2, <1>4, <3>1
  <2> QED
    BY <2>1, <2>2
<1> HIDE DEF g1, r1
<1>8. Kept(K, c, w, r1, s, g1)
  BY <1>2, <1>4, <1>6, <1>7 DEF Kept
<1> QED
  BY <1>8 DEF e, g1, r1

LEMMA DamagedIsRefused ==
    ASSUME NEW K, NEW c, NEW w, NEW r, NEW s, NEW g, Kept(K, c, w, r, s, g),
           NEW i \in 1 .. Len(s), NEW d \in Session!Damage(SentAs(K, c, s, i))
    PROVE  ~Session!Matches(r, d)
<1> DEFINE m == SentAs(K, c, s, i)
           U == SessionBytes(K[i - 1], c)
<1>0. m = [ad |-> m.ad, text |-> m.text, mac |-> m.mac]
  <2> DEFINE held == SessionCtx(K[i - 1], c)
             a == s[i].ad
             t == Session!Crypt(held, s[i].text)
             k == Session!LockAuth(Session!FirstHalf(Session!AuthKey(held)), a, t)
  <2>1. m = [ad |-> a, text |-> t, mac |-> k]
    BY DEF SentAs, Session!Locked
  <2> HIDE DEF m, a, t, k
  <2> QED
    BY <2>1
<1>1. m.ad \in Seq(U) /\ m.text \in Seq(U)
  BY MessageIs
<1>2. PlainBytes \subseteq U
  BY DEF PlainBytes, SessionBytes
<1>3. /\ d = [ad |-> d.ad, text |-> d.text, mac |-> m.mac] /\ d.mac = m.mac
      /\ d.ad \in Seq(U) /\ d.text \in Seq(U) /\ d # m
  <2> HIDE DEF m, U
  <2>1. d \in Session!Damage(m)
    BY DEF m
  <2> QED
    BY <1>0, <1>1, <1>2, <2>1, DamageIs
<1>4. SUFFICES ASSUME Session!Matches(r, d) PROVE FALSE
  OBVIOUS
<1>5. d.ad = m.ad /\ d.text = m.text
  <2>1. d.mac = m.mac /\ d.ad \in Seq(U) /\ d.text \in Seq(U)
    BY <1>3
  <2>2. ASSUME NEW x, x.mac = SentAs(K, c, s, i).mac, Session!Matches(r, x),
               x.ad \in Seq(SessionBytes(K[i - 1], c)), x.text \in Seq(SessionBytes(K[i - 1], c))
        PROVE  /\ i = Len(g) + 1
               /\ x.ad = SentAs(K, c, s, i).ad /\ x.text = SentAs(K, c, s, i).text
               /\ [ad |-> x.ad, text |-> Session!Crypt(r, x.text)] = s[i]
    BY <2>2, AcceptedIs
  <2> QED
    BY <1>4, <2>1, <2>2
<1> HIDE DEF m, U
<1> QED
  BY <1>0, <1>3, <1>5

\* The state of a session, with the keys K of its messages and the counter c.
SessionInv ==
    \E K, c :
        /\ Kept(K, c, v1, v2, v3, v4)
        /\ Carried(K, c, v3, v5, v6)
        /\ Spent(K, c, Len(v3), v7)

LEMMA SessionStart == Session!Init => SessionInv
<1> SUFFICES ASSUME Session!Init PROVE SessionInv
  OBVIOUS
<1> DEFINE K == [i \in 0 .. 0 |-> v1.key]
           c == v1.counter
<1>1. /\ v1 \in {Session!InitX, Session!InitDjb, Session!InitIetf} /\ v2 = v1
      /\ v3 = <<>> /\ v4 = <<>> /\ v5 = {} /\ v7 = <<>>
  BY DEF Session!Init
<1>2. CtrRange \in Nat \ {0}
  BY CipherOk DEF CipherSizes
<1>3. v1 = SessionCtx(v1.key, c) /\ v1.key \in FirstKeys /\ c \in Nat
  <2>1. CASE v1 = Session!InitX
    BY <2>1 DEF Session!InitX, SessionCtx, FirstKeys
  <2>2. CASE v1 = Session!InitDjb
    BY <2>2 DEF Session!InitDjb, SessionCtx, FirstKeys
  <2>3. CASE v1 = Session!InitIetf
    <3> DEFINE y == Session!IetfCtr(<<2>>, 0)
    <3>1. y \in Nat
      <4>1. y = 0 + CtrRange * 2
        BY DEF Session!IetfCtr, Session!Ctr
      <4> HIDE DEF y
      <4> QED
        BY <1>2, <4>1
    <3> HIDE DEF y
    <3>2. v1 = [key |-> Session!Key, nonce |-> "n8", counter |-> y]
      BY <2>3 DEF Session!InitIetf, y
    <3> QED
      BY <3>1, <3>2 DEF SessionCtx, FirstKeys
  <2> QED
    BY <1>1, <2>1, <2>2, <2>3
<1> HIDE DEF c
<1>4. K[0] = v1.key
  OBVIOUS
<1> HIDE DEF K
<1>5. \A U : v3 \in Seq(U) /\ v4 \in Seq(U) /\ v7 \in Seq(U)
  BY <1>1
<1>6. Len(v3) = 0 /\ Len(v4) = 0 /\ Len(v7) = 0
  BY <1>1
<1>7. Chained(K, 0, c)
  BY <1>3, <1>4 DEF Chained
<1>8. Kept(K, c, v1, v2, v3, v4)
  <2>1. v1 = SessionCtx(K[0], c) /\ v2 = SessionCtx(K[0], c)
    BY <1>1, <1>3, <1>4
  <2>2. v3 \in Seq(Written) /\ v4 \in Seq(Written)
    BY <1>5, Zenon
  <2> QED
    BY <1>3, <1>6, <1>7, <2>1, <2>2 DEF Kept
<1>9. Carried(K, c, v3, v5, v6)
  BY <1>1, <1>6 DEF Carried
<1>10. Spent(K, c, Len(v3), v7)
  <2>1. v7 \in Seq(StreamSets(K, Len(v3), c))
    BY <1>5, Zenon
  <2> QED
    BY <1>6, <2>1 DEF Spent
<1> QED
  BY <1>8, <1>9, <1>10 DEF SessionInv

LEMMA SessionStep == SessionInv /\ [Session!Next]_Session!vars => SessionInv'
<1> SUFFICES ASSUME SessionInv, [Session!Next]_Session!vars
             PROVE  SessionInv'
  OBVIOUS
<1>1. PICK K, c :
        /\ Kept(K, c, v1, v2, v3, v4)
        /\ Carried(K, c, v3, v5, v6)
        /\ Spent(K, c, Len(v3), v7)
  BY DEF SessionInv
<1>2. ASSUME Session!Write
      PROVE  SessionInv'
  <2>1. PICK a \in Ads, t \in Texts :
          LET e == [ad |-> Session!TextBytes(1, a), text |-> Session!TextBytes(Len(v3) + 2, t)]
              m == Session!Locked(v1, Session!TextBytes(1, a), Session!TextBytes(Len(v3) + 2, t))
          IN  /\ v3' = Append(v3, e) /\ v5' = v5 \cup {m}
              /\ v7' = v7 \o StreamOf(Session!AuthKey(v1)) \o StreamOf(m.text)
    BY <1>2, Zenon DEF Session!Write, StreamOf
  <2>2. v1' = Session!Rekeyed(v1) /\ v2' = v2 /\ v4' = v4 /\ v6' = v6
    BY <1>2 DEF Session!Write
  <2> DEFINE ad == Session!TextBytes(1, a)
             text == Session!TextBytes(Len(v3) + 2, t)
             e == [ad |-> ad, text |-> text]
             m == Session!Locked(v1, e.ad, e.text)
             L == [i \in 0 .. Len(v3) + 1 |-> IF i <= Len(v3) THEN K[i] ELSE AfterKey(K[Len(v3)], c)]
  <2>3. a \in Nat /\ t \in Nat /\ t <= LongestText
    BY SessionOk DEF Session!AeadAssumption, LongestText
  <2>4. Len(v3) + 2 \in Nat
    <3>1. v3 \in Seq(Written)
      BY <1>1 DEF Kept
    <3> QED
      BY <3>1, LenProperties
  <2>5. ad \in Seq(PlainBytes) /\ text \in Seq(PlainBytes) /\ Len(text) <= LongestText
    <3>1. 1 \in Nat
      OBVIOUS
    <3>2. ad \in Seq(PlainBytes) /\ text \in Seq(PlainBytes) /\ Len(text) = t
      BY <2>3, <2>4, <3>1, TextIsPlain
    <3> QED
      BY <2>3, <3>2
  <2>6. v3' = Append(v3, e) /\ v5' = v5 \cup {m}
        /\ v7' = v7 \o StreamOf(Session!AuthKey(v1)) \o StreamOf(m.text)
    <3>1. m = Session!Locked(v1, ad, text)
      <4>1. e.ad = ad /\ e.text = text
        OBVIOUS
      <4> HIDE DEF e, ad, text
      <4> QED
        BY <4>1
    <3> HIDE DEF m
    <3> QED
      BY <2>1, <3>1, Zenon
  <2> HIDE DEF ad, text
  <2>7. e \in Written
    BY <2>5 DEF Written
  <2> HIDE DEF e
  <2> HIDE DEF m
  <2>8. m = Session!Locked(v1, e.ad, e.text)
    BY DEF m
  <2>9. /\ Kept(L, c, Session!Rekeyed(v1), v2, Append(v3, e), v4)
        /\ Carried(L, c, Append(v3, e), v5 \cup {m}, v6)
        /\ Spent(L, c, Len(Append(v3, e)), v7 \o StreamOf(Session!AuthKey(v1)) \o StreamOf(m.text))
    BY <1>1, <2>7, <2>8, WriteStep
  <2> HIDE DEF L
  <2>10. Kept(L, c, v1', v2', v3', v4') /\ Carried(L, c, v3', v5', v6') /\ Spent(L, c, Len(v3'), v7')
    BY <2>2, <2>6, <2>9
  <2> QED
    BY <2>10 DEF SessionInv
<1>3. ASSUME NEW i \in 1 .. Len(v3), NEW d, d.mac = SentAs(K, c, v3, i).mac,
             d.ad \in Seq(SessionBytes(K[i - 1], c)), d.text \in Seq(SessionBytes(K[i - 1], c)),
             Session!Read(d)
      PROVE  SessionInv'
  <2>1. v1' = v1 /\ v3' = v3 /\ v5' = v5 /\ v6' = v6 /\ v7' = v7
    BY <1>3 DEF Session!Read
  <2>2. CASE /\ Session!Matches(v2, d) /\ v2' = Session!Rekeyed(v2)
             /\ v4' = Append(v4, [ad |-> d.ad, text |-> Session!Crypt(v2, d.text)])
    <3>1. Kept(K, c, v1, Session!Rekeyed(v2), v3,
               Append(v4, [ad |-> d.ad, text |-> Session!Crypt(v2, d.text)]))
      BY <1>1, <1>3, <2>2, ReadStep
    <3>2. Kept(K, c, v1', v2', v3', v4') /\ Carried(K, c, v3', v5', v6') /\ Spent(K, c, Len(v3'), v7')
      BY <1>1, <2>1, <2>2, <3>1
    <3> QED
      BY <3>2 DEF SessionInv
  <2>3. CASE v2' = v2 /\ v4' = v4
    <3>1. Kept(K, c, v1', v2', v3', v4') /\ Carried(K, c, v3', v5', v6') /\ Spent(K, c, Len(v3'), v7')
      BY <1>1, <2>1, <2>3
    <3> QED
      BY <3>1 DEF SessionInv
  <2> QED
    BY <1>3, <2>2, <2>3 DEF Session!Read
<1>4. ASSUME Session!Deliver
      PROVE  SessionInv'
  <2>1. PICK m \in v5 : Session!Read(m)
    BY <1>4 DEF Session!Deliver
  <2>2. PICK i \in 1 .. Len(v3) : m = SentAs(K, c, v3, i)
    BY <1>1 DEF Carried
  <2>3. m.ad \in Seq(SessionBytes(K[i - 1], c)) /\ m.text \in Seq(SessionBytes(K[i - 1], c))
    <3>1. /\ SentAs(K, c, v3, i).ad \in Seq(SessionBytes(K[i - 1], c))
          /\ SentAs(K, c, v3, i).text \in Seq(SessionBytes(K[i - 1], c))
      BY <1>1, MessageIs
    <3> QED
      BY <2>2, <3>1
  <2>4. m.mac = SentAs(K, c, v3, i).mac
    BY <2>2
  <2> QED
    BY <1>3, <2>1, <2>3, <2>4
<1>5. ASSUME Session!DeliverDamaged
      PROVE  SessionInv'
  <2>1. PICK m \in v5 : \E d \in Session!Damage(m) : Session!Read(d)
    BY <1>5 DEF Session!DeliverDamaged
  <2>2. PICK d \in Session!Damage(m) : Session!Read(d)
    BY <2>1
  <2>3. PICK i \in 1 .. Len(v3) : m = SentAs(K, c, v3, i)
    BY <1>1 DEF Carried
  <2>4. ~Session!Matches(v2, d)
    <3>1. d \in Session!Damage(SentAs(K, c, v3, i))
      BY <2>3
    <3> QED
      BY <1>1, <3>1, DamagedIsRefused
  <2>5. v1' = v1 /\ v2' = v2 /\ v3' = v3 /\ v4' = v4 /\ v5' = v5 /\ v6' = v6 /\ v7' = v7
    BY <2>2, <2>4 DEF Session!Read
  <2>6. Kept(K, c, v1', v2', v3', v4') /\ Carried(K, c, v3', v5', v6') /\ Spent(K, c, Len(v3'), v7')
    BY <1>1, <2>5
  <2> QED
    BY <2>6 DEF SessionInv
<1>6. ASSUME Session!Lose
      PROVE  SessionInv'
  <2>1. /\ v1' = v1 /\ v2' = v2 /\ v3' = v3 /\ v4' = v4 /\ v7' = v7
        /\ v5' \subseteq v5 /\ v6' = TRUE
    BY <1>6 DEF Session!Lose
  <2>2. Carried(K, c, v3', v5', v6')
    BY <1>1, <2>1 DEF Carried
  <2>3. Kept(K, c, v1', v2', v3', v4') /\ Spent(K, c, Len(v3'), v7')
    BY <1>1, <2>1
  <2> QED
    BY <2>2, <2>3 DEF SessionInv
<1>7. ASSUME UNCHANGED Session!vars
      PROVE  SessionInv'
  <2>1. v1' = v1 /\ v2' = v2 /\ v3' = v3 /\ v4' = v4 /\ v5' = v5 /\ v6' = v6 /\ v7' = v7
    BY <1>7 DEF Session!vars
  <2>2. Kept(K, c, v1', v2', v3', v4') /\ Carried(K, c, v3', v5', v6') /\ Spent(K, c, Len(v3'), v7')
    BY <1>1, <2>1
  <2> QED
    BY <2>2 DEF SessionInv
<1> QED
  BY <1>2, <1>4, <1>5, <1>6, <1>7 DEF Session!Next

LEMMA SessionHolds ==
    SessionInv => /\ Session!ReadIsPrefixOfWritten /\ Session!ReaderCanGoOn
                  /\ Session!SessionKeyStreamUsedOnce
<1> SUFFICES ASSUME SessionInv
             PROVE  /\ Session!ReadIsPrefixOfWritten /\ Session!ReaderCanGoOn
                    /\ Session!SessionKeyStreamUsedOnce
  OBVIOUS
<1>1. PICK K, c :
        /\ Kept(K, c, v1, v2, v3, v4)
        /\ Carried(K, c, v3, v5, v6)
        /\ Spent(K, c, Len(v3), v7)
  BY DEF SessionInv
<1>2. /\ v3 \in Seq(Written) /\ v4 \in Seq(Written) /\ Len(v4) <= Len(v3)
      /\ v2 = SessionCtx(K[Len(v4)], c) /\ \A i \in 1 .. Len(v4) : v4[i] = v3[i]
  BY <1>1 DEF Kept
<1>3. Len(v3) \in Nat /\ Len(v4) \in Nat
  BY <1>2, LenProperties
<1>4. Session!ReadIsPrefixOfWritten
  <2>1. SubSeq(v4, 1, Len(v4)) = SubSeq(v3, 1, Len(v4))
    <3> DEFINE n == Len(v4)
    <3>1. /\ SubSeq(v4, 1, n) = [i \in 1 .. n |-> v4[i]]
          /\ SubSeq(v3, 1, n) = [i \in 1 .. n |-> v3[i]]
      BY <1>2, <1>3
    <3> HIDE DEF n
    <3> QED
      BY <1>2, <3>1 DEF n
  <2> QED
    BY <1>2, <2>1 DEF Session!ReadIsPrefixOfWritten, Session!IsPrefix
<1>5. Session!ReaderCanGoOn
  <2> SUFFICES ASSUME ~v6, Len(v4) < Len(v3)
               PROVE  \E m \in v5 : /\ Session!Matches(v2, m)
                                    /\ Session!Crypt(v2, m.text) = v3[Len(v4) + 1].text
    BY DEF Session!ReaderCanGoOn
  <2> DEFINE i == Len(v4) + 1
             m == SentAs(K, c, v3, i)
  <2>1. i \in 1 .. Len(v3) /\ i - 1 = Len(v4)
    BY <1>3
  <2> HIDE DEF i
  <2>2. m \in v5
    BY <1>1, <2>1 DEF Carried
  <2>3. /\ Session!Matches(SessionCtx(K[i - 1], c), m)
        /\ Session!Crypt(SessionCtx(K[i - 1], c), m.text) = v3[i].text
    BY <1>1, <2>1, MessageOpens
  <2> HIDE DEF m
  <2>4. Session!Matches(v2, m) /\ Session!Crypt(v2, m.text) = v3[i].text
    BY <1>2, <2>1, <2>3
  <2> QED
    BY <2>2, <2>4 DEF i
<1>6. Session!SessionKeyStreamUsedOnce
  <2>1. DOMAIN v7 = 1 .. Len(v7) /\ \A p, q \in 1 .. Len(v7) : v7[p] = v7[q] => p = q
    BY <1>1, LenProperties DEF Spent
  <2> QED
    BY <2>1 DEF Session!SessionKeyStreamUsedOnce
<1> QED
  BY <1>4, <1>5, <1>6

\* However long messages are and whatever the transport does to them, the reader
\* has a prefix of what was written and can read on, and no byte of key stream
\* serves twice (monocypher.c:2896-2937).
THEOREM SessionStaysInStepAlways == PartsSpec => []SessionStaysInStep
<1> DEFINE I == part = "aead" => SessionInv
<1>1. PartsInit => I
  BY PartInit, SessionStart
<1>2. I /\ [PartsNext]_partsVars => I'
  BY PartStep, SessionStep
<1>3. I => SessionStaysInStep
  BY SessionHolds DEF SessionStaysInStep
<1> QED
  BY <1>1, <1>2, <1>3, PTL DEF PartsSpec

-----------------------------------------------------------------------------
(* The verdict of the crypto HAL. *)

\* The module's instance has a name of its own for the size of a set.
LEMMA SameSize ==
    ASSUME NEW S
    PROVE  Hal!Cardinality(S) = Cardinality(S)
BY DEF Hal!Cardinality, Cardinality

LEMMA SmallSets ==
    ASSUME NEW n \in Nat, NEW T \in SUBSET (1 .. n)
    PROVE  /\ Cardinality(T) \in Nat
           /\ Cardinality(T) = 0 => T = {}
           /\ \A i \in T : Cardinality(T) >= 1
           /\ \A i, j \in T : i # j => Cardinality(T) >= 2
<1>1. IsFiniteSet(T)
  <2>1. IsFiniteSet(1 .. n)
    <3>1. 1 \in Int /\ n \in Int
      OBVIOUS
    <3> QED
      BY <3>1, FS_Interval
  <2> QED
    BY <2>1, FS_Subset
<1>2. Cardinality(T) \in Nat /\ (Cardinality(T) = 0 => T = {})
  BY <1>1, FS_CardinalityType, FS_EmptySet
<1>3. ASSUME NEW U, U \subseteq T
      PROVE  Cardinality(U) <= Cardinality(T)
  BY <1>1, <1>3, FS_Subset
<1>4. ASSUME NEW i \in T
      PROVE  Cardinality(T) >= 1
  <2>1. Cardinality({i}) = 1 /\ {i} \subseteq T
    BY FS_Singleton
  <2> QED
    BY <1>2, <1>3, <2>1
<1>5. ASSUME NEW i \in T, NEW j \in T, i # j
      PROVE  Cardinality(T) >= 2
  <2>1. IsFiniteSet({i}) /\ Cardinality({i}) = 1
    BY FS_Singleton
  <2>2. Cardinality({i} \cup {j}) = 2
    BY <1>5, <2>1, FS_AddElement
  <2> QED
    BY <1>2, <1>3, <2>2
<1> QED
  BY <1>2, <1>4, <1>5

LEMMA Comparisons ==
    ASSUME NEW a \in BOOLEAN, NEW b \in BOOLEAN, NEW d \in BOOLEAN
    PROVE  <<a, b>> \in [1 .. 2 -> BOOLEAN] /\ <<a, b, d>> \in [1 .. 3 -> BOOLEAN]
OBVIOUS

\* What glitches cost: without one the outcome is what the comparisons say, and
\* each comparison that fails and is passed all the same has cost one.
LEMMA GlitchesCost ==
    ASSUME NEW n \in Nat, NEW c \in [1 .. n -> BOOLEAN], NEW o \in BOOLEAN,
           v5 \in Nat, Hal!Decide(c, o)
    PROVE  /\ v5' \in Nat /\ v5' >= v5
           /\ v5' = v5 => (o <=> \A i \in 1 .. n : c[i])
           /\ \A i \in 1 .. n : o /\ ~c[i] => v5' >= v5 + 1
           /\ \A i, j \in 1 .. n : o /\ i # j /\ ~c[i] /\ ~c[j] => v5' >= v5 + 2
<1>1. DOMAIN c = 1 .. n
  OBVIOUS
<1>2. PICK T \in SUBSET DOMAIN c :
        /\ v5' = v5 + Cardinality(T)
        /\ o <=> \A i \in 1 .. n : c[i] <=> i \notin T
  <2>1. PICK T \in SUBSET DOMAIN c :
          /\ v5' = v5 + Cardinality(T)
          /\ v5' <= MaxGlitches
          /\ o = (\A i \in DOMAIN c : c[i] # (i \in T))
    BY SameSize, Zenon DEF Hal!Decide
  <2>2. o <=> \A i \in DOMAIN c : c[i] # (i \in T)
    BY <2>1, Zenon
  <2>3. ASSUME NEW i \in DOMAIN c
        PROVE  (c[i] # (i \in T)) <=> (c[i] <=> i \notin T)
    <3>1. c[i] \in BOOLEAN
      BY <1>1
    <3> QED
      BY <3>1, SMT
  <2> QED
    BY <1>1, <2>1, <2>2, <2>3, Zenon
<1>3. /\ Cardinality(T) \in Nat
      /\ Cardinality(T) = 0 => T = {}
      /\ \A i \in T : Cardinality(T) >= 1
      /\ \A i, j \in T : i # j => Cardinality(T) >= 2
  <2>1. T \in SUBSET (1 .. n)
    BY <1>1
  <2> QED
    BY <2>1, SmallSets
<1>5. T = {} => (o <=> \A i \in 1 .. n : c[i])
  <2> SUFFICES ASSUME T = {} PROVE o <=> \A i \in 1 .. n : c[i]
    OBVIOUS
  <2>1. \A i \in 1 .. n : i \notin T
    OBVIOUS
  <2> QED
    BY <1>2, <2>1
<1>6. ASSUME NEW i \in 1 .. n, o, ~c[i]
      PROVE  i \in T
  BY <1>2, <1>6, Zenon
<1>7. v5' \in Nat /\ v5' >= v5 /\ (v5' = v5 => T = {})
  BY <1>2, <1>3
<1>8. ASSUME NEW i \in T
      PROVE  v5' >= v5 + 1
  BY <1>2, <1>3
<1>9. ASSUME NEW i \in T, NEW j \in T, i # j
      PROVE  v5' >= v5 + 2
  BY <1>2, <1>3, <1>9
<1> QED
  BY <1>5, <1>6, <1>7, <1>8, <1>9, Zenon

\* Where a call stands: the words it has decided, and what it has cost to decide
\* them against the check.
HalArgs ==
    /\ v2 \in Hal!Arguments
    /\ v3 \in {0, BootOk} /\ v4 \in {0, BootOk}
    /\ v5 \in Nat
    /\ v1 \in {"idle", "first", "second", "last", "returned"}

HalFirstWord ==
    /\ v5 = 0 => (v3 = BootOk <=> v2.good)
    /\ v3 = BootOk /\ ~v2.good => v5 >= 1

HalWords ==
    /\ v1 \in {"first", "second", "last"} => ~Hal!Refuses(v2)
    /\ v1 = "first" => v3 = 0 /\ v4 = 0 /\ v5 = 0
    /\ v1 \in {"second", "last"} => HalFirstWord
    /\ v1 = "second" => v4 = 0
    /\ v1 = "last" => /\ v5 = 0 => (v4 = BootOk <=> v2.good)
                      /\ v4 = BootOk /\ ~v2.good => v5 >= 1
                      /\ v3 = BootOk /\ v4 = BootOk /\ ~v2.good => v5 >= 2

HalInv == HalArgs /\ HalWords /\ Hal!VerdictIsCheck /\ Hal!OneGlitchRejects

LEMMA HalStep ==
    ASSUME HalInv, [Hal!Next]_Hal!vars
    PROVE  HalInv'
<1>0. BootOk \in Nat /\ BootOk # 0
  BY VerifyOk DEF Hal!VerifyAssumption
<1> USE DEF HalInv, HalArgs
<1>1. CASE Hal!Verify
  <2>1. /\ v2' \in Hal!Arguments /\ v3' = 0 /\ v4' = 0 /\ v5' = 0
        /\ IF Hal!Refuses(v2') THEN v1' = "returned" /\ v6' = "INVALID_ARG"
           ELSE v1' = "first" /\ v6' = "none"
    BY <1>1 DEF Hal!Verify
  <2>2. Hal!Refuses(v2)' = Hal!Refuses(v2')
    BY DEF Hal!Refuses
  <2>3. HalArgs' /\ HalWords'
    BY <2>1, <2>2 DEF HalWords
  <2>4. (Hal!VerdictIsCheck /\ Hal!OneGlitchRejects)'
    BY <2>1 DEF Hal!VerdictIsCheck, Hal!OneGlitchRejects, Hal!Refuses
  <2> QED
    BY <2>3, <2>4
<1>2. CASE Hal!First
  <2>1. /\ v1 = "first" /\ v1' = "second" /\ v3' \in {v3, BootOk}
        /\ v2' = v2 /\ v4' = v4 /\ v6' = v6
        /\ Hal!Decide(<<v2.good>>, v3' = BootOk)
    BY <1>2 DEF Hal!First
  <2>2. v2.good \in BOOLEAN
    BY DEF Hal!Arguments
  <2> DEFINE c == <<v2.good>>
             o == v3' = BootOk
  <2>3. c \in [1 .. 1 -> BOOLEAN] /\ o \in BOOLEAN /\ c[1] = v2.good /\ 1 \in 1 .. 1
    BY <2>2
  <2>4. Hal!Decide(c, o)
    BY <2>1
  <2> HIDE DEF c, o
  <2>5. /\ v5' \in Nat /\ v5' >= v5
        /\ v5' = v5 => (o <=> \A i \in 1 .. 1 : c[i])
        /\ \A i \in 1 .. 1 : o /\ ~c[i] => v5' >= v5 + 1
    BY <2>3, <2>4, GlitchesCost
  <2>6. /\ v5' = 0 => (o <=> v2.good)
        /\ o /\ ~v2.good => v5' >= 1
    BY <2>1, <2>3, <2>5 DEF HalWords
  <2>7. HalArgs'
    BY <1>0, <2>1, <2>5
  <2>8. HalWords'
    BY <2>1, <2>6 DEF HalWords, HalFirstWord, o, Hal!Refuses
  <2> QED
    BY <2>1, <2>7, <2>8 DEF Hal!VerdictIsCheck, Hal!OneGlitchRejects
<1>3. CASE Hal!Second
  <2>1. /\ v1 = "second" /\ v1' = "last" /\ v4' \in {v4, BootOk}
        /\ v2' = v2 /\ v3' = v3 /\ v6' = v6
        /\ Hal!Decide(<<v3 = BootOk, v2.good>>, v4' = BootOk)
    BY <1>3 DEF Hal!Second, Hal!SecondLook
  <2>2. v2.good \in BOOLEAN
    BY DEF Hal!Arguments
  <2> DEFINE c == <<v3 = BootOk, v2.good>>
             o == v4' = BootOk
  <2>3. c \in [1 .. 2 -> BOOLEAN] /\ o \in BOOLEAN /\ v5 \in Nat
    BY <2>2, Comparisons
  <2>4. Hal!Decide(c, o)
    BY <2>1
  <2>9. (c[1] <=> v3 = BootOk) /\ (c[2] <=> v2.good)
    BY <2>2
  <2> HIDE DEF c, o
  <2>5. /\ v5' \in Nat /\ v5' >= v5
        /\ v5' = v5 => (o <=> \A i \in 1 .. 2 : c[i])
        /\ \A i \in 1 .. 2 : o /\ ~c[i] => v5' >= v5 + 1
    BY <2>3, <2>4, GlitchesCost
  <2>6. /\ v5' = v5 => (o <=> v3 = BootOk /\ v2.good)
        /\ o /\ ~v2.good => v5' >= v5 + 1
    <3>1. 1 \in 1 .. 2 /\ 2 \in 1 .. 2 /\ \A i \in 1 .. 2 : i = 1 \/ i = 2
      OBVIOUS
    <3> QED
      BY <2>5, <2>9, <3>1, Zenon
  <2>7. HalArgs'
    BY <1>0, <2>1, <2>5
  <2>10. v5' = 0 => v5 = 0 /\ v5' = v5
    BY <2>5
  <2>8. HalWords'
    BY <2>1, <2>5, <2>6, <2>10 DEF HalWords, HalFirstWord, o, Hal!Refuses
  <2> QED
    BY <2>1, <2>7, <2>8 DEF Hal!VerdictIsCheck, Hal!OneGlitchRejects
<1>4. CASE Hal!Last
  <2>1. /\ v1 = "last" /\ v1' = "returned" /\ v6' \in {"OK", "VERIFY"}
        /\ v2' = v2 /\ v3' = v3 /\ v4' = v4
        /\ Hal!Decide(<<v3 = BootOk, v4 = BootOk, v3 = v4>>, v6' = "OK")
    BY <1>4 DEF Hal!Last
  <2> DEFINE c == <<v3 = BootOk, v4 = BootOk, v3 = v4>>
             o == v6' = "OK"
  <2>3. c \in [1 .. 3 -> BOOLEAN] /\ o \in BOOLEAN /\ v5 \in Nat
    BY Comparisons
  <2>4. Hal!Decide(c, o)
    BY <2>1
  <2>9. (c[1] <=> v3 = BootOk) /\ (c[2] <=> v4 = BootOk) /\ (c[3] <=> v3 = v4)
    OBVIOUS
  <2> HIDE DEF c, o
  <2>5. /\ v5' \in Nat /\ v5' >= v5
        /\ v5' = v5 => (o <=> \A i \in 1 .. 3 : c[i])
        /\ \A i \in 1 .. 3 : o /\ ~c[i] => v5' >= v5 + 1
        /\ \A i, j \in 1 .. 3 : o /\ i # j /\ ~c[i] /\ ~c[j] => v5' >= v5 + 2
    BY <2>3, <2>4, GlitchesCost
  <2>6. /\ v5' = v5 => (o <=> v3 = BootOk /\ v4 = BootOk)
        /\ o /\ ~(v3 = BootOk) => v5' >= v5 + 1
        /\ o /\ ~(v4 = BootOk) => v5' >= v5 + 1
        /\ o /\ ~(v3 = BootOk) /\ ~(v4 = BootOk) => v5' >= v5 + 2
    <3>1. /\ 1 \in 1 .. 3 /\ 2 \in 1 .. 3 /\ 3 \in 1 .. 3 /\ 1 # 2
          /\ \A i \in 1 .. 3 : i = 1 \/ i = 2 \/ i = 3
      OBVIOUS
    <3> QED
      BY <2>5, <2>9, <3>1, Zenon
  <2>7. HalArgs'
    BY <1>0, <2>1, <2>5
  <2>8. HalWords'
    BY <2>1 DEF HalWords
  <2>10. v5' = 0 => v5 = 0 /\ v5' = v5
    BY <2>5
  <2>11. ~Hal!Refuses(v2) /\ v2.good \in BOOLEAN
    BY <2>1 DEF HalWords, Hal!Arguments
  <2>12. v5' = 0 => (o <=> v2.good)
    BY <2>1, <2>6, <2>10 DEF HalWords, HalFirstWord
  <2>13. Hal!VerdictIsCheck'
    BY <2>1, <2>11, <2>12 DEF Hal!VerdictIsCheck, Hal!Refuses, o
  <2>14. o /\ ~v2.good => v5' >= 2
    BY <2>1, <2>5, <2>6 DEF HalWords, HalFirstWord
  <2>15. Hal!OneGlitchRejects'
    BY <2>1, <2>5, <2>14 DEF Hal!OneGlitchRejects, o
  <2> QED
    BY <2>7, <2>8, <2>13, <2>15
<1>5. CASE Hal!Return
  BY <1>5 DEF Hal!Return, HalWords, Hal!VerdictIsCheck, Hal!OneGlitchRejects
<1>6. CASE UNCHANGED Hal!vars
  BY <1>6 DEF Hal!vars, HalWords, HalFirstWord, Hal!Refuses, Hal!VerdictIsCheck, Hal!OneGlitchRejects
<1> QED
  BY <1>1, <1>2, <1>3, <1>4, <1>5, <1>6 DEF Hal!Next

\* The verdict of the crypto HAL is that of the check, and one comparison gone
\* wrong anywhere in the call does not make a bad signature good, whatever word
\* BOOT_OK is, as long as it is not zero (crypto_monocypher.c:55-79).
THEOREM OneGlitchRejectsAlways == PartsSpec => []OneGlitchRejects
<1> DEFINE I == part = "verify" => HalInv
<1>1. PartsInit => I
  <2> SUFFICES ASSUME PartsInit, part = "verify" PROVE HalInv
    OBVIOUS
  <2>1. Hal!Init
    BY PartInit
  <2> QED
    BY <2>1 DEF Hal!Init, HalInv, HalArgs, HalWords, Hal!VerdictIsCheck, Hal!OneGlitchRejects
<1>2. I /\ [PartsNext]_partsVars => I'
  BY PartStep, HalStep
<1>3. I => OneGlitchRejects
  BY DEF OneGlitchRejects, HalInv
<1> QED
  BY <1>1, <1>2, <1>3, PTL DEF PartsSpec

-----------------------------------------------------------------------------
(* Random numbers and eFuses. *)

\* A call takes enough words for its bytes.
LEMMA WordsAreEnough ==
    ASSUME NEW w \in Nat \ {0}, NEW n \in Nat, NEW a \in Nat, a < n
    PROVE  /\ a \div w \in Nat /\ a \div w < (n + w - 1) \div w
           /\ (n + w - 1) \div w \in Nat
<1>1. n + w - 1 \in Int /\ a \in Int
  OBVIOUS
<1>2. PICK k \in Int, r \in 0 .. w - 1 : a = w * k + r /\ a \div w = k
  BY <1>1, Quotient
<1>3. PICK q \in Int, s \in 0 .. w - 1 : n + w - 1 = w * q + s /\ (n + w - 1) \div w = q
  <2> DEFINE m == n + w - 1
  <2>1. m \in Int
    OBVIOUS
  <2> HIDE DEF m
  <2>2. \E q \in Int, s \in 0 .. w - 1 : m = w * q + s /\ m \div w = q
    BY <2>1, Quotient
  <2> QED
    BY <2>2 DEF m
<1>4. k >= q => w * k >= w * q
  BY <1>2, <1>3, Z3
<1>5. k <= -1 => w * k <= -w
  BY <1>2, Z3
<1>6. k >= 0
  BY <1>2, <1>5
<1>7. k < q
  BY <1>2, <1>3, <1>4
<1> QED
  BY <1>2, <1>3, <1>6, <1>7

\* The register has given every word that was drawn, and no byte twice.
WordsBelow(rng, drawn) ==
    \A d \in drawn : \A i \in DOMAIN d[2] : d[2][i][2] \in Nat /\ d[2][i][2] < rng

BytesOnce(drawn) ==
    \A d, e \in drawn : \A i \in DOMAIN d[2], j \in DOMAIN e[2] :
        d[2][i] = e[2][j] => d = e /\ i = j

NewBytes(rng, len) ==
    [i \in 1 .. len |-> <<"rng", rng + ((i - 1) \div WordSize), (i - 1) % WordSize>>]

RngAfter(rng, len) == rng + ((len + WordSize - 1) \div WordSize)

EfuseInv ==
    /\ v3 \in Nat
    /\ WordsBelow(v3, v5) /\ BytesOnce(v5)
    /\ Efuse!FilledAsTold

EfuseConstants ==
    /\ WordSize \in Nat \ {0} /\ KeyLen \in Nat \ {0}
    /\ MockDslcLen \in Nat \ {0} /\ BufferLens \subseteq Nat

\* What one call draws is new: words that the register gives after all others.
LEMMA DrawnOnce ==
    ASSUME EfuseConstants, NEW len \in BufferLens, NEW k, NEW drawn, NEW rng \in Nat,
           WordsBelow(rng, drawn), BytesOnce(drawn)
    PROVE  LET all == drawn \cup {<<k, NewBytes(rng, len)>>}
           IN  /\ RngAfter(rng, len) \in Nat
               /\ WordsBelow(RngAfter(rng, len), all) /\ BytesOnce(all)
<1> DEFINE words == (len + WordSize - 1) \div WordSize
           bytes == NewBytes(rng, len)
           new == <<k, bytes>>
           all == drawn \cup {new}
<1>1. len \in Nat /\ WordSize \in Nat \ {0}
  BY DEF EfuseConstants
<1>2. words \in Nat
  <2>1. len + WordSize - 1 \in Nat
    BY <1>1
  <2> DEFINE m == len + WordSize - 1
  <2> HIDE DEF m
  <2>2. m \in Nat
    BY <2>1 DEF m
  <2>3. PICK q \in Int, s \in 0 .. WordSize - 1 :
            m = WordSize * q + s /\ m \div WordSize = q
    BY <1>1, <2>2, Quotient
  <2>4. q <= -1 => WordSize * q <= -WordSize
    BY <1>1, Z3
  <2>5. q \in Nat
    BY <1>1, <2>2, <2>3, <2>4
  <2> QED
    BY <2>3, <2>5 DEF m
<1>3. new[2] = bytes /\ DOMAIN bytes = 1 .. len
  BY DEF NewBytes
<1>4. ASSUME NEW i \in 1 .. len
      PROVE  /\ bytes[i][2] \in Nat /\ bytes[i][2] >= rng /\ bytes[i][2] < rng + words
             /\ bytes[i][2] = rng + ((i - 1) \div WordSize)
             /\ bytes[i][3] = (i - 1) % WordSize
  <2>1. i - 1 \in Nat /\ i - 1 < len
    BY <1>1
  <2>2. (i - 1) \div WordSize \in Nat /\ (i - 1) \div WordSize < words
    BY <1>1, <2>1, WordsAreEnough
  <2>3. bytes[i] = <<"rng", rng + ((i - 1) \div WordSize), (i - 1) % WordSize>>
    BY DEF NewBytes
  <2>4. rng + ((i - 1) \div WordSize) \in Nat
    BY <2>2
  <2> HIDE DEF words, bytes
  <2> QED
    BY <1>2, <2>2, <2>3, <2>4
<1>5. ASSUME NEW i \in 1 .. len, NEW j \in 1 .. len, bytes[i] = bytes[j]
      PROVE  i = j
  <2>1. i - 1 \in Int /\ j - 1 \in Int
    BY <1>1
  <2> DEFINE a == i - 1
             b == j - 1
  <2>2. a \in Int /\ b \in Int
    BY <2>1
  <2>3. rng + (a \div WordSize) = rng + (b \div WordSize) /\ a % WordSize = b % WordSize
    BY <1>4, <1>5
  <2> HIDE DEF a, b
  <2>4. PICK q \in Int, s \in 0 .. WordSize - 1 :
            a = WordSize * q + s /\ a \div WordSize = q /\ a % WordSize = s
    BY <1>1, <2>2, Quotient
  <2>5. PICK p \in Int, r \in 0 .. WordSize - 1 :
            b = WordSize * p + r /\ b \div WordSize = p /\ b % WordSize = r
    BY <1>1, <2>2, Quotient
  <2>6. q = p /\ s = r
    BY <2>3, <2>4, <2>5
  <2>7. a = b
    BY <2>4, <2>5, <2>6
  <2> QED
    BY <1>1, <2>7 DEF a, b
<1>6. \A d \in all : d \in drawn \/ d = new
  OBVIOUS
<1>7. ASSUME NEW d \in all, NEW i \in DOMAIN d[2]
      PROVE  d[2][i][2] \in Nat /\ d[2][i][2] < rng + words
  <2>1. CASE d \in drawn
    <3>1. d[2][i][2] \in Nat /\ d[2][i][2] < rng
      BY <2>1 DEF WordsBelow
    <3> HIDE DEF words
    <3> QED
      BY <1>2, <3>1
  <2>2. CASE d = new
    BY <1>3, <1>4, <2>2
  <2> QED
    BY <1>6, <2>1, <2>2
<1>8. ASSUME NEW d \in all, NEW e \in all, NEW i \in DOMAIN d[2], NEW j \in DOMAIN e[2],
             d[2][i] = e[2][j]
      PROVE  d = e /\ i = j
  <2>1. CASE d \in drawn /\ e \in drawn
    BY <1>8, <2>1 DEF BytesOnce
  <2>2. CASE d = new /\ e = new
    BY <1>3, <1>5, <1>8, <2>2
  <2>3. CASE d \in drawn /\ e = new
    <3>1. d[2][i][2] \in Nat /\ d[2][i][2] < rng
      BY <2>3 DEF WordsBelow
    <3>2. e[2][j][2] \in Nat /\ e[2][j][2] >= rng
      BY <1>3, <1>4, <2>3
    <3>3. d[2][i][2] = e[2][j][2]
      BY <1>8
    <3> QED
      BY <3>1, <3>2, <3>3
  <2>4. CASE d = new /\ e \in drawn
    <3>1. d[2][i][2] \in Nat /\ d[2][i][2] >= rng
      BY <1>3, <1>4, <2>4
    <3>2. e[2][j][2] \in Nat /\ e[2][j][2] < rng
      BY <2>4 DEF WordsBelow
    <3>3. d[2][i][2] = e[2][j][2]
      BY <1>8
    <3> QED
      BY <3>1, <3>2, <3>3
  <2> QED
    BY <1>6, <2>1, <2>2, <2>3, <2>4
<1>9. RngAfter(rng, len) = rng + words
  BY DEF RngAfter
<1>10. RngAfter(rng, len) \in Nat
  BY <1>2, <1>9
<1>11. WordsBelow(RngAfter(rng, len), all)
  <2> HIDE DEF words, all
  <2> QED
    BY <1>7, <1>9 DEF WordsBelow
<1>12. BytesOnce(all)
  <2> HIDE DEF all
  <2> QED
    BY <1>8 DEF BytesOnce
<1> QED
  BY <1>10, <1>11, <1>12

LEMMA EfuseStep ==
    ASSUME EfuseInv, [Efuse!Next]_Efuse!vars
    PROVE  EfuseInv'
<1>0. EfuseConstants
  BY EfuseOk DEF Efuse!EfuseAssumption, EfuseConstants
<1>1. CASE Efuse!Random
  <2>1. /\ v1' = v1 /\ v2' = v2
        /\ \E len \in BufferLens :
              IF len = 0
              THEN /\ v4' = [name |-> "random", impl |-> "silicon", given |-> 0, buf |-> <<>>,
                             told |-> 0, ret |-> "INVALID_ARG"]
                   /\ v3' = v3 /\ v5' = v5
              ELSE /\ v4' = [name |-> "random", impl |-> "silicon", given |-> len,
                             buf |-> Efuse!RandomBytes(len), told |-> len, ret |-> "OK"]
                   /\ v3' = v3 + Efuse!Words(len)
                   /\ v5' = v5 \cup {<<v6, Efuse!RandomBytes(len)>>}
    BY <1>1 DEF Efuse!Random, Efuse!Called, Efuse!Empty, Efuse!Unchanged
  <2>2. PICK len \in BufferLens :
              IF len = 0
              THEN /\ v4' = [name |-> "random", impl |-> "silicon", given |-> 0, buf |-> <<>>,
                             told |-> 0, ret |-> "INVALID_ARG"]
                   /\ v3' = v3 /\ v5' = v5
              ELSE /\ v4' = [name |-> "random", impl |-> "silicon", given |-> len,
                             buf |-> Efuse!RandomBytes(len), told |-> len, ret |-> "OK"]
                   /\ v3' = v3 + Efuse!Words(len)
                   /\ v5' = v5 \cup {<<v6, Efuse!RandomBytes(len)>>}
    BY <2>1
  <2>3. CASE len = 0
    BY <2>1, <2>2, <2>3 DEF EfuseInv, WordsBelow, BytesOnce, Efuse!FilledAsTold,
                            Efuse!Empty
  <2>4. CASE len # 0
    <3> DEFINE bytes == NewBytes(v3, len)
    <3>1. Efuse!RandomBytes(len) = bytes
      BY DEF Efuse!RandomBytes, Efuse!RandomWord, NewBytes
    <3>2. v3' = RngAfter(v3, len) /\ v5' = v5 \cup {<<v6, bytes>>}
      BY <2>2, <2>4, <3>1 DEF Efuse!Words, RngAfter
    <3>4. len \in Nat
      BY <1>0 DEF EfuseConstants
    <3>5. Len(bytes) = len
      BY <3>4 DEF NewBytes
    <3>6. v3 \in Nat /\ WordsBelow(v3, v5) /\ BytesOnce(v5)
      BY DEF EfuseInv
    <3>7. v3' \in Nat /\ WordsBelow(v3, v5)' /\ BytesOnce(v5)'
      <4>1. /\ RngAfter(v3, len) \in Nat
            /\ WordsBelow(RngAfter(v3, len), v5 \cup {<<v6, bytes>>})
            /\ BytesOnce(v5 \cup {<<v6, bytes>>})
        BY <1>0, <3>6, DrawnOnce
      <4>2. /\ WordsBelow(v3, v5)' = WordsBelow(v3', v5')
            /\ BytesOnce(v5)' = BytesOnce(v5')
        BY DEF WordsBelow, BytesOnce
      <4> QED
        BY <3>2, <4>1, <4>2
    <3>8. Efuse!FilledAsTold'
      <4>1. /\ v4'.ret = "OK" /\ v4'.name = "random"
            /\ v4'.buf = bytes /\ v4'.told = len /\ v4'.given = len
        BY <2>2, <2>4, <3>1
      <4> QED
        BY <3>4, <3>5, <4>1 DEF Efuse!FilledAsTold
    <3> QED
      BY <3>7, <3>8 DEF EfuseInv
  <2> QED
    BY <2>3, <2>4
\* The other calls draw nothing.
<1>2. ASSUME v2' = v2, v3' = v3, v5' = v5, Efuse!FilledAsTold'
      PROVE  EfuseInv'
  BY <1>2 DEF EfuseInv, WordsBelow, BytesOnce
<1>3. CASE Efuse!ReadPubkey
  <2>1. v2' = v2 /\ v3' = v3 /\ v5' = v5
    BY <1>3 DEF Efuse!ReadPubkey, Efuse!Called, Efuse!Unchanged
  <2>2. PICK impl \in Efuse!Reached, len \in BufferLens, index \in 0 .. 1 :
            IF len # KeyLen
            THEN Efuse!Called("read_pubkey", impl, len, Efuse!Empty, len, "INVALID_ARG")
            ELSE Efuse!Called("read_pubkey", impl, len, Efuse!Key(impl, index), len, "OK")
    BY <1>3 DEF Efuse!ReadPubkey
  <2>3. Len(Efuse!Key(impl, index)) = KeyLen
    BY <1>0 DEF EfuseConstants, Efuse!Key
  <2>4. Efuse!FilledAsTold'
    <3>1. CASE len # KeyLen
      BY <2>2, <3>1 DEF Efuse!Called, Efuse!FilledAsTold
    <3>2. CASE len = KeyLen
      <4>1. /\ v4'.ret = "OK" /\ v4'.name = "read_pubkey"
            /\ v4'.buf = Efuse!Key(impl, index) /\ v4'.told = KeyLen /\ v4'.given = KeyLen
        BY <2>2, <3>2 DEF Efuse!Called
      <4> QED
        BY <1>0, <2>3, <4>1 DEF Efuse!FilledAsTold, EfuseConstants
    <3> QED
      BY <3>1, <3>2
  <2> QED
    BY <1>2, <2>1, <2>4
<1>4. CASE Efuse!ReadDslc
  <2>1. v2' = v2 /\ v3' = v3 /\ v5' = v5
    BY <1>4 DEF Efuse!ReadDslc, Efuse!Called, Efuse!Unchanged
  <2>2. PICK impl \in Efuse!Reached, len \in BufferLens :
            IF len < Efuse!DslcNeeds(impl)
            THEN Efuse!Called("read_dslc", impl, len, Efuse!Empty, len, "INVALID_ARG")
            ELSE Efuse!Called("read_dslc", impl, len, Efuse!Dslc(impl), Efuse!DslcTold(impl, len), "OK")
    BY <1>4 DEF Efuse!ReadDslc
  <2>3. Len(Efuse!Dslc(impl)) = Efuse!DslcNeeds(impl)
    BY <1>0 DEF EfuseConstants, Efuse!Dslc, Efuse!DslcNeeds
  <2>4. Efuse!FilledAsTold'
    <3>1. CASE len < Efuse!DslcNeeds(impl)
      BY <2>2, <3>1 DEF Efuse!Called, Efuse!FilledAsTold
    <3>2. CASE ~(len < Efuse!DslcNeeds(impl))
      <4>1. /\ v4'.ret = "OK" /\ v4'.name = "read_dslc" /\ v4'.given = len
            /\ v4'.buf = Efuse!Dslc(impl) /\ v4'.told = Len(Efuse!Dslc(impl))
        BY <2>2, <3>2 DEF Efuse!Called, Efuse!DslcTold
      <4>2. len \in Nat /\ Efuse!DslcNeeds(impl) \in Nat
        BY <1>0 DEF EfuseConstants, Efuse!DslcNeeds
      <4> QED
        BY <2>3, <3>2, <4>1, <4>2 DEF Efuse!FilledAsTold
    <3> QED
      BY <3>1, <3>2
  <2> QED
    BY <1>2, <2>1, <2>4
<1>5. CASE Efuse!ReadMonotonic
  <2>1. v2' = v2 /\ v3' = v3 /\ v5' = v5
    BY <1>5 DEF Efuse!ReadMonotonic, Efuse!Called, Efuse!Unchanged
  <2>2. Efuse!FilledAsTold'
    BY <1>5 DEF Efuse!ReadMonotonic, Efuse!Called, Efuse!FilledAsTold
  <2> QED
    BY <1>2, <2>1, <2>2
<1>6. CASE Efuse!AdvanceMonotonic
  <2>1. v2' = v2 /\ v3' = v3 /\ v5' = v5
    BY <1>6 DEF Efuse!AdvanceMonotonic, Efuse!Called, Efuse!Unchanged
  <2>2. Efuse!FilledAsTold'
    BY <1>6 DEF Efuse!AdvanceMonotonic, Efuse!Called, Efuse!FilledAsTold
  <2> QED
    BY <1>2, <2>1, <2>2
<1>7. CASE Efuse!WriteDslc
  <2>1. v2' = v2 /\ v3' = v3 /\ v5' = v5
    BY <1>7 DEF Efuse!WriteDslc, Efuse!Called, Efuse!Unchanged
  <2>2. Efuse!FilledAsTold'
    BY <1>7 DEF Efuse!WriteDslc, Efuse!Called, Efuse!FilledAsTold
  <2> QED
    BY <1>2, <2>1, <2>2
<1>8. CASE Efuse!Provision
  <2>1. v2' = v2 /\ v3' = v3 /\ v5' = v5
    BY <1>8 DEF Efuse!Provision, Efuse!Called, Efuse!Unchanged
  <2>2. Efuse!FilledAsTold'
    BY <1>8 DEF Efuse!Provision, Efuse!Called, Efuse!FilledAsTold
  <2> QED
    BY <1>2, <2>1, <2>2
<1>9. CASE UNCHANGED Efuse!vars
  <2>1. v2' = v2 /\ v3' = v3 /\ v4' = v4 /\ v5' = v5
    BY <1>9 DEF Efuse!vars
  <2> QED
    BY <2>1 DEF EfuseInv, WordsBelow, BytesOnce, Efuse!FilledAsTold
<1> QED
  BY <1>1, <1>3, <1>4, <1>5, <1>6, <1>7, <1>8, <1>9 DEF Efuse!Next

\* No random byte is given twice, in one buffer or in two, and a buffer holds
\* exactly the bytes that its caller is told of, for every size of a register
\* and of what is stored (chip_platform.c:126-179, mock_efuse.c:44-67).
THEOREM HalIsTruthfulAlways == PartsSpec => []HalIsTruthful
<1> DEFINE I == part = "efuse" => EfuseInv
<1>1. PartsInit => I
  <2> SUFFICES ASSUME PartsInit, part = "efuse" PROVE EfuseInv
    OBVIOUS
  <2>1. Efuse!Init
    BY PartInit
  <2> QED
    BY <2>1 DEF Efuse!Init, EfuseInv, WordsBelow, BytesOnce, Efuse!FilledAsTold
<1>2. I /\ [PartsNext]_partsVars => I'
  BY PartStep, EfuseStep
<1>3. I => HalIsTruthful
  BY DEF HalIsTruthful, EfuseInv, BytesOnce, Efuse!EntropyUsedOnce
<1> QED
  BY <1>1, <1>2, <1>3, PTL DEF PartsSpec

-----------------------------------------------------------------------------
(* The sandbox. *)

\* What the process knows of its environment, and the write that it is asked for.
SandboxTyping ==
    /\ v1 \in [Sandbox!Cells -> FlashByte]
    /\ v2 \in Sandbox!Environments
    /\ v5.status \in {"LOST", "PENDING", "OK"}
    /\ v5.status = "PENDING" =>
        /\ v4.op = "write" /\ v4.addr \in Sandbox!Cells /\ v4.len \in RequestLens
        /\ v4.buf \in Sandbox!Buffer(v4.len)
        /\ Sandbox!Region(v4.addr, v4.len) \subseteq Sandbox!Cells

\* The faults are those of the environment, and writes are counted.
SandboxFaults ==
    /\ v3.limit = Sandbox!From(v2.limit, 0) /\ v3.addr = Sandbox!From(v2.addr, NoAddr)
    /\ v3.value = Sandbox!From(v2.value, 0) /\ v3.writes = v6
    /\ v3 \in [limit : Nat, writes : Nat, addr : Nat, value : FlashByte \cup {0}]
    /\ v3.limit > 0 => v6 <= v3.limit

SandboxInv ==
    /\ SandboxTyping /\ SandboxFaults
    /\ Sandbox!LossAtLimit /\ Sandbox!RotIsOneByte

\* The environment, as the process reads it.
LEMMA SandboxFields ==
    ASSUME NEW e \in Sandbox!Environments
    PROVE  /\ e.limit = [unset |-> TRUE] \/ \E n \in Limits : e.limit = [unset |-> FALSE, v |-> n]
           /\ e.addr = [unset |-> TRUE] \/ \E n \in RotAddrs : e.addr = [unset |-> FALSE, v |-> n]
           /\ e.value = [unset |-> TRUE] \/ \E n \in RotValues : e.value = [unset |-> FALSE, v |-> n]
BY DEF Sandbox!Environments, Sandbox!Unset, Sandbox!Set

LEMMA SandboxConfig ==
    ASSUME NEW e \in Sandbox!Environments, NEW c, c = Sandbox!FaultInjectInit(e)
    PROVE  /\ c.limit = Sandbox!From(e.limit, 0) /\ c.addr = Sandbox!From(e.addr, NoAddr)
           /\ c.value = Sandbox!From(e.value, 0) /\ c.writes = 0
           /\ c \in [limit : Nat, writes : Nat, addr : Nat, value : FlashByte \cup {0}]
<1>1. c = [limit |-> Sandbox!From(e.limit, 0), writes |-> 0,
           addr |-> Sandbox!From(e.addr, NoAddr), value |-> Sandbox!From(e.value, 0)]
  BY DEF Sandbox!FaultInjectInit, Sandbox!Defaults
<1>2. /\ NoAddr \in Nat /\ Limits \subseteq Nat /\ RotAddrs \subseteq Nat
      /\ RotValues \subseteq FlashByte
  BY SandboxOk DEF Sandbox!FaultAssumption
<1>6. ASSUME NEW x, NEW V, NEW d,
             x = [unset |-> TRUE] \/ \E n \in V : x = [unset |-> FALSE, v |-> n]
      PROVE  Sandbox!From(x, d) \in V \cup {d}
  <2>1. CASE x = [unset |-> TRUE]
    BY <2>1 DEF Sandbox!From
  <2>2. CASE \E n \in V : x = [unset |-> FALSE, v |-> n]
    BY <2>2 DEF Sandbox!From
  <2> QED
    BY <1>6, <2>1, <2>2
<1>3. Sandbox!From(e.limit, 0) \in Nat
  <2>1. Sandbox!From(e.limit, 0) \in Limits \cup {0}
    BY <1>6, SandboxFields
  <2>2. Limits \subseteq Nat /\ 0 \in Nat
    BY <1>2
  <2> QED
    BY <2>1, <2>2, Zenon
<1>4. Sandbox!From(e.addr, NoAddr) \in Nat
  BY <1>2, <1>6, SandboxFields
<1>5. Sandbox!From(e.value, 0) \in FlashByte \cup {0}
  BY <1>2, <1>6, SandboxFields
<1> QED
  BY <1>1, <1>3, <1>4, <1>5

SandboxSizes ==
    /\ TotalSize \in Nat /\ SectorSize \in Nat /\ Erased \in FlashByte
    /\ RequestLens \subseteq Nat \ {0}
    /\ NoAddr \in Nat /\ NoAddr > TotalSize

\* What is in memory behind a read of n bytes, and what the reader gets of it.
LEMMA RotOfOneByte ==
    ASSUME SandboxSizes, SandboxTyping, SandboxFaults,
           NEW addr \in Sandbox!Cells, NEW len \in RequestLens,
           Sandbox!Region(addr, len) \subseteq Sandbox!Cells,
           NEW memory, memory = [i \in 0 .. len |-> IF i < len THEN v1[addr + i] ELSE Erased],
           NEW read, read = Sandbox!ApplyBitrot(addr, len, memory)
    PROVE  /\ read[len] = Erased
           /\ \A i \in 0 .. len - 1 :
                read[i] = IF v2.addr = Sandbox!Set(addr + i)
                          THEN (IF v2.value.unset THEN 0 ELSE v2.value.v) ELSE v1[addr + i]
           /\ v2.addr.unset => \A i \in 0 .. len - 1 : read[i] = v1[addr + i]
<1>1. /\ TotalSize \in Nat /\ len \in Nat \ {0} /\ addr \in Nat /\ addr < TotalSize
      /\ NoAddr \in Nat /\ NoAddr > TotalSize
  BY DEF SandboxSizes, Sandbox!Cells
<1>2. addr + len <= TotalSize
  <2>1. addr + len - 1 \in Sandbox!Region(addr, len)
    BY <1>1 DEF Sandbox!Region
  <2>2. addr + len - 1 \in 0 .. TotalSize - 1
    BY <2>1 DEF Sandbox!Cells
  <2> QED
    BY <1>1, <2>2
<1>3. v3.addr \in Nat
  BY DEF SandboxFaults
<1>4. v2.addr = [unset |-> TRUE] \/ \E n \in RotAddrs : v2.addr = [unset |-> FALSE, v |-> n]
  BY SandboxFields DEF SandboxTyping
<1>5. RotAddrs \subseteq Nat
  BY SandboxOk DEF Sandbox!FaultAssumption
<1>8. memory[len] = Erased /\ \A i \in 0 .. len - 1 : memory[i] = v1[addr + i]
  BY <1>1
<1>6. CASE v2.addr = [unset |-> TRUE]
  <2>1. v3.addr = NoAddr
    BY <1>6 DEF SandboxFaults, Sandbox!From
  <2>2. read = memory
    BY <1>1, <1>2, <2>1 DEF Sandbox!ApplyBitrot, Sandbox!Rots
  <2>3. \A i \in 0 .. len - 1 : ~(v2.addr = Sandbox!Set(addr + i))
    BY <1>6 DEF Sandbox!Set
  <2> QED
    BY <1>8, <2>2, <2>3
<1>7. CASE \E n \in RotAddrs : v2.addr = [unset |-> FALSE, v |-> n]
  <2>1. PICK n \in RotAddrs : v2.addr = [unset |-> FALSE, v |-> n]
    BY <1>7
  <2>2. v3.addr = n /\ n \in Nat /\ ~v2.addr.unset
    BY <1>5, <2>1 DEF SandboxFaults, Sandbox!From
  <2>3. v3.value = IF v2.value.unset THEN 0 ELSE v2.value.v
    BY DEF SandboxFaults, Sandbox!From
  <2>4. ASSUME NEW i \in 0 .. len - 1
        PROVE  v2.addr = Sandbox!Set(addr + i) <=> n = addr + i
    <3>1. v2.addr = Sandbox!Set(addr + i) => v2.addr.v = addr + i
      BY DEF Sandbox!Set
    <3>2. v2.addr.v = n
      BY <2>1
    <3>3. n = addr + i => v2.addr = Sandbox!Set(addr + i)
      BY <2>1 DEF Sandbox!Set
    <3> QED
      BY <3>1, <3>2, <3>3
  <2>5. CASE Sandbox!Rots(addr, len)
    <3>1. n - addr \in 0 .. len - 1
      BY <1>1, <2>2, <2>5 DEF Sandbox!Rots
    <3>2. read = [memory EXCEPT ![n - addr] = v3.value]
      BY <2>2, <2>5 DEF Sandbox!ApplyBitrot
    <3>3. \A i \in 0 .. len : read[i] = IF i = n - addr THEN v3.value ELSE memory[i]
      BY <3>2
    <3>4. read[len] = Erased
      BY <1>1, <3>1, <3>3
    <3>5. ASSUME NEW i \in 0 .. len - 1
          PROVE  read[i] = IF v2.addr = Sandbox!Set(addr + i)
                           THEN v3.value ELSE v1[addr + i]
      <4>1. i = n - addr <=> n = addr + i
        BY <1>1, <2>2
      <4> QED
        BY <1>1, <2>4, <3>3, <4>1
    <3> QED
      BY <2>2, <2>3, <3>4, <3>5
  <2>6. CASE ~Sandbox!Rots(addr, len)
    <3>1. read = memory
      BY <2>6 DEF Sandbox!ApplyBitrot
    <3>2. \A i \in 0 .. len - 1 : n # addr + i
      BY <1>1, <2>2, <2>6 DEF Sandbox!Rots
    <3> QED
      BY <1>8, <2>2, <2>4, <3>1, <3>2
  <2> QED
    BY <2>5, <2>6
<1> QED
  BY <1>4, <1>6, <1>7

LEMMA SandboxStep ==
    ASSUME SandboxInv, [Sandbox!Next]_Sandbox!vars
    PROVE  SandboxInv' /\ Sandbox!StepsOfNorFlash
<1>0. SandboxSizes
  BY SandboxOk DEF SandboxSizes, Sandbox!FaultAssumption
<1>1. SandboxTyping /\ SandboxFaults /\ Sandbox!LossAtLimit /\ Sandbox!RotIsOneByte
  BY DEF SandboxInv
<1>2. CASE Sandbox!BeginWrite
  <2>1. /\ v5.status # "PENDING" /\ v5' = [status |-> "PENDING"]
        /\ v1' = v1 /\ v2' = v2 /\ v3' = v3 /\ v6' = v6
    BY <1>2 DEF Sandbox!BeginWrite
  <2>7. PICK len \in RequestLens, addr \in Sandbox!Cells : \E buf \in Sandbox!Buffer(len) :
            /\ Sandbox!Region(addr, len) \subseteq Sandbox!Cells
            /\ \A c \in Sandbox!Region(addr, len) : v1[c] = Erased
            /\ v4' = [op |-> "write", addr |-> addr, len |-> len, buf |-> buf]
    BY <1>2 DEF Sandbox!BeginWrite
  <2>2. PICK buf \in Sandbox!Buffer(len) :
            /\ Sandbox!Region(addr, len) \subseteq Sandbox!Cells
            /\ \A c \in Sandbox!Region(addr, len) : v1[c] = Erased
            /\ v4' = [op |-> "write", addr |-> addr, len |-> len, buf |-> buf]
    BY <2>7
  <2>3. SandboxTyping'
    BY <1>1, <2>1, <2>2 DEF SandboxTyping
  <2>4. SandboxFaults'
    BY <1>1, <2>1 DEF SandboxFaults
  <2>5. Sandbox!LossAtLimit' /\ Sandbox!RotIsOneByte'
    BY <1>1, <2>1 DEF Sandbox!LossAtLimit, Sandbox!RotIsOneByte
  <2>6. Sandbox!Nor!Begin
    BY <2>1, <2>2 DEF Sandbox!Nor!Begin, Sandbox!Nor!Covered, Sandbox!Nor!Cells,
                      Sandbox!Region, Sandbox!Cells
  <2> QED
    BY <2>3, <2>4, <2>5, <2>6 DEF SandboxInv, Sandbox!StepsOfNorFlash, Sandbox!Nor!Next
<1>3. CASE Sandbox!PointFlash
  <2>1. v5.status = "PENDING" /\ v2' = v2 /\ v4' = v4
    BY <1>3 DEF Sandbox!PointFlash
  <2>2. /\ v4.op = "write" /\ v4.addr \in Sandbox!Cells /\ v4.len \in RequestLens
        /\ v4.buf \in [0 .. v4.len - 1 -> FlashByte \ {Erased}]
        /\ Sandbox!Region(v4.addr, v4.len) \subseteq Sandbox!Cells
    BY <1>1, <2>1 DEF SandboxTyping, Sandbox!Buffer
  <2>3. v4.len \in Nat \ {0} /\ v4.addr \in Nat /\ TotalSize \in Nat
    <3>1. TotalSize \in Nat /\ RequestLens \subseteq Nat \ {0}
      BY <1>0 DEF SandboxSizes
    <3>2. v4.addr \in 0 .. TotalSize - 1
      BY <2>2 DEF Sandbox!Cells
    <3>3. v4.len \in RequestLens
      BY <2>2
    <3>4. v4.len \in Nat \ {0}
      BY <3>1, <3>3, Zenon
    <3>5. v4.addr \in Nat
      BY <3>1, <3>2
    <3> QED
      BY <3>1, <3>4, <3>5
  \* A prefix of the buffer over what was there.
  <2>4. ASSUME NEW n \in 0 .. v4.len
        PROVE  /\ Sandbox!Stored(v4.buf, n) \in [Sandbox!Cells -> FlashByte]
               /\ \A c \in Sandbox!Cells :
                    Sandbox!Stored(v4.buf, n)[c] =
                        IF c \in v4.addr .. v4.addr + n - 1 THEN v4.buf[c - v4.addr] ELSE v1[c]
    <3>1. \A c \in Sandbox!Cells : c \in v4.addr .. v4.addr + n - 1 => c - v4.addr \in 0 .. v4.len - 1
      BY <2>3 DEF Sandbox!Cells
    <3>2. v1 \in [Sandbox!Cells -> FlashByte]
      BY <1>1 DEF SandboxTyping
    <3> QED
      BY <2>2, <3>1, <3>2 DEF Sandbox!Stored, Sandbox!Region
  <2>5. CASE Sandbox!LimitReached
    <3>1. /\ v1' = Sandbox!Stored(v4.buf, v4.len \div 2)
          /\ v5' = [status |-> "LOST"] /\ v3' = v3 /\ v6' = v6
      BY <1>3, <2>5 DEF Sandbox!PointFlash, Sandbox!Torn, Sandbox!PartialSize
    <3>2. v4.len \div 2 \in 0 .. v4.len
      BY <2>3
    <3>3. SandboxTyping'
      BY <1>1, <2>1, <2>4, <3>1, <3>2 DEF SandboxTyping
    <3>4. SandboxFaults'
      BY <1>1, <2>1, <3>1 DEF SandboxFaults
    <3>5. v3.limit > 0 /\ v6 = v3.limit /\ v3.limit \in Nat
      BY <1>1, <2>5 DEF SandboxFaults, Sandbox!LimitReached
    <3>6. ~v2.limit.unset /\ v2.limit.v > 0 /\ v6 = v2.limit.v
      BY <1>1, <3>5 DEF SandboxFaults, Sandbox!From
    <3>7. Sandbox!LossAtLimit' /\ Sandbox!RotIsOneByte'
      <4>1. v6 <= v2.limit.v
        BY <3>5, <3>6
      <4> QED
        BY <2>1, <3>1, <3>6, <4>1 DEF Sandbox!LossAtLimit, Sandbox!RotIsOneByte
    <3>8. Sandbox!Nor!Tear
      <4>1. v1' \in [Sandbox!Nor!Cells -> FlashByte]
        BY <2>4, <3>1, <3>2 DEF Sandbox!Nor!Cells, Sandbox!Cells
      <4>2. \A c \in Sandbox!Nor!Cells \ Sandbox!Nor!Damaged(v4.len \div 2) :
                v1'[c] = IF v4.op = "write" /\ c \in v4.addr .. v4.addr + (v4.len \div 2) - 1
                         THEN v4.buf[c - v4.addr] ELSE v1[c]
        BY <2>2, <2>4, <3>1, <3>2 DEF Sandbox!Nor!Cells, Sandbox!Cells
      <4>3. \E from \in 0 .. v4.len : \A c \in Sandbox!Nor!Cells \ Sandbox!Nor!Damaged(from) :
                v1'[c] = IF v4.op = "write" /\ c \in v4.addr .. v4.addr + from - 1
                         THEN v4.buf[c - v4.addr] ELSE v1[c]
        BY <3>2, <4>2
      <4> QED
        BY <2>1, <3>1, <4>1, <4>3 DEF Sandbox!Nor!Tear
    <3> QED
      BY <3>3, <3>4, <3>7, <3>8 DEF SandboxInv, Sandbox!StepsOfNorFlash, Sandbox!Nor!Next
  <2>6. CASE ~Sandbox!LimitReached
    <3>1. /\ v1' = Sandbox!Stored(v4.buf, v4.len)
          /\ v5' = [status |-> "OK"] /\ v3' = [v3 EXCEPT !.writes = @ + 1] /\ v6' = v6 + 1
      BY <1>3, <2>6 DEF Sandbox!PointFlash
    <3>2. v4.len \in 0 .. v4.len
      BY <2>3
    <3>3. SandboxTyping'
      BY <1>1, <2>1, <2>4, <3>1, <3>2 DEF SandboxTyping
    <3>4. /\ v3'.limit = v3.limit /\ v3'.addr = v3.addr /\ v3'.value = v3.value
          /\ v3'.writes = v3.writes + 1
          /\ v3' \in [limit : Nat, writes : Nat, addr : Nat, value : FlashByte \cup {0}]
      BY <1>1, <3>1 DEF SandboxFaults
    <3>5. v3.limit > 0 => v6 + 1 <= v3.limit
      BY <1>1, <2>6 DEF SandboxFaults, Sandbox!LimitReached
    <3>6. SandboxFaults'
      BY <1>1, <2>1, <3>1, <3>4, <3>5 DEF SandboxFaults
    <3>7. ~v2.limit.unset /\ v2.limit.v > 0 => v6 + 1 <= v2.limit.v
      BY <1>1, <3>5 DEF SandboxFaults, Sandbox!From
    <3>8. Sandbox!LossAtLimit' /\ Sandbox!RotIsOneByte'
      BY <2>1, <2>2, <3>1, <3>7 DEF Sandbox!LossAtLimit, Sandbox!RotIsOneByte
    <3>9. Sandbox!Nor!Commit
      <4>1. v1' = Sandbox!Nor!Effect
        BY <2>2, <3>1 DEF Sandbox!Stored, Sandbox!Region, Sandbox!Cells, Sandbox!Nor!Effect,
                          Sandbox!Nor!Covered, Sandbox!Nor!Cells
      <4> QED
        BY <2>1, <3>1, <4>1 DEF Sandbox!Nor!Commit
    <3> QED
      BY <3>3, <3>6, <3>8, <3>9 DEF SandboxInv, Sandbox!StepsOfNorFlash, Sandbox!Nor!Next
  <2> QED
    BY <2>5, <2>6
<1>4. CASE Sandbox!Read
  <2>1. PICK len \in RequestLens, addr \in Sandbox!Cells :
          LET memory == [i \in 0 .. len |-> IF i < len THEN v1[addr + i] ELSE Sandbox!Behind]
              read == Sandbox!ApplyBitrot(addr, len, memory)
          IN  /\ Sandbox!Region(addr, len) \subseteq Sandbox!Cells
              /\ v4' = [op |-> "read", addr |-> addr, len |-> len]
              /\ v5' = [status |-> "OK", val |-> [i \in 0 .. len - 1 |-> read[i]], behind |-> read[len]]
    BY <1>4 DEF Sandbox!Read
  <2> DEFINE memory == [i \in 0 .. len |-> IF i < len THEN v1[addr + i] ELSE Erased]
             read == Sandbox!ApplyBitrot(addr, len, memory)
  <2>2. /\ Sandbox!Region(addr, len) \subseteq Sandbox!Cells
        /\ v4' = [op |-> "read", addr |-> addr, len |-> len]
        /\ v5' = [status |-> "OK", val |-> [i \in 0 .. len - 1 |-> read[i]], behind |-> read[len]]
    BY <2>1 DEF Sandbox!Behind
  <2>3. /\ v5.status # "PENDING" /\ v1' = v1 /\ v2' = v2 /\ v3' = v3 /\ v6' = v6
    BY <1>4 DEF Sandbox!Read
  <2>4. /\ read[len] = Erased
        /\ \A i \in 0 .. len - 1 :
             read[i] = IF v2.addr = Sandbox!Set(addr + i)
                       THEN (IF v2.value.unset THEN 0 ELSE v2.value.v) ELSE v1[addr + i]
        /\ v2.addr.unset => \A i \in 0 .. len - 1 : read[i] = v1[addr + i]
    BY <1>0, <1>1, <2>2, RotOfOneByte
  <2> HIDE DEF memory, read
  <2>5. SandboxTyping' /\ SandboxFaults'
    BY <1>1, <2>2, <2>3 DEF SandboxTyping, SandboxFaults
  <2>6. Sandbox!LossAtLimit'
    BY <1>1, <2>2, <2>3 DEF Sandbox!LossAtLimit
  <2>7. Sandbox!RotIsOneByte'
    BY <2>2, <2>3, <2>4 DEF Sandbox!RotIsOneByte, Sandbox!Behind, Sandbox!Set
  <2>8. v2.addr.unset => Sandbox!Nor!Observe
    <3>1. v4'.op = "read" /\ v4'.addr = addr /\ v4'.len = len /\ v5'.status = "OK"
          /\ v5'.val = [i \in 0 .. len - 1 |-> read[i]]
      BY <2>2
    <3>2. v2.addr.unset => v5'.val = [i \in 0 .. v4'.len - 1 |-> v1[v4'.addr + i]]
      BY <2>4, <3>1
    <3> QED
      BY <2>3, <3>1, <3>2 DEF Sandbox!Nor!Observe
  <2> QED
    BY <2>5, <2>6, <2>7, <2>8 DEF SandboxInv, Sandbox!StepsOfNorFlash, Sandbox!Nor!Next
<1>5. CASE Sandbox!Restart
  <2>1. /\ v5.status = "LOST" /\ v2' \in Sandbox!Environments
        /\ v3' = Sandbox!FaultInjectInit(v2')
        /\ v4' = [op |-> "none"] /\ v6' = 0 /\ v1' = v1 /\ v5' = v5
    BY <1>5 DEF Sandbox!Restart
  <2>2. /\ v3'.limit = Sandbox!From(v2'.limit, 0) /\ v3'.addr = Sandbox!From(v2'.addr, NoAddr)
        /\ v3'.value = Sandbox!From(v2'.value, 0) /\ v3'.writes = 0
        /\ v3' \in [limit : Nat, writes : Nat, addr : Nat, value : FlashByte \cup {0}]
    BY <2>1, SandboxConfig
  <2>3. SandboxTyping'
    BY <1>1, <2>1 DEF SandboxTyping
  <2>4. SandboxFaults'
    BY <2>1, <2>2 DEF SandboxFaults, Sandbox!From
  <2>5. Sandbox!LossAtLimit' /\ Sandbox!RotIsOneByte'
    BY <2>1, <2>2, <2>4 DEF Sandbox!LossAtLimit, Sandbox!RotIsOneByte, SandboxFaults, Sandbox!From
  <2>6. Sandbox!Nor!Observe
    BY <2>1 DEF Sandbox!Nor!Observe
  <2> QED
    BY <2>3, <2>4, <2>5, <2>6 DEF SandboxInv, Sandbox!StepsOfNorFlash, Sandbox!Nor!Next
<1>6. CASE UNCHANGED Sandbox!vars
  <2>1. v1' = v1 /\ v2' = v2 /\ v3' = v3 /\ v4' = v4 /\ v5' = v5 /\ v6' = v6
    BY <1>6 DEF Sandbox!vars
  <2> QED
    BY <1>1, <2>1 DEF SandboxInv, SandboxTyping, SandboxFaults, Sandbox!LossAtLimit,
                      Sandbox!RotIsOneByte, Sandbox!StepsOfNorFlash
<1> QED
  BY <1>2, <1>3, <1>4, <1>5, <1>6 DEF Sandbox!Next

LEMMA SandboxStart ==
    ASSUME Sandbox!Init
    PROVE  SandboxInv /\ Sandbox!Nor!Init
<1>1. /\ v1 = [c \in Sandbox!Cells |-> Erased]
      /\ v2 \in Sandbox!Environments /\ v3 = Sandbox!FaultInjectInit(v2)
      /\ v4 = [op |-> "none"] /\ v5 = [status |-> "LOST"] /\ v6 = 0
  BY DEF Sandbox!Init
<1>2. /\ v3.limit = Sandbox!From(v2.limit, 0) /\ v3.addr = Sandbox!From(v2.addr, NoAddr)
      /\ v3.value = Sandbox!From(v2.value, 0) /\ v3.writes = 0
      /\ v3 \in [limit : Nat, writes : Nat, addr : Nat, value : FlashByte \cup {0}]
  BY <1>1, SandboxConfig
<1>3. Erased \in FlashByte
  BY SandboxOk DEF Sandbox!FaultAssumption
<1>4. SandboxTyping /\ SandboxFaults
  BY <1>1, <1>2, <1>3 DEF SandboxTyping, SandboxFaults
<1>5. Sandbox!LossAtLimit
  BY <1>1, <1>2 DEF Sandbox!LossAtLimit, Sandbox!From
<1>6. Sandbox!RotIsOneByte
  BY <1>1 DEF Sandbox!RotIsOneByte
<1>7. Sandbox!Nor!Init
  BY <1>1, <1>3 DEF Sandbox!Nor!Init, Sandbox!Nor!Cells, Sandbox!Cells
<1> QED
  BY <1>4, <1>5, <1>6, <1>7 DEF SandboxInv

\* The sandbox loses power at the write it is asked to, in every run, and rots
\* the one byte it is asked to, for every size of the flash and every number of
\* runs (chip_fault_inject.c:24-48 and 101-124).
THEOREM FaultsAreAsAskedAlways == PartsSpec => []FaultsAreAsAsked
<1> DEFINE I == part = "sandbox" => SandboxInv
<1>1. PartsInit => I
  BY PartInit, SandboxStart
<1>2. I /\ [PartsNext]_partsVars => I'
  BY PartStep, SandboxStep
<1>3. I => FaultsAreAsAsked
  BY DEF FaultsAreAsAsked, SandboxInv
<1> QED
  BY <1>1, <1>2, <1>3, PTL DEF PartsSpec

\* Without rot, its flash is one that a caller of the real driver must reckon
\* with: every step is one of NorFlash (chip_fault_inject.c:104-110).
THEOREM SandboxRefinesNorFlash == PartsSpec => SandboxImplementsNorFlash
<1> DEFINE I == part = "sandbox" => SandboxInv
           A == part = "sandbox" => Sandbox!StepsOfNorFlash
           B == part = "sandbox" => Sandbox!Nor!Init
<1>1. PartsInit => I /\ B
  BY PartInit, SandboxStart
<1>2. I /\ [PartsNext]_partsVars => I' /\ [A]_partsVars
  BY PartStep, SandboxStep
<1>3. PartsSpec => B /\ [][A]_partsVars
  <2> HIDE DEF I, A, B
  <2> QED
    BY <1>1, <1>2, PTL DEF PartsSpec
<1> QED
  BY <1>3 DEF SandboxImplementsNorFlash

-----------------------------------------------------------------------------
(* The pull request gate. *)

GateNames(n) == [i \in 1 .. n |-> v1[i][2]]

GateTyping ==
    /\ v1 \in Seq(Gate!Changes) /\ Len(v1) >= 1
    /\ v2 \in {"fetch", "listed", "loop", "done"}
    /\ v3 \in 0 .. Len(v1)
    /\ v4 \in {"no", "network", "http"}
    /\ v5 \in Seq(Paths \cup {Gate!Body})
    /\ v6 \in 0 .. Len(v5)
    /\ v7 \in BOOLEAN
    /\ v8 \in Seq(Nat \X {"generated", "workflow", "outside"})

\* What has been listed: all of it, or with an error's body at the end.
GateListed ==
    /\ v2 = "fetch" => v4 = "no" /\ v5 = GateNames(v3)
    /\ v2 # "fetch" /\ v4 = "no" => v5 = GateNames(Len(v1))
    /\ v4 = "http" => v2 # "fetch" /\ Len(v5) >= 1 /\ v5[Len(v5)] = Gate!Body

\* What the loop has said of the lines it has read.
GateSaid ==
    /\ v7 <=> \E i \in 1 .. v6 : ~Gate!IsAllowed(v5[i])
    /\ \A j \in DOMAIN v8 : v8[j][1] \in 1 .. v6 /\ ~Gate!IsAllowed(v5[v8[j][1]])
                            /\ v8[j][2] = Gate!Why(v5[v8[j][1]])
    /\ \A i \in 1 .. v6 : ~Gate!IsAllowed(v5[i]) => \E j \in DOMAIN v8 : v8[j][1] = i
    /\ \A j, k \in DOMAIN v8 : v8[j][1] = v8[k][1] => j = k

GateEnd ==
    /\ v2 \in {"fetch", "listed"} => v6 = 0
    /\ v2 = "done" => \/ v5 = <<>> /\ v9 = "warning"
                      \/ v6 = Len(v5) /\ v9 = IF v7 THEN "1" ELSE "0"

GateInv == GateTyping /\ GateListed /\ GateSaid /\ GateEnd

LEMMA GateStart ==
    ASSUME Gate!Init
    PROVE  GateInv
<1>1. PICK n \in 1 .. MaxChanges : v1 \in [1 .. n -> Gate!Changes]
  BY DEF Gate!Init
<1>2. MaxChanges \in Nat
  BY GateOk DEF Gate!GateAssumption
<1>3. v1 \in Seq(Gate!Changes) /\ Len(v1) >= 1
  BY <1>1, <1>2
<1>4. v2 = "fetch" /\ v3 = 0 /\ v4 = "no" /\ v5 = <<>> /\ v6 = 0 /\ v7 = FALSE /\ v8 = <<>>
  BY DEF Gate!Init
<1>5. GateTyping
  <2>1. Len(v1) \in Nat
    BY <1>3
  <2>2. v3 \in 0 .. Len(v1) /\ v6 \in 0 .. Len(v5)
    BY <1>4, <2>1
  <2>3. v7 \in BOOLEAN
    BY <1>4, Zenon
  <2>4. /\ v5 \in Seq(Paths \cup {Gate!Body})
        /\ v8 \in Seq(Nat \X {"generated", "workflow", "outside"})
    BY <1>4
  <2> QED
    BY <1>3, <1>4, <2>2, <2>3, <2>4 DEF GateTyping
<1>6. GateListed
  BY <1>4 DEF GateListed, GateNames
<1>7. GateSaid /\ GateEnd
  BY <1>4 DEF GateSaid, GateEnd
<1> QED
  BY <1>5, <1>6, <1>7 DEF GateInv

\* The listing does not touch what the loop has said.
LEMMA GateSaidKept ==
    ASSUME GateSaid, v6 = 0, UNCHANGED <<v6, v7, v8>>
    PROVE  GateSaid'
BY DEF GateSaid

\* The new paths of m changes, and those of the page behind them.
LEMMA NextPage ==
    ASSUME NEW c, NEW m \in Nat, NEW k \in Nat, m <= k
    PROVE  [i \in 1 .. m |-> c[i][2]] \o [i \in 1 .. k - m |-> c[m + i][2]]
                = [i \in 1 .. k |-> c[i][2]]
<1> DEFINE X == {c[i][2] : i \in 1 .. k}
           s == [i \in 1 .. m |-> c[i][2]]
           t == [i \in 1 .. k - m |-> c[m + i][2]]
           r == [i \in 1 .. k |-> c[i][2]]
<1>1. k - m \in Nat
  OBVIOUS
<1>2. s \in Seq(X) /\ Len(s) = m /\ \A i \in 1 .. m : s[i] = c[i][2]
  OBVIOUS
<1>3. t \in Seq(X) /\ Len(t) = k - m /\ \A i \in 1 .. k - m : t[i] = c[m + i][2]
  <2>1. \A i \in 1 .. k - m : m + i \in 1 .. k
    OBVIOUS
  <2> QED
    BY <1>1, <2>1
<1>4. r \in Seq(X) /\ Len(r) = k /\ \A i \in 1 .. k : r[i] = c[i][2]
  OBVIOUS
<1> HIDE DEF X, s, t, r
<1>5. s \o t \in Seq(X) /\ Len(s \o t) = k
  <2>1. s \o t \in Seq(X) /\ Len(s \o t) = Len(s) + Len(t)
    BY <1>2, <1>3, ConcatProperties
  <2>2. m + (k - m) = k
    OBVIOUS
  <2> QED
    BY <1>2, <1>3, <2>1, <2>2
<1>6. ASSUME NEW i \in 1 .. k
      PROVE  (s \o t)[i] = r[i]
  <2>1. CASE i <= m
    <3>1. (s \o t)[i] = s[i]
      BY <1>2, <1>3, <2>1, ConcatProperties
    <3> QED
      BY <1>2, <1>4, <2>1, <3>1
  <2>2. CASE i > m
    <3>1. (s \o t)[i] = t[i - m] /\ i - m \in 1 .. k - m /\ m + (i - m) = i
      BY <1>2, <1>3, <2>2, ConcatProperties
    <3> QED
      BY <1>3, <1>4, <3>1
  <2>3. i <= m \/ i > m
    OBVIOUS
  <2> QED
    BY <2>1, <2>2, <2>3
<1>7. s \o t = r
  BY <1>4, <1>5, <1>6, SeqEqual
<1> QED
  BY <1>7 DEF s, t, r

LEMMA GateStep ==
    ASSUME GateInv, [Gate!Next]_Gate!vars
    PROVE  GateInv'
<1>1. GateTyping /\ GateListed /\ GateSaid /\ GateEnd
  BY DEF GateInv
<1>2. CASE Gate!Page
  <2>1. /\ v2 = "fetch" /\ v3' = Gate!PageEnd
        /\ v5' = v5 \o [i \in 1 .. Gate!PageEnd - v3 |-> v1[v3 + i][2]]
        /\ v2' = IF v3' = Len(v1) THEN "listed" ELSE "fetch"
        /\ v1' = v1 /\ v4' = v4 /\ v6' = v6 /\ v7' = v7 /\ v8' = v8
    BY <1>2 DEF Gate!Page
  <2>2. PageLen \in Nat \ {0}
    BY GateOk DEF Gate!GateAssumption
  <2>3. /\ v3 \in Nat /\ v3' \in Nat /\ Len(v1) \in Nat
        /\ v3 <= v3' /\ v3' <= Len(v1) /\ v3' - v3 \in Nat
    BY <1>1, <2>1, <2>2 DEF GateTyping, Gate!PageEnd
  <2>4. v4 = "no" /\ v5 = GateNames(v3) /\ v6 = 0
    BY <1>1, <2>1 DEF GateListed, GateEnd
  <2>5. \A i \in 1 .. Len(v1) : v1[i][2] \in Paths
    <3>1. \A c \in Gate!Changes : c[2] \in Paths
      BY GateOk DEF Gate!GateAssumption, Gate!Changes
    <3> QED
      BY <1>1, <3>1 DEF GateTyping
  <2>9. v5' = GateNames(v3')
    <3> DEFINE changes == v1
               m == v3
               k == v3'
    <3>1. m \in Nat /\ k \in Nat /\ m <= k
      BY <2>3
    <3> HIDE DEF changes, m, k
    <3>2. [i \in 1 .. m |-> changes[i][2]] \o [i \in 1 .. k - m |-> changes[m + i][2]]
            = [i \in 1 .. k |-> changes[i][2]]
      BY <3>1, NextPage
    <3>3. v5' = v5 \o [i \in 1 .. k - m |-> changes[m + i][2]]
      BY <2>1 DEF changes, m, k
    <3>4. v5 = [i \in 1 .. m |-> changes[i][2]] /\ GateNames(v3') = [i \in 1 .. k |-> changes[i][2]]
      BY <2>4 DEF GateNames, changes, m, k
    <3> QED
      BY <3>2, <3>3, <3>4
  <2>8. v5' \in Seq(Paths) /\ Len(v5') = v3'
    <3> DEFINE n == v3'
    <3>1. n \in Nat /\ v5' = [i \in 1 .. n |-> v1[i][2]] /\ \A i \in 1 .. n : v1[i][2] \in Paths
      BY <2>3, <2>5, <2>9 DEF GateNames
    <3> HIDE DEF n
    <3>2. v5' \in Seq(Paths) /\ Len(v5') = n
      BY <3>1
    <3> QED
      BY <3>2 DEF n
  <2>10. GateNames(v3)' = GateNames(v3')
    BY <2>1 DEF GateNames
  <2>11. GateNames(Len(v1))' = GateNames(Len(v1))
    BY <2>1 DEF GateNames
  <2>12. GateListed'
    BY <2>1, <2>4, <2>9, <2>10, <2>11 DEF GateListed
  <2>13. GateTyping'
    <3>1. v3' \in 0 .. Len(v1) /\ v6 \in 0 .. Len(v5')
      BY <2>3, <2>4, <2>8
    <3>2. v5' \in Seq(Paths \cup {Gate!Body})
      BY <2>8
    <3> QED
      BY <1>1, <2>1, <3>1, <3>2 DEF GateTyping
  <2>14. GateSaid' /\ GateEnd'
    BY <1>1, <2>1, <2>4, GateSaidKept DEF GateEnd
  <2> QED
    BY <2>12, <2>13, <2>14 DEF GateInv
<1>3. CASE Gate!PageFails
  <2>1. /\ v2 = "fetch" /\ v2' = "listed" /\ v4' \in Errors
        /\ v5' = IF v4' = "http" THEN Append(v5, Gate!Body) ELSE v5
        /\ v1' = v1 /\ v3' = v3 /\ v6' = v6 /\ v7' = v7 /\ v8' = v8
    BY <1>3 DEF Gate!PageFails, Gate!PrintedAfter
  <2>2. v4' \in {"network", "http"}
    BY <2>1, GateOk DEF Gate!GateAssumption
  <2>3. v6 = 0
    BY <1>1, <2>1 DEF GateEnd
  <2>4. /\ v5' \in Seq(Paths \cup {Gate!Body}) /\ Len(v5') \in Nat
        /\ v4' = "http" => Len(v5') >= 1 /\ v5'[Len(v5')] = Gate!Body
    BY <1>1, <2>1 DEF GateTyping
  <2>5. GateTyping'
    BY <1>1, <2>1, <2>2, <2>3, <2>4 DEF GateTyping
  <2>6. GateListed'
    <3>1. Gate!Body' = Gate!Body
      BY DEF Gate!Body
    <3> QED
      BY <2>1, <2>2, <2>4, <3>1 DEF GateListed
  <2>7. GateSaid' /\ GateEnd'
    BY <1>1, <2>1, <2>3, GateSaidKept DEF GateEnd
  <2> QED
    BY <2>5, <2>6, <2>7 DEF GateInv
<1>4. ASSUME v1' = v1, v3' = v3, v4' = v4, v5' = v5, v2 # "fetch", v2' \in {"listed", "loop", "done"}
      PROVE  GateListed'
  BY <1>1, <1>4 DEF GateListed, GateNames
<1>5. CASE Gate!Exit0IfEmpty
  <2>1. /\ v2 = "listed"
        /\ IF v5 = <<>> THEN v2' = "done" /\ v9' = "warning" ELSE v2' = "loop" /\ v9' = v9
        /\ v1' = v1 /\ v3' = v3 /\ v4' = v4 /\ v5' = v5 /\ v6' = v6 /\ v7' = v7 /\ v8' = v8
    BY <1>5 DEF Gate!Exit0IfEmpty, Gate!Done
  <2>2. GateTyping' /\ GateListed'
    BY <1>1, <1>4, <2>1 DEF GateTyping
  <2>3. GateSaid' /\ GateEnd'
    BY <1>1, <2>1, GateSaidKept DEF GateEnd
  <2> QED
    BY <2>2, <2>3 DEF GateInv
<1>6. CASE Gate!CheckFile
  <2> DEFINE file == v5[v6 + 1]
             match == Gate!IsAllowed(file)
  <2>1. /\ v2 = "loop" /\ v6 < Len(v5) /\ v6' = v6 + 1
        /\ v1' = v1 /\ v2' = v2 /\ v3' = v3 /\ v4' = v4 /\ v5' = v5
    BY <1>6 DEF Gate!CheckFile
  <2>2. (\E dir \in Gate!AllowedDirs : Gate!Inside(dir, file)) <=> match
    BY DEF Gate!Inside, Gate!IsAllowed
  <2>3. /\ v7' <=> v7 \/ ~match
        /\ v8' = IF match THEN v8 ELSE Append(v8, <<v6 + 1, Gate!Why(file)>>)
    BY <1>6, <2>1, <2>2 DEF Gate!CheckFile, Gate!Forbidden
  <2>4. Gate!Why(file) \in {"generated", "workflow", "outside"}
    BY DEF Gate!Why
  <2>5. v6 \in Nat /\ v6 + 1 \in 1 .. Len(v5) /\ Len(v5) \in Nat
    BY <1>1, <2>1 DEF GateTyping
  <2> HIDE DEF match
  <2>6. v7' \in BOOLEAN
    BY <1>6 DEF Gate!CheckFile, Gate!Forbidden
  <2>7. v8 \in Seq(Nat \X {"generated", "workflow", "outside"})
    BY <1>1 DEF GateTyping
  <2>8. v8' \in Seq(Nat \X {"generated", "workflow", "outside"})
    BY <2>3, <2>4, <2>5, <2>7
  <2>9. GateTyping'
    BY <1>1, <2>1, <2>5, <2>6, <2>8 DEF GateTyping
  <2>10. GateListed'
    BY <1>4, <2>1
  <2>11. GateEnd'
    BY <2>1 DEF GateEnd
  <2>12. \A i \in 1 .. v6' : i \in 1 .. v6 \/ i = v6 + 1
    BY <2>1, <2>5
  <2>13. v7' <=> \E i \in 1 .. v6' : ~Gate!IsAllowed(v5'[i])
    <3>1. v7 <=> \E i \in 1 .. v6 : ~Gate!IsAllowed(v5[i])
      BY <1>1 DEF GateSaid
    <3>2. \A i \in 1 .. v6 : i \in 1 .. v6'
      BY <2>1, <2>5
    <3>3. v6 + 1 \in 1 .. v6'
      BY <2>1, <2>5
    <3> QED
      BY <2>1, <2>3, <2>12, <3>1, <3>2, <3>3, Zenon DEF match
  <2>14. CASE match
    <3>1. v8' = v8
      BY <2>3, <2>14
    <3> QED
      BY <1>1, <2>1, <2>5, <2>9, <2>10, <2>11, <2>12, <2>13, <2>14, <3>1
         DEF GateInv, GateSaid, match
  <2>15. CASE ~match
    <3> DEFINE n == Len(v8)
               new == <<v6 + 1, Gate!Why(file)>>
    <3>1. v8' = Append(v8, new) /\ n \in Nat
      BY <2>3, <2>7, <2>15
    <3>2. /\ DOMAIN v8 = 1 .. n /\ DOMAIN v8' = 1 .. n + 1
          /\ \A j \in 1 .. n : v8'[j] = v8[j]
          /\ v8'[n + 1] = new
      BY <2>7, <3>1
    <3>3. new[1] = v6 + 1 /\ new[2] = Gate!Why(file)
      OBVIOUS
    <3>4. \A j \in 1 .. n + 1 : j \in 1 .. n \/ j = n + 1
      BY <3>1
    <3>5. n + 1 \in 1 .. n + 1 /\ \A j \in 1 .. n : j \in 1 .. n + 1
      BY <3>1
    <3> HIDE DEF n, new
    <3>6. ASSUME NEW j \in DOMAIN v8'
          PROVE  /\ v8'[j][1] \in 1 .. v6' /\ ~Gate!IsAllowed(v5'[v8'[j][1]])
                 /\ v8'[j][2] = Gate!Why(v5'[v8'[j][1]])
      <4>1. CASE j \in 1 .. n
        <5>1. /\ v8'[j] = v8[j] /\ v8[j][1] \in 1 .. v6 /\ ~Gate!IsAllowed(v5[v8[j][1]])
              /\ v8[j][2] = Gate!Why(v5[v8[j][1]])
          BY <1>1, <3>2, <4>1 DEF GateSaid
        <5>2. v8[j][1] \in 1 .. v6'
          BY <2>1, <2>5, <5>1
        <5> QED
          BY <2>1, <5>1, <5>2
      <4>2. CASE j = n + 1
        <5>1. v6 + 1 \in 1 .. v6'
          BY <2>1, <2>5
        <5> QED
          BY <2>1, <2>15, <3>2, <3>3, <4>2, <5>1 DEF match
      <4> QED
        BY <3>2, <3>4, <4>1, <4>2
    <3>7. ASSUME NEW i \in 1 .. v6', ~Gate!IsAllowed(v5'[i])
          PROVE  \E j \in DOMAIN v8' : v8'[j][1] = i
      <4>1. CASE i \in 1 .. v6
        <5>1. PICK j \in DOMAIN v8 : v8[j][1] = i
          BY <1>1, <2>1, <3>7, <4>1 DEF GateSaid
        <5> QED
          BY <3>2, <3>5, <5>1
      <4>2. CASE i = v6 + 1
        BY <3>2, <3>3, <3>5, <4>2
      <4> QED
        BY <2>12, <4>1, <4>2
    <3>8. ASSUME NEW j \in DOMAIN v8', NEW k \in DOMAIN v8', v8'[j][1] = v8'[k][1]
          PROVE  j = k
      <4>1. \A l \in 1 .. n : v8'[l][1] # v6 + 1
        <5>1. \A l \in 1 .. n : v8'[l] = v8[l] /\ v8[l][1] \in 1 .. v6
          BY <1>1, <3>2 DEF GateSaid
        <5> QED
          BY <2>5, <5>1
      <4>2. CASE j \in 1 .. n /\ k \in 1 .. n
        BY <1>1, <3>2, <3>8, <4>2 DEF GateSaid
      <4>3. CASE j = n + 1 \/ k = n + 1
        BY <3>2, <3>3, <3>4, <3>8, <4>1, <4>3
      <4> QED
        BY <3>2, <3>4, <4>2, <4>3
    <3>9. GateSaid'
      BY <2>13, <3>6, <3>7, <3>8 DEF GateSaid
    <3> QED
      BY <2>9, <2>10, <2>11, <3>9 DEF GateInv
  <2> QED
    BY <2>14, <2>15
<1>7. CASE Gate!Finish
  <2>1. /\ v2 = "loop" /\ v6 = Len(v5) /\ v2' = "done" /\ v9' = IF v7 THEN "1" ELSE "0"
        /\ v1' = v1 /\ v3' = v3 /\ v4' = v4 /\ v5' = v5 /\ v6' = v6 /\ v7' = v7 /\ v8' = v8
    BY <1>7 DEF Gate!Finish, Gate!Done
  <2>2. GateTyping' /\ GateListed'
    BY <1>1, <1>4, <2>1 DEF GateTyping
  <2>3. GateSaid' /\ GateEnd'
    BY <1>1, <2>1 DEF GateSaid, GateEnd
  <2> QED
    BY <2>2, <2>3 DEF GateInv
<1>8. CASE UNCHANGED Gate!vars
  BY <1>1, <1>8 DEF Gate!vars, GateInv, GateTyping, GateListed, GateNames, GateSaid, GateEnd
<1> QED
  BY <1>2, <1>3, <1>5, <1>6, <1>7, <1>8 DEF Gate!Next

LEMMA GateVerdict ==
    ASSUME GateInv
    PROVE  Gate!VerdictIsOfPaths /\ Gate!ErrorBodyFails
<1>1. GateTyping /\ GateListed /\ GateSaid /\ GateEnd
  BY DEF GateInv
<1>2. Gate!ErrorBodyFails
  <2> SUFFICES ASSUME v2 = "done", v4 = "http" PROVE v9 = "1"
    BY DEF Gate!ErrorBodyFails
  <2>1. Len(v5) \in Nat /\ Len(v5) >= 1 /\ v5[Len(v5)] = Gate!Body
    BY <1>1 DEF GateListed, GateTyping
  <2>2. v5 # <<>>
    BY <2>1
  <2>3. v6 = Len(v5) /\ v9 = IF v7 THEN "1" ELSE "0"
    BY <1>1, <2>2 DEF GateEnd
  <2>4. ~Gate!IsAllowed(Gate!Body)
    BY DEF Gate!IsAllowed, Gate!Body
  <2>5. Len(v5) \in 1 .. v6
    BY <2>1, <2>3
  <2>6. v7
    BY <1>1, <2>1, <2>4, <2>5 DEF GateSaid
  <2> QED
    BY <2>3, <2>6
<1>3. Gate!VerdictIsOfPaths
  <2> SUFFICES ASSUME v2 = "done", v4 = "no", Gate!NoneMovedIn
               PROVE  LET out == {i \in DOMAIN v1 : ~Gate!IsAllowed(v1[i][2])}
                      IN  /\ v9 = IF out = {} THEN "0" ELSE "1"
                          /\ {v8[j][1] : j \in DOMAIN v8} = out
                          /\ \A j, k \in DOMAIN v8 : v8[j][1] = v8[k][1] => j = k
                          /\ \A j \in DOMAIN v8 :
                                LET path == v1[v8[j][1]][2]
                                IN  v8[j][2] = "workflow" <=> path[1] = ".github" /\ Len(path) > 1
    BY DEF Gate!VerdictIsOfPaths
  <2> DEFINE out == {i \in DOMAIN v1 : ~Gate!IsAllowed(v1[i][2])}
  <2>1. Len(v1) \in Nat /\ Len(v1) >= 1 /\ DOMAIN v1 = 1 .. Len(v1)
    BY <1>1 DEF GateTyping
  <2>2. v5 = [i \in 1 .. Len(v1) |-> v1[i][2]]
    BY <1>1 DEF GateListed, GateNames
  <2>3. Len(v5) = Len(v1) /\ v5 # <<>> /\ \A i \in 1 .. Len(v1) : v5[i] = v1[i][2]
    <3> DEFINE n == Len(v1)
    <3>1. n \in Nat /\ n >= 1 /\ v5 = [i \in 1 .. n |-> v1[i][2]]
      BY <2>1, <2>2
    <3> HIDE DEF n
    <3>2. Len(v5) = n /\ v5 # <<>> /\ \A i \in 1 .. n : v5[i] = v1[i][2]
      BY <3>1
    <3> QED
      BY <3>2 DEF n
  <2>4. v6 = Len(v1) /\ v9 = IF v7 THEN "1" ELSE "0"
    BY <1>1, <2>3 DEF GateEnd
  <2>5. \A i \in 1 .. Len(v1) : i \in out <=> ~Gate!IsAllowed(v5[i])
    BY <2>1, <2>3
  <2>6. v7 <=> out # {}
    <3>1. v7 <=> \E i \in 1 .. Len(v1) : ~Gate!IsAllowed(v5[i])
      BY <1>1, <2>4 DEF GateSaid
    <3>2. \A i \in out : i \in 1 .. Len(v1)
      BY <2>1
    <3> HIDE DEF out
    <3> QED
      BY <2>5, <3>1, <3>2
  <2>7. {v8[j][1] : j \in DOMAIN v8} = out
    <3>1. \A j \in DOMAIN v8 : v8[j][1] \in out
      BY <1>1, <2>4, <2>5 DEF GateSaid
    <3>2. \A i \in out : \E j \in DOMAIN v8 : v8[j][1] = i
      BY <1>1, <2>1, <2>4, <2>5 DEF GateSaid
    <3> HIDE DEF out
    <3> QED
      BY <3>1, <3>2
  <2>8. ASSUME NEW j \in DOMAIN v8
        PROVE  LET path == v1[v8[j][1]][2]
               IN  v8[j][2] = "workflow" <=> path[1] = ".github" /\ Len(path) > 1
    <3> DEFINE path == v1[v8[j][1]][2]
    <3>1. v8[j][2] = Gate!Why(path)
      BY <1>1, <2>3, <2>4 DEF GateSaid
    <3>2. path \in {<<"registry.json">>, <<"compatibility_matrix.json">>} => Len(path) = 1
      OBVIOUS
    <3> HIDE DEF path
    <3>3. Gate!Why(path) = "workflow" <=> path[1] = ".github" /\ Len(path) > 1
      BY <3>2 DEF Gate!Why, Gate!Inside
    <3> QED
      BY <3>1, <3>3 DEF path
  <2>9. \A j, k \in DOMAIN v8 : v8[j][1] = v8[k][1] => j = k
    BY <1>1 DEF GateSaid
  <2>10. v9 = IF out = {} THEN "0" ELSE "1"
    BY <2>4, <2>6
  <2> HIDE DEF out
  <2> QED
    BY <2>7, <2>8, <2>9, <2>10 DEF out
<1> QED
  BY <1>2, <1>3

\* Whatever paths there are and however they are paged, a list fetched to its end
\* with no file moved in fails exactly for a path outside; an error's body fails
\* (pr-gate.yml:50-94).
THEOREM GateJudgesPathsAlways == PartsSpec => []GateJudgesPaths
<1> DEFINE I == part = "gate" => GateInv
<1>1. PartsInit => I
  BY PartInit, GateStart
<1>2. I /\ [PartsNext]_partsVars => I'
  BY PartStep, GateStep
<1>3. I => GateJudgesPaths
  BY GateVerdict DEF GateJudgesPaths
<1> QED
  BY <1>1, <1>2, <1>3, PTL DEF PartsSpec

-----------------------------------------------------------------------------
(* SHA-256.                                                                  *)
(*                                                                           *)
(* The streaming hash keeps the promise of HashPromise for every block size, *)
(* every way a message is cut into pieces and every message whose length in  *)
(* bits fits the length field.  The invariant says what the context holds    *)
(* between two bytes: whole blocks in `absorbed`, `bitlen` their length in   *)
(* bits, and message bytes up to datalen in the buffer; beyond datalen it    *)
(* may hold anything.  Only finishing needs more: that the two ways of       *)
(* closing the last block are the one padding of the standard.               *)

Alphabet == 0 .. Base - 1

ShaInv ==
    /\ TypeOK
    /\ \E k \in Nat : Len(absorbed) = k * Block
    /\ bitlen = 8 * Len(absorbed)
    /\ \A j \in 1 .. datalen : data[j] \in Bytes
    /\ Len(absorbed) + datalen + Len(todo) <= MaxBytes
    /\ at # "update" => todo = <<>>

\* The constants as arithmetic needs them.
LEMMA ShaConstants ==
    /\ Block \in Nat /\ Block > 0 /\ LenBytes \in Nat /\ LenBytes > 0
    /\ LenBytes < Block
    /\ Base \in Nat /\ Base >= 2 /\ Bytes \subseteq Alphabet /\ 0 \in Alphabet
    /\ MaxBytes \in Nat
    /\ Word \in Nat /\ 8 * MaxBytes < Word
    /\ Marker \in Alphabet
<1>1. Word \in Nat
  BY HashAssumption, PowerAssumption DEF Word
<1>2. Marker \in Alphabet
  BY HashAssumption DEF Marker, Alphabet
<1> QED
  BY <1>1, <1>2, HashAssumption DEF Word, Alphabet

\* Zeros(n) is a sequence of n zeros.
LEMMA ZerosAre ==
    ASSUME NEW n \in Nat
    PROVE  /\ Zeros(n) \in Seq(Alphabet) /\ Len(Zeros(n)) = n
           /\ \A i \in 1 .. n : Zeros(n)[i] = 0
  BY ShaConstants DEF Zeros

\* The buffer is a sequence of Block bytes.
LEMMA DataIsSeq ==
    ASSUME TypeOK
    PROVE  data \in Seq(Alphabet) /\ Len(data) = Block
  BY ShaConstants, SeqDef DEF TypeOK

\* The message so far, byte by byte.
LEMMA MessageBytes ==
    ASSUME ShaInv
    PROVE  /\ Message \in Seq(Bytes)
           /\ Len(Message) = Len(absorbed) + datalen + Len(todo)
           /\ \A i \in 1 .. Len(absorbed) + datalen + Len(todo) : Message[i] =
                 IF i <= Len(absorbed) THEN absorbed[i]
                 ELSE IF i <= Len(absorbed) + datalen THEN data[i - Len(absorbed)]
                 ELSE todo[i - Len(absorbed) - datalen]
<1>1. absorbed \in Seq(Bytes) /\ todo \in Seq(Bytes) /\ datalen \in Nat
  BY ShaConstants DEF ShaInv, TypeOK
<1>2. /\ SubSeq(data, 1, datalen) \in Seq(Bytes)
      /\ Len(SubSeq(data, 1, datalen)) = datalen
      /\ \A i \in 1 .. datalen : SubSeq(data, 1, datalen)[i] = data[i]
  BY <1>1, SubSeqProperties DEF ShaInv
<1>3. /\ absorbed \o SubSeq(data, 1, datalen) \in Seq(Bytes)
      /\ Len(absorbed \o SubSeq(data, 1, datalen)) = Len(absorbed) + datalen
      /\ \A i \in 1 .. Len(absorbed) + datalen :
            (absorbed \o SubSeq(data, 1, datalen))[i] =
               IF i <= Len(absorbed) THEN absorbed[i]
               ELSE SubSeq(data, 1, datalen)[i - Len(absorbed)]
  BY <1>1, <1>2, ConcatProperties
<1>4. Len(absorbed) \in Nat /\ Len(todo) \in Nat
  BY <1>1
<1> DEFINE head == absorbed \o SubSeq(data, 1, datalen)
<1>5. \A i \in 1 .. Len(absorbed) + datalen : head[i] =
        IF i <= Len(absorbed) THEN absorbed[i] ELSE data[i - Len(absorbed)]
  BY <1>1, <1>2, <1>3, <1>4
<1>6. Message = head \o todo /\ head \in Seq(Bytes) /\ Len(head) = Len(absorbed) + datalen
  BY <1>3 DEF Message
<1> HIDE DEF head
<1>7. /\ Message \in Seq(Bytes)
      /\ Len(Message) = Len(absorbed) + datalen + Len(todo)
      /\ \A i \in 1 .. Len(absorbed) + datalen + Len(todo) : Message[i] =
            IF i <= Len(absorbed) + datalen THEN head[i]
            ELSE todo[i - (Len(absorbed) + datalen)]
  BY <1>1, <1>4, <1>6, ConcatProperties
<1> QED
  BY <1>1, <1>4, <1>5, <1>7

-----------------------------------------------------------------------------
(* The invariant. *)

LEMMA ShaInvInit == Init => ShaInv
<1> SUFFICES ASSUME Init PROVE ShaInv
  OBVIOUS
<1>1. TypeOK
  BY ShaConstants DEF Init, TypeOK, Zeros
<1>2. 0 = 0 * Block
  BY ShaConstants
<1> QED
  BY <1>1, <1>2, ShaConstants DEF Init, ShaInv

\* The two outcomes of taking a byte.
LEMMA TakeByteFacts ==
    ASSUME ShaInv, TakeByte
    PROVE  /\ Head(todo) \in Bytes /\ todo' \in Seq(Bytes)
           /\ Len(todo') = Len(todo) - 1 /\ Len(todo) >= 1
           /\ \A i \in 1 .. Len(todo') : todo'[i] = todo[i + 1]
           /\ Head(todo) = todo[1]
           /\ data' \in [1 .. Block -> Bytes \cup {0}]
           /\ data'[datalen + 1] = Head(todo)
           /\ \A j \in 1 .. datalen : data'[j] = data[j]
           /\ \A j \in 1 .. datalen + 1 : data'[j] \in Bytes
<1>1. todo \in Seq(Bytes) /\ todo # <<>> /\ todo' = Tail(todo)
  BY DEF ShaInv, TypeOK, TakeByte
<1>2. /\ Head(todo) \in Bytes /\ todo' \in Seq(Bytes)
      /\ Len(todo') = Len(todo) - 1 /\ Len(todo) >= 1
      /\ \A i \in 1 .. Len(todo') : todo'[i] = todo[i + 1]
      /\ Head(todo) = todo[1]
  BY <1>1, HeadTailProperties
<1>3. datalen \in 0 .. Block - 1 /\ data \in [1 .. Block -> Bytes \cup {0}]
  BY DEF ShaInv, TypeOK
<1>4. data' = [data EXCEPT ![datalen + 1] = Head(todo)]
  BY DEF TakeByte
<1>5. /\ data' \in [1 .. Block -> Bytes \cup {0}]
      /\ data'[datalen + 1] = Head(todo)
      /\ \A j \in 1 .. datalen : data'[j] = data[j]
  BY <1>2, <1>3, <1>4, ShaConstants
<1>6. \A j \in 1 .. datalen + 1 : data'[j] \in Bytes
  <2> SUFFICES ASSUME NEW j \in 1 .. datalen + 1 PROVE data'[j] \in Bytes
    OBVIOUS
  <2>1. CASE j = datalen + 1
    BY <1>2, <1>5, <2>1
  <2>2. CASE j # datalen + 1
    <3>1. j \in 1 .. datalen
      BY <1>3, <2>2
    <3> QED
      BY <1>5, <3>1 DEF ShaInv
  <2> QED
    BY <2>1, <2>2
<1> QED
  BY <1>2, <1>5, <1>6

\* A full buffer is a sequence of message bytes, and absorbing it appends it.
LEMMA FullBlock ==
    ASSUME ShaInv, TakeByte, datalen + 1 = Block
    PROVE  /\ data' \in Seq(Bytes) /\ Len(data') = Block
           /\ absorbed' = absorbed \o data' /\ absorbed' \in Seq(Bytes)
           /\ Len(absorbed') = Len(absorbed) + Block
           /\ \A i \in 1 .. Len(absorbed) + Block : absorbed'[i] =
                 IF i <= Len(absorbed) THEN absorbed[i] ELSE data'[i - Len(absorbed)]
           /\ datalen' = 0 /\ bitlen' = (bitlen + 8 * Block) % Word
<1>1. data' \in [1 .. Block -> Bytes]
  BY TakeByteFacts
<1>2. data' \in Seq(Bytes) /\ Len(data') = Block
  BY <1>1, ShaConstants, SeqDef
<1>3. absorbed' = absorbed \o data' /\ datalen' = 0 /\ bitlen' = (bitlen + 8 * Block) % Word
  BY DEF TakeByte, Compress
<1>4. absorbed \in Seq(Bytes)
  BY DEF ShaInv, TypeOK
<1> DEFINE b == data'
<1>5. b \in Seq(Bytes) /\ Len(b) = Block
  BY <1>2
<1> HIDE DEF b
<1>6. /\ absorbed \o b \in Seq(Bytes)
      /\ Len(absorbed \o b) = Len(absorbed) + Len(b)
      /\ \A i \in 1 .. Len(absorbed) + Len(b) : (absorbed \o b)[i] =
            IF i <= Len(absorbed) THEN absorbed[i] ELSE b[i - Len(absorbed)]
  BY <1>4, <1>5, ConcatProperties
<1>7. absorbed' = absorbed \o b
  BY <1>3 DEF b
<1>8. /\ absorbed' \in Seq(Bytes)
      /\ Len(absorbed') = Len(absorbed) + Block
      /\ \A i \in 1 .. Len(absorbed) + Block : absorbed'[i] =
            IF i <= Len(absorbed) THEN absorbed[i] ELSE b[i - Len(absorbed)]
  BY <1>5, <1>6, <1>7
<1> QED
  BY <1>2, <1>3, <1>8 DEF b

LEMMA NextMultiple ==
    ASSUME NEW k \in Nat, NEW b \in Nat
    PROVE  (k + 1) * b = k * b + b
  OBVIOUS

LEMMA TakeByteKeepsShaInv == ShaInv /\ TakeByte => ShaInv'
<1> SUFFICES ASSUME ShaInv, TakeByte PROVE ShaInv'
  OBVIOUS
<1>1. /\ Len(absorbed) \in Nat /\ datalen \in Nat /\ datalen < Block
      /\ Len(todo) \in Nat
      /\ bitlen = 8 * Len(absorbed) /\ absorbed \in Seq(Bytes)
      /\ Len(absorbed) + datalen + Len(todo) <= MaxBytes
  BY ShaConstants DEF ShaInv, TypeOK
<1>2. UNCHANGED <<at, answer, digest>> /\ at = "update"
  BY DEF TakeByte
<1>3. /\ todo' \in Seq(Bytes) /\ data' \in [1 .. Block -> Bytes \cup {0}]
      /\ Len(todo') = Len(todo) - 1 /\ Len(todo) >= 1
  BY TakeByteFacts
<1>4. CASE datalen + 1 = Block
  <2>1. PICK k \in Nat : Len(absorbed) = k * Block
    BY DEF ShaInv
  <2>2. /\ Len(absorbed') = Len(absorbed) + Block /\ absorbed' \in Seq(Bytes)
        /\ datalen' = 0 /\ bitlen' = (bitlen + 8 * Block) % Word
    BY <1>4, FullBlock
  <2>3. Len(absorbed') = (k + 1) * Block /\ k + 1 \in Nat
    BY <2>1, <2>2, NextMultiple, ShaConstants
  <2>4. Len(absorbed') + Len(todo') <= MaxBytes
    BY <1>1, <1>3, <1>4, <2>2, ShaConstants
  <2>5. Len(absorbed') \in Nat /\ Len(todo') \in Nat
    BY <1>1, <1>3, <2>2, ShaConstants
  <2>6. bitlen + 8 * Block = 8 * Len(absorbed') /\ 8 * Len(absorbed') < Word
    BY <1>1, <2>2, <2>4, <2>5, ShaConstants
  <2>7. (bitlen + 8 * Block) % Word = 8 * Len(absorbed')
    BY <2>5, <2>6, ShaConstants
  <2>8. TypeOK'
    BY <1>2, <1>3, <2>2, <2>5, <2>6, <2>7, ShaConstants DEF ShaInv, TypeOK
  <2> QED
    BY <1>2, <2>2, <2>3, <2>4, <2>5, <2>7, <2>8, ShaConstants DEF ShaInv
<1>5. CASE datalen + 1 # Block
  <2>1. datalen' = datalen + 1 /\ UNCHANGED <<absorbed, bitlen>>
    BY <1>5 DEF TakeByte
  <2>2. datalen' \in 0 .. Block - 1
    BY <1>1, <1>5, <2>1, ShaConstants
  <2>3. TypeOK'
    BY <1>2, <1>3, <2>1, <2>2 DEF ShaInv, TypeOK
  <2>4. Len(absorbed') + datalen' + Len(todo') <= MaxBytes
    BY <1>1, <1>3, <2>1
  <2>5. \A j \in 1 .. datalen' : data'[j] \in Bytes
    BY <2>1, TakeByteFacts
  <2> QED
    BY <1>2, <2>1, <2>3, <2>4, <2>5 DEF ShaInv
<1> QED
  BY <1>4, <1>5

\* What goes out is a sequence of bytes.
LEMMA TailedBytes ==
    ASSUME TypeOK
    PROVE  Tailed \in Seq(Alphabet) /\ Len(Tailed) =
              IF RoomForLength THEN Block ELSE 2 * Block
<1>1. \A block \in [1 .. Block -> Alphabet] :
        /\ WithLength(block) \in Seq(Alphabet) /\ Len(WithLength(block)) = Block
  <2> SUFFICES ASSUME NEW block \in [1 .. Block -> Alphabet]
               PROVE  /\ WithLength(block) \in Seq(Alphabet)
                      /\ Len(WithLength(block)) = Block
    OBVIOUS
  <2>1. TotalBits \in Int
    BY ShaConstants DEF TypeOK, TotalBits
  <2>2. \A j \in 1 .. Block : j > Block - LenBytes =>
          (TotalBits \div Base ^ (Block - j)) % Base \in Alphabet
    <3> SUFFICES ASSUME NEW j \in 1 .. Block, j > Block - LenBytes
                 PROVE  (TotalBits \div Base ^ (Block - j)) % Base \in Alphabet
      OBVIOUS
    <3>1. Block - j \in 0 .. LenBytes
      BY ShaConstants
    <3>2. PICK w \in Nat \ {0} : w = Base ^ (Block - j)
      BY <3>1, PowerAssumption
    <3>3. TotalBits \div w \in Int
      BY <2>1, <3>2
    <3> QED
      BY <3>2, <3>3, ShaConstants DEF Alphabet
  <2>3. WithLength(block) \in [1 .. Block -> Alphabet]
    BY <2>2 DEF WithLength
  <2> QED
    BY <2>3, SeqDef, ShaConstants
<1>2. \A upto : Marked(upto) \in [1 .. Block -> Alphabet]
  BY ShaConstants DEF Marked, TypeOK
<1>3. Zeros(Block) \in [1 .. Block -> Alphabet]
  BY ShaConstants DEF Zeros
<1>4. CASE RoomForLength
  BY <1>1, <1>2, <1>4 DEF Tailed
<1>5. CASE ~RoomForLength
  <2>1. Marked(Block) \in Seq(Alphabet) /\ Len(Marked(Block)) = Block
    BY <1>2, SeqDef, ShaConstants
  <2> DEFINE one == Marked(Block)
             two == WithLength(Zeros(Block))
  <2>2. one \in Seq(Alphabet) /\ Len(one) = Block /\ two \in Seq(Alphabet) /\ Len(two) = Block
    BY <1>1, <1>3, <2>1
  <2>3. Tailed = one \o two
    BY <1>5 DEF Tailed
  <2> HIDE DEF one, two
  <2>4. one \o two \in Seq(Alphabet) /\ Len(one \o two) = Len(one) + Len(two)
    BY <2>2, ConcatProperties
  <2> QED
    BY <1>5, <2>2, <2>3, <2>4, ShaConstants
<1> QED
  BY <1>4, <1>5

LEMMA ShaInvStep == ShaInv /\ [Next]_vars => ShaInv'
<1> SUFFICES ASSUME ShaInv, [Next]_vars PROVE ShaInv'
  OBVIOUS
<1>1. CASE Refuse
  BY <1>1 DEF Refuse, ctx, ShaInv, TypeOK
<1>2. CASE HashInit
  <2>1. 0 = 0 * Block /\ Len(<<>>) = 0 /\ <<>> \in Seq(Bytes)
    BY ShaConstants
  <2>2. at # "update" /\ todo = <<>>
    BY <1>2 DEF HashInit, ShaInv
  <2>3. TypeOK'
    BY <1>2, <2>1, ShaConstants DEF HashInit, ShaInv, TypeOK
  <2> QED
    BY <1>2, <2>1, <2>2, <2>3, ShaConstants DEF HashInit, ShaInv
<1>3. CASE HashUpdate
  <2>1. PICK p \in Pieces : Len(absorbed) + datalen + Len(p) <= MaxBytes /\ todo' = p
    BY <1>3 DEF HashUpdate
  <2>2. p \in Seq(Bytes)
    BY HashAssumption
  <2>3. UNCHANGED <<absorbed, data, datalen, bitlen, digest>>
    BY <1>3 DEF HashUpdate, ctx
  <2>4. TypeOK'
    BY <1>3, <2>1, <2>2, <2>3 DEF HashUpdate, ShaInv, TypeOK
  <2> QED
    BY <1>3, <2>1, <2>3, <2>4 DEF HashUpdate, ShaInv
<1>4. CASE TakeByte
  BY <1>4, TakeByteKeepsShaInv
<1>5. CASE UpdateDone
  BY <1>5 DEF UpdateDone, ctx, ShaInv, TypeOK
<1>6. CASE HashFinish
  <2>1. 0 = 0 * Block /\ Len(<<>>) = 0 /\ <<>> \in Seq(Bytes)
    BY ShaConstants
  <2>2. TypeOK /\ at = "open" /\ todo = <<>>
    BY <1>6 DEF HashFinish, ShaInv
  <2>3. Tailed \in Seq(Alphabet)
    BY <2>2, TailedBytes
  <2>4. absorbed \in Seq(Alphabet)
    BY <2>2, ShaConstants, SeqMonotonic DEF TypeOK
  <2>5. digest' \in Seq(Alphabet)
    BY <1>6, <2>3, <2>4, ConcatProperties DEF HashFinish
  <2>6. data' \in [1 .. Block -> Bytes \cup {0}]
    BY <1>6 DEF HashFinish, Zeros
  <2>7. TypeOK'
    BY <1>6, <2>1, <2>2, <2>5, <2>6, ShaConstants DEF HashFinish, TypeOK, Alphabet
  <2>8. absorbed' = <<>> /\ datalen' = 0 /\ bitlen' = 0 /\ todo' = <<>>
    BY <1>6, <2>2 DEF HashFinish
  <2> QED
    BY <2>1, <2>7, <2>8, ShaConstants DEF ShaInv
<1>7. CASE UNCHANGED vars
  BY <1>7 DEF vars, ctx, ShaInv, TypeOK
<1> QED
  BY <1>1, <1>2, <1>3, <1>4, <1>5, <1>6, <1>7 DEF Next

\* What the context holds between two bytes of a message.
THEOREM ShaInvCorrect == Spec => []ShaInv
<1>1. Init => ShaInv
  BY ShaInvInit
<1>2. ShaInv /\ [Next]_vars => ShaInv'
  BY ShaInvStep
<1> QED
  BY <1>1, <1>2, PTL DEF Spec

\* The hash context keeps its type for every block size and message.
THEOREM HashTypeCorrect == Spec => []TypeOK
<1>1. ShaInv => TypeOK
  BY DEF ShaInv
<1> QED
  BY <1>1, ShaInvCorrect, PTL

\* The length counts the bytes of the blocks that were compressed
\* (sha256.c:101-113).
THEOREM LengthIsCounted == Spec => []LengthCounts
<1>1. ASSUME ShaInv
      PROVE  LengthCounts
  <2>1. PICK k \in Nat : Len(absorbed) = k * Block
    BY <1>1 DEF ShaInv
  <2>2. Block \in Nat \ {0} /\ k \in Int /\ 0 \in 0 .. Block - 1
    BY ShaConstants
  <2>3. Len(absorbed) = Block * k + 0 /\ Len(absorbed) \in Int
    BY <2>1, <2>2, Z3
  <2>4. Len(absorbed) % Block = 0
    BY <2>2, <2>3, Remainder
  <2> QED
    BY <1>1, <2>4 DEF ShaInv, LengthCounts
<1> QED
  BY <1>1, ShaInvCorrect, PTL

-----------------------------------------------------------------------------
(* The padding. *)

\* Two multiples of b less than b apart are the same.
LEMMA CloseMultiples ==
    ASSUME NEW r \in Nat, NEW s \in Nat, NEW b \in Nat \ {0},
           s * b < r * b + b, r * b < s * b + b
    PROVE  s = r
<1>1. ASSUME NEW x \in Nat, NEW y \in Nat, x >= y + 1 PROVE x * b >= y * b + b
  <2>1. PICK d \in Nat : x = (y + 1) + d
    BY <1>1
  <2>2. x * b = (y + 1) * b + d * b /\ d * b >= 0
    BY <2>1
  <2> QED
    BY <2>2, NextMultiple
<1>2. ~(s >= r + 1) /\ ~(r >= s + 1)
  BY <1>1
<1> QED
  BY <1>2

LEMMA MultipleHasNoRest ==
    ASSUME NEW r \in Nat, NEW b \in Nat \ {0}
    PROVE  (r * b) % b = 0
<1>1. PICK x \in Nat : x = r * b
  OBVIOUS
<1>2. x = (b * (x \div b)) + (x % b) /\ (x \div b) \in Nat /\ (x % b) \in 0 .. b - 1
  OBVIOUS
<1>3. PICK q \in Nat : q = x \div b
  BY <1>2
<1>4. PICK d \in 0 .. b - 1 : d = x % b
  BY <1>2
<1>5. r * b = q * b + d
  BY <1>1, <1>2, <1>3, <1>4
<1>6. q = r
  BY <1>4, <1>5, CloseMultiples
<1> QED
  BY <1>1, <1>4, <1>5, <1>6

\* The padding is the one number of zeros that completes the last block.
LEMMA PadLengthIs ==
    ASSUME NEW len \in Nat, NEW k \in 0 .. Block - 1, NEW r \in Nat,
           len + 1 + k + LenBytes = r * Block
    PROVE  Promise!PadLength(len) = k
<1>1. (len + 1 + k + LenBytes) % Block = 0
  BY MultipleHasNoRest, ShaConstants
<1>2. ASSUME NEW j \in 0 .. Block - 1, (len + 1 + j + LenBytes) % Block = 0
      PROVE  j = k
  <2>1. PICK x \in Nat : x = len + 1 + j + LenBytes
    BY ShaConstants
  <2>2. PICK s \in Nat : x = s * Block
    <3>1. x = (Block * (x \div Block)) + (x % Block) /\ (x \div Block) \in Nat
      BY <2>1, ShaConstants
    <3>2. PICK s \in Nat : s = x \div Block
      BY <3>1
    <3>3. x = (Block * s) + 0
      BY <1>2, <2>1, <3>1, <3>2
    <3> QED
      BY <3>2, <3>3, ShaConstants
  <2>3. s = r
    BY <2>1, <2>2, CloseMultiples, ShaConstants
  <2> QED
    BY <2>1, <2>2, <2>3, ShaConstants
<1> QED
  BY <1>1, <1>2 DEF Promise!PadLength

\* A padded message, byte by byte.
LEMMA PaddedBytes ==
    ASSUME NEW m \in Seq(Alphabet), NEW k \in Nat,
           Promise!PadLength(Len(m)) = k
    PROVE  LET p == Promise!Padded(m)
               n == Len(m)
           IN  /\ p \in Seq(Alphabet)
               /\ Len(p) = n + 1 + k + LenBytes
               /\ \A i \in 1 .. n + 1 + k + LenBytes : p[i] =
                     IF i <= n THEN m[i]
                     ELSE IF i = n + 1 THEN Marker
                     ELSE IF i <= n + 1 + k THEN 0
                     ELSE ((8 * n) \div Base ^ (LenBytes - (i - (n + 1 + k)))) % Base
<1> DEFINE n == Len(m)
           z == Zeros(k)
           e == Promise!BigEndian(8 * n, LenBytes)
           a == m \o <<Marker>>
           b == a \o z
<1>1. n \in Nat
  OBVIOUS
<1>2. Promise!Padded(m) = b \o e
  BY DEF Promise!Padded, Promise!Zeros, Zeros, Marker
<1>3. z \in Seq(Alphabet) /\ Len(z) = k /\ \A i \in 1 .. k : z[i] = 0
  BY ZerosAre
<1>4. /\ e \in Seq(Alphabet) /\ Len(e) = LenBytes
      /\ \A j \in 1 .. LenBytes : e[j] = ((8 * n) \div Base ^ (LenBytes - j)) % Base
  <2>1. \A j \in 1 .. LenBytes : ((8 * n) \div Base ^ (LenBytes - j)) % Base \in Alphabet
    <3> SUFFICES ASSUME NEW j \in 1 .. LenBytes
                 PROVE  ((8 * n) \div Base ^ (LenBytes - j)) % Base \in Alphabet
      OBVIOUS
    <3>1. LenBytes - j \in 0 .. LenBytes
      BY ShaConstants
    <3>2. PICK w \in Nat \ {0} : w = Base ^ (LenBytes - j)
      BY <3>1, PowerAssumption
    <3>3. (8 * n) \div w \in Int
      BY <1>1, <3>2
    <3> QED
      BY <3>2, <3>3, ShaConstants DEF Alphabet
  <2>2. e = [j \in 1 .. LenBytes |-> ((8 * n) \div Base ^ (LenBytes - j)) % Base]
    BY DEF Promise!BigEndian
  <2>3. e \in [1 .. LenBytes -> Alphabet]
    BY <2>1, <2>2
  <2> HIDE DEF e
  <2> QED
    BY <2>2, <2>3, SeqDef, ShaConstants
<1> HIDE DEF z, e
<1>5. /\ a \in Seq(Alphabet) /\ Len(a) = n + 1
      /\ \A i \in 1 .. n + 1 : a[i] = IF i <= n THEN m[i] ELSE Marker
  <2>1. <<Marker>> \in Seq(Alphabet) /\ Len(<<Marker>>) = 1 /\ <<Marker>>[1] = Marker
    BY ShaConstants
  <2>2. /\ a \in Seq(Alphabet) /\ Len(a) = Len(m) + Len(<<Marker>>)
        /\ \A i \in 1 .. Len(m) + Len(<<Marker>>) : a[i] =
              IF i <= Len(m) THEN m[i] ELSE <<Marker>>[i - Len(m)]
    BY <2>1, ConcatProperties
  <2> QED
    BY <1>1, <2>1, <2>2
<1> HIDE DEF a
<1>6. /\ b \in Seq(Alphabet) /\ Len(b) = Len(a) + Len(z)
      /\ \A i \in 1 .. Len(a) + Len(z) : b[i] =
            IF i <= Len(a) THEN a[i] ELSE z[i - Len(a)]
  BY <1>3, <1>5, ConcatProperties
<1> HIDE DEF b
<1>7. /\ b \in Seq(Alphabet) /\ Len(b) = n + 1 + k
      /\ \A i \in 1 .. n + 1 + k : b[i] =
            IF i <= n THEN m[i] ELSE IF i = n + 1 THEN Marker ELSE 0
  BY <1>1, <1>3, <1>5, <1>6
<1>8. /\ b \o e \in Seq(Alphabet) /\ Len(b \o e) = Len(b) + Len(e)
      /\ \A i \in 1 .. Len(b) + Len(e) : (b \o e)[i] =
            IF i <= Len(b) THEN b[i] ELSE e[i - Len(b)]
  BY <1>4, <1>7, ConcatProperties
<1>9. \A i \in 1 .. n + 1 + k + LenBytes : i > n + 1 + k =>
        (b \o e)[i] = ((8 * n) \div Base ^ (LenBytes - (i - (n + 1 + k)))) % Base
  <2> SUFFICES ASSUME NEW i \in 1 .. n + 1 + k + LenBytes, i > n + 1 + k
               PROVE  (b \o e)[i] =
                        ((8 * n) \div Base ^ (LenBytes - (i - (n + 1 + k)))) % Base
    OBVIOUS
  <2> HIDE DEF n
  <2>1. PICK j \in Int : j = i - (n + 1 + k) /\ j \in 1 .. LenBytes
    BY <1>1, ShaConstants
  <2>2. (b \o e)[i] = e[j]
    BY <1>1, <1>4, <1>7, <1>8, <2>1, ShaConstants
  <2> QED
    BY <1>4, <2>1, <2>2
<1>10. \A i \in 1 .. n + 1 + k : (b \o e)[i] = b[i]
  BY <1>1, <1>4, <1>7, <1>8, ShaConstants
<1> QED
  BY <1>1, <1>2, <1>4, <1>7, <1>8, <1>9, <1>10, ShaConstants

\* What sha256_final compresses, byte by byte: n is the length of the message
\* and j the place in the last one or two blocks.
LEMMA TailedAt ==
    ASSUME ShaInv, NEW n \in Nat, n = Len(absorbed) + datalen
    PROVE  /\ TotalBits = 8 * n
           /\ RoomForLength => \A j \in 1 .. Block : Tailed[j] =
                 IF j > Block - LenBytes
                 THEN ((8 * n) \div Base ^ (Block - j)) % Base
                 ELSE IF j = datalen + 1 THEN Marker
                 ELSE IF j > datalen THEN 0 ELSE data[j]
           /\ ~RoomForLength => \A j \in 1 .. 2 * Block : Tailed[j] =
                 IF j > 2 * Block - LenBytes
                 THEN ((8 * n) \div Base ^ (2 * Block - j)) % Base
                 ELSE IF j = datalen + 1 THEN Marker
                 ELSE IF j > datalen THEN 0 ELSE data[j]
<1>1. /\ Len(absorbed) \in Nat /\ datalen \in Nat /\ datalen < Block
      /\ Len(todo) \in Nat /\ bitlen = 8 * Len(absorbed)
      /\ Len(absorbed) + datalen + Len(todo) <= MaxBytes
      /\ data \in [1 .. Block -> Bytes \cup {0}]
  BY ShaConstants DEF ShaInv, TypeOK
<1>2. TotalBits = 8 * n
  <2>1. bitlen + 8 * datalen = 8 * n /\ 8 * n < Word
    BY <1>1, ShaConstants
  <2> QED
    BY <2>1, ShaConstants DEF TotalBits
<1>3. CASE RoomForLength
  <2>1. datalen < Block - LenBytes
    BY <1>3 DEF RoomForLength
  <2>2. Tailed = WithLength(Marked(Block - LenBytes))
    BY <1>3 DEF Tailed
  <2>3. \A j \in 1 .. Block : Marked(Block - LenBytes)[j] =
          IF j = datalen + 1 THEN Marker
          ELSE IF j \in datalen + 2 .. Block - LenBytes THEN 0 ELSE data[j]
    BY DEF Marked
  <2>4. \A j \in 1 .. Block : Tailed[j] =
          IF j > Block - LenBytes
          THEN ((8 * n) \div Base ^ (Block - j)) % Base
          ELSE Marked(Block - LenBytes)[j]
    BY <1>2, <2>2 DEF WithLength
  <2> QED
    BY <1>1, <1>2, <1>3, <2>1, <2>3, <2>4, ShaConstants
<1>4. CASE ~RoomForLength
  <2> DEFINE one == Marked(Block)
             two == WithLength(Zeros(Block))
  <2>1. /\ one \in Seq(Alphabet) /\ Len(one) = Block
        /\ \A j \in 1 .. Block : one[j] =
              IF j = datalen + 1 THEN Marker
              ELSE IF j \in datalen + 2 .. Block THEN 0 ELSE data[j]
    <3>1. Marked(Block) \in [1 .. Block -> Alphabet]
      BY <1>1, ShaConstants DEF Marked
    <3> QED
      BY <3>1, SeqDef, ShaConstants DEF Marked
  <2>2. /\ two \in Seq(Alphabet) /\ Len(two) = Block
        /\ \A j \in 1 .. Block : two[j] =
              IF j > Block - LenBytes
              THEN ((8 * n) \div Base ^ (Block - j)) % Base ELSE 0
    <3>1. \A j \in 1 .. Block : Zeros(Block)[j] = 0
      BY ZerosAre, ShaConstants
    <3>2. two = [j \in 1 .. Block |-> IF j > Block - LenBytes
                    THEN ((8 * n) \div Base ^ (Block - j)) % Base ELSE 0]
      BY <1>2, <3>1 DEF WithLength
    <3>3. \A j \in 1 .. Block : j > Block - LenBytes =>
            ((8 * n) \div Base ^ (Block - j)) % Base \in Alphabet
      <4> SUFFICES ASSUME NEW j \in 1 .. Block, j > Block - LenBytes
                   PROVE  ((8 * n) \div Base ^ (Block - j)) % Base \in Alphabet
        OBVIOUS
      <4>1. Block - j \in 0 .. LenBytes
        BY ShaConstants
      <4>2. PICK w \in Nat \ {0} : w = Base ^ (Block - j)
        BY <4>1, PowerAssumption
      <4>3. (8 * n) \div w \in Int
        BY <4>2
      <4> QED
        BY <4>2, <4>3, ShaConstants DEF Alphabet
    <3> HIDE DEF two
    <3>4. two \in [1 .. Block -> Alphabet]
      BY <3>2, <3>3, ShaConstants
    <3> QED
      BY <3>2, <3>4, SeqDef, ShaConstants
  <2>3. Tailed = one \o two
    BY <1>4 DEF Tailed
  <2> HIDE DEF one, two
  <2>4. Len(one) + Len(two) = 2 * Block
    BY <2>1, <2>2, ShaConstants
  <2>5. \A j \in 1 .. Len(one) + Len(two) : (one \o two)[j] =
          IF j <= Len(one) THEN one[j] ELSE two[j - Len(one)]
    BY <2>1, <2>2, ConcatProperties
  <2>6. \A j \in 1 .. 2 * Block : Tailed[j] =
          IF j <= Block THEN one[j] ELSE two[j - Block]
    BY <2>1, <2>3, <2>4, <2>5
  <2>7. datalen >= Block - LenBytes
    BY <1>1, <1>4, ShaConstants DEF RoomForLength
  <2>8. \A j \in 1 .. 2 * Block : Tailed[j] =
          IF j > 2 * Block - LenBytes
          THEN ((8 * n) \div Base ^ (2 * Block - j)) % Base
          ELSE IF j = datalen + 1 THEN Marker
          ELSE IF j > datalen THEN 0 ELSE data[j]
    <3> SUFFICES ASSUME NEW j \in 1 .. 2 * Block
                 PROVE  Tailed[j] =
                          IF j > 2 * Block - LenBytes
                          THEN ((8 * n) \div Base ^ (2 * Block - j)) % Base
                          ELSE IF j = datalen + 1 THEN Marker
                          ELSE IF j > datalen THEN 0 ELSE data[j]
      OBVIOUS
    <3>1. CASE j <= Block
      BY <1>1, <2>1, <2>6, <3>1, ShaConstants
    <3>2. CASE j > Block
      <4>1. PICK i \in Int : i = j - Block
        BY ShaConstants
      <4>2. i \in 1 .. Block /\ Block - i = 2 * Block - j
        BY <3>2, <4>1, ShaConstants
      <4>3. Tailed[j] = two[i]
        BY <2>6, <3>2, <4>1, ShaConstants
      <4> QED
        BY <1>1, <2>2, <3>2, <4>1, <4>2, <4>3, ShaConstants
    <3> QED
      BY <3>1, <3>2, ShaConstants
  <2> QED
    BY <1>2, <1>4, <2>8
<1> QED
  BY <1>3, <1>4

\* Finishing answers with the padded message.
LEMMA FinishPads ==
    ASSUME ShaInv, at = "open"
    PROVE  absorbed \o Tailed = Promise!Padded(Message)
<1> DEFINE len == Len(absorbed)
           n == Len(absorbed) + datalen
<1>1. /\ len \in Nat /\ datalen \in Nat /\ datalen < Block /\ n \in Nat
      /\ todo = <<>> /\ Len(todo) = 0 /\ TypeOK
      /\ absorbed \in Seq(Alphabet)
  BY ShaConstants, SeqMonotonic DEF ShaInv, TypeOK
<1>2. /\ Message \in Seq(Alphabet) /\ Len(Message) = n
      /\ \A i \in 1 .. n : Message[i] =
            IF i <= len THEN absorbed[i] ELSE data[i - len]
  BY <1>1, MessageBytes, ShaConstants, SeqMonotonic
<1>3. PICK q \in Nat : len = q * Block
  BY DEF ShaInv
<1> DEFINE last == IF RoomForLength THEN Block ELSE 2 * Block
           k == last - LenBytes - 1 - datalen
<1>4. k \in 0 .. Block - 1 /\ last \in Nat /\ n + 1 + k + LenBytes = len + last
  BY <1>1, ShaConstants DEF RoomForLength
<1>5. \E r \in Nat : len + last = r * Block
  <2>1. (q + 1) * Block = q * Block + Block /\ (q + 2) * Block = q * Block + 2 * Block
    BY ShaConstants
  <2>2. q + 1 \in Nat /\ q + 2 \in Nat
    OBVIOUS
  <2>3. len + Block = (q + 1) * Block /\ len + 2 * Block = (q + 2) * Block
    BY <1>3, <2>1, ShaConstants
  <2>4. CASE RoomForLength
    BY <2>2, <2>3, <2>4
  <2>5. CASE ~RoomForLength
    BY <2>2, <2>3, <2>5
  <2> QED
    BY <2>4, <2>5
<1>6. Promise!PadLength(Len(Message)) = k
  BY <1>1, <1>2, <1>4, <1>5, PadLengthIs
<1> DEFINE p == Promise!Padded(Message)
           t == absorbed \o Tailed
<1>7. /\ p \in Seq(Alphabet) /\ Len(p) = len + last
      /\ \A i \in 1 .. len + last : p[i] =
            IF i <= n THEN Message[i]
            ELSE IF i = n + 1 THEN Marker
            ELSE IF i <= n + 1 + k THEN 0
            ELSE ((8 * n) \div Base ^ (LenBytes - (i - (n + 1 + k)))) % Base
  <2> HIDE DEF len, n, k, last
  <2>1. k \in Nat
    BY <1>4, ShaConstants
  <2>2. /\ p \in Seq(Alphabet)
        /\ Len(p) = n + 1 + k + LenBytes
        /\ \A i \in 1 .. n + 1 + k + LenBytes : p[i] =
              IF i <= n THEN Message[i]
              ELSE IF i = n + 1 THEN Marker
              ELSE IF i <= n + 1 + k THEN 0
              ELSE ((8 * n) \div Base ^ (LenBytes - (i - (n + 1 + k)))) % Base
    BY <1>2, <1>6, <2>1, PaddedBytes
  <2> QED
    BY <1>4, <2>2
<1>8. Tailed \in Seq(Alphabet) /\ Len(Tailed) = last
  BY <1>1, TailedBytes
<1>9. /\ t \in Seq(Alphabet) /\ Len(t) = Len(absorbed) + Len(Tailed)
      /\ \A i \in 1 .. Len(absorbed) + Len(Tailed) : t[i] =
            IF i <= Len(absorbed) THEN absorbed[i] ELSE Tailed[i - Len(absorbed)]
  BY <1>1, <1>8, ConcatProperties
<1> HIDE DEF p, t, len, n, k
<1>10. \A j \in 1 .. last : Tailed[j] =
         IF j > last - LenBytes THEN ((8 * n) \div Base ^ (last - j)) % Base
         ELSE IF j = datalen + 1 THEN Marker
         ELSE IF j > datalen THEN 0 ELSE data[j]
  BY <1>1, TailedAt DEF n
<1> HIDE DEF last
<1>11. \A i \in 1 .. len + last : t[i] = p[i]
  <2> SUFFICES ASSUME NEW i \in 1 .. len + last PROVE t[i] = p[i]
    OBVIOUS
  <2>n. n = len + datalen /\ k = last - LenBytes - 1 - datalen
    BY DEF n, len, k
  <2>1. CASE i <= len
    <3>1. i \in 1 .. len /\ i \in 1 .. n /\ len + last = Len(absorbed) + Len(Tailed)
      BY <1>1, <1>8, <2>1, <2>n DEF len
    <3>2. t[i] = absorbed[i]
      BY <1>9, <2>1, <3>1 DEF len
    <3>3. p[i] = Message[i]
      BY <1>1, <1>7, <3>1
    <3>4. Message[i] = absorbed[i]
      BY <1>2, <2>1, <3>1
    <3> QED
      BY <3>2, <3>3, <3>4
  <2>2. CASE i > len
    <3>1. PICK j \in Int : j = i - len
      BY <1>1
    <3>2. j \in 1 .. last /\ t[i] = Tailed[j]
      <4>1. j >= 1 /\ j <= last /\ i \in 1 .. Len(absorbed) + Len(Tailed)
        BY <1>1, <1>4, <1>8, <2>2, <3>1 DEF len
      <4>2. t[i] = Tailed[i - Len(absorbed)]
        BY <1>1, <1>9, <2>2, <4>1 DEF len
      <4> QED
        BY <1>4, <3>1, <4>1, <4>2 DEF len
    <3>3. CASE j <= datalen
      <4>1. p[i] = data[j]
        BY <1>1, <1>2, <1>4, <1>7, <2>2, <2>n, <3>1, <3>3
      <4>2. j <= last - LenBytes
        BY <1>1, <1>4, <2>n, <3>3, ShaConstants
      <4>3. ~(j > last - LenBytes) /\ j # datalen + 1 /\ ~(j > datalen)
        BY <1>1, <1>4, <3>3, <4>2, ShaConstants
      <4>4. Tailed[j] = data[j]
        BY <1>10, <3>2, <4>3
      <4> QED
        BY <3>2, <4>1, <4>4
    <3>4. CASE j > datalen /\ j <= last - LenBytes
      <4>1. i > n /\ i <= n + 1 + k /\ (i = n + 1 <=> j = datalen + 1)
        BY <1>1, <1>4, <2>n, <3>1, <3>4, ShaConstants
      <4>2. p[i] = IF i = n + 1 THEN Marker ELSE 0
        BY <1>1, <1>4, <1>7, <4>1
      <4>3. Tailed[j] = IF j = datalen + 1 THEN Marker ELSE 0
        BY <1>1, <1>4, <1>10, <3>2, <3>4, ShaConstants
      <4> QED
        BY <3>2, <4>1, <4>2, <4>3
    <3>5. CASE j > datalen /\ j > last - LenBytes
      <4>1. LenBytes - (i - (n + 1 + k)) = last - j
        BY <1>1, <1>4, <2>n, <3>1, ShaConstants
      <4>2. i > n + 1 + k
        BY <1>1, <1>4, <2>n, <3>1, <3>5, ShaConstants
      <4>3. p[i] = ((8 * n) \div Base ^ (last - j)) % Base
        BY <1>1, <1>4, <1>7, <4>1, <4>2
      <4> QED
        BY <1>10, <3>2, <3>5, <4>3
    <3> QED
      BY <1>1, <3>1, <3>3, <3>4, <3>5, <1>4, ShaConstants
  <2> QED
    BY <1>1, <2>1, <2>2
<1>12. Len(t) = len + last
  BY <1>8, <1>9 DEF len
<1>13. t = p
  BY <1>7, <1>9, <1>11, <1>12, SeqEqual
<1> QED
  BY <1>13 DEF t, p

-----------------------------------------------------------------------------
(* The promise. *)

LEMMA PromiseInit == Init => Promise!Init
  BY DEF Init, Promise!Init

MessageOfHash ==
    /\ Message \in Seq(Bytes)
    /\ Len(Message) = Len(absorbed) + datalen + Len(todo)
    /\ \A i \in 1 .. Len(absorbed) + datalen + Len(todo) : Message[i] =
          IF i <= Len(absorbed) THEN absorbed[i]
          ELSE IF i <= Len(absorbed) + datalen THEN data[i - Len(absorbed)]
          ELSE todo[i - Len(absorbed) - datalen]

LEMMA MessageNext == ShaInv' => MessageOfHash'
<1>1. ShaInv => MessageOfHash
  BY MessageBytes DEF MessageOfHash
<1> QED
  BY <1>1, PTL

\* Taking a byte moves it from what is left to do into the context: the
\* message stays the same.
LEMMA TakeByteKeepsMessage ==
    ASSUME ShaInv, ShaInv', TakeByte
    PROVE  Message' = Message
<1> DEFINE len == Len(absorbed)
           n == Len(absorbed) + datalen + Len(todo)
<1>1. /\ len \in Nat /\ datalen \in Nat /\ datalen < Block
      /\ Len(todo) \in Nat /\ n \in Nat
  <2>1. absorbed \in Seq(Bytes) /\ todo \in Seq(Bytes) /\ datalen \in 0 .. Block - 1
    BY DEF ShaInv, TypeOK
  <2> QED
    BY <2>1, ShaConstants
<1>2. /\ Message \in Seq(Bytes) /\ Len(Message) = n
      /\ \A i \in 1 .. n : Message[i] =
            IF i <= len THEN absorbed[i]
            ELSE IF i <= len + datalen THEN data[i - len]
            ELSE todo[i - len - datalen]
  BY MessageBytes
<1>3. /\ Message' \in Seq(Bytes)
      /\ Len(Message') = Len(absorbed') + datalen' + Len(todo')
      /\ \A i \in 1 .. Len(absorbed') + datalen' + Len(todo') : Message'[i] =
            IF i <= Len(absorbed') THEN absorbed'[i]
            ELSE IF i <= Len(absorbed') + datalen' THEN data'[i - Len(absorbed')]
            ELSE todo'[i - Len(absorbed') - datalen']
  BY MessageNext DEF MessageOfHash
<1>4. /\ Len(todo') = Len(todo) - 1 /\ Len(todo) >= 1
      /\ \A i \in 1 .. Len(todo') : todo'[i] = todo[i + 1]
      /\ data'[datalen + 1] = todo[1]
      /\ \A j \in 1 .. datalen : data'[j] = data[j]
  BY TakeByteFacts
<1>5. /\ Len(Message') = n
      /\ \A i \in 1 .. n : Message'[i] =
            IF i <= len THEN absorbed[i]
            ELSE IF i <= len + datalen THEN data[i - len]
            ELSE IF i = len + datalen + 1 THEN todo[1]
            ELSE todo'[i - len - datalen - 1]
  <2>1. CASE datalen + 1 = Block
    <3>1. /\ Len(absorbed') = len + Block /\ datalen' = 0
          /\ \A i \in 1 .. len + Block : absorbed'[i] =
                IF i <= len THEN absorbed[i] ELSE data'[i - len]
      BY <2>1, FullBlock
    <3>2. Len(absorbed') + datalen' + Len(todo') = n
      <4>1. Len(absorbed') = len + (datalen + 1) /\ datalen' = 0
        BY <2>1, <3>1
      <4>2. PICK d \in Nat : d = Len(todo)
        BY <1>1
      <4>3. Len(todo') = d - 1 /\ n = len + datalen + d
        BY <1>4, <4>2
      <4> HIDE DEF len, n
      <4> QED
        BY <1>1, <4>1, <4>2, <4>3
    <3>3. ASSUME NEW i \in 1 .. n
          PROVE  Message'[i] =
                   IF i <= len THEN absorbed[i]
                   ELSE IF i <= len + datalen THEN data[i - len]
                   ELSE IF i = len + datalen + 1 THEN todo[1]
                   ELSE todo'[i - len - datalen - 1]
      <4>1. Message'[i] =
              IF i <= len + Block THEN absorbed'[i] ELSE todo'[i - (len + Block)]
        BY <1>1, <1>3, <3>1, <3>2, ShaConstants
      <4>2. CASE i <= len
        BY <1>1, <3>1, <4>1, <4>2, ShaConstants
      <4>3. CASE i > len /\ i <= len + datalen
        <5>1. PICK j \in 1 .. datalen : j = i - len
          BY <1>1, <4>3
        <5>2. absorbed'[i] = data'[j]
          BY <1>1, <2>1, <3>1, <4>3, <5>1
        <5> QED
          BY <1>1, <1>4, <2>1, <4>1, <4>3, <5>1, <5>2
      <4>4. CASE i = len + datalen + 1
        <5>1. i - len = datalen + 1 /\ i <= len + Block /\ ~(i <= len)
          BY <1>1, <2>1, <4>4
        <5> QED
          BY <1>1, <1>4, <3>1, <4>1, <4>4, <5>1
      <4>5. CASE i > len + datalen + 1
        <5>1. i - (len + Block) = i - len - datalen - 1
          BY <1>1, <2>1, ShaConstants
        <5> QED
          BY <1>1, <2>1, <4>1, <4>5, <5>1
      <4> QED
        BY <1>1, <4>2, <4>3, <4>4, <4>5
    <3> QED
      BY <1>3, <3>2, <3>3
  <2>2. CASE datalen + 1 # Block
    <3>1. absorbed' = absorbed /\ datalen' = datalen + 1
      BY <2>2 DEF TakeByte
    <3>2. Len(absorbed') + datalen' + Len(todo') = n
      BY <1>1, <1>4, <3>1
    <3>3. ASSUME NEW i \in 1 .. n
          PROVE  Message'[i] =
                   IF i <= len THEN absorbed[i]
                   ELSE IF i <= len + datalen THEN data[i - len]
                   ELSE IF i = len + datalen + 1 THEN todo[1]
                   ELSE todo'[i - len - datalen - 1]
      <4>1. Message'[i] =
              IF i <= len THEN absorbed[i]
              ELSE IF i <= len + (datalen + 1) THEN data'[i - len]
              ELSE todo'[i - len - (datalen + 1)]
        BY <1>3, <3>1, <3>2
      <4>2. CASE i > len /\ i <= len + datalen
        <5>1. PICK j \in 1 .. datalen : j = i - len
          BY <1>1, <4>2
        <5> QED
          BY <1>1, <1>4, <4>1, <4>2, <5>1
      <4>3. CASE i = len + datalen + 1
        <5>1. i - len = datalen + 1
          BY <1>1, <4>3
        <5> QED
          BY <1>1, <1>4, <4>1, <4>3, <5>1
      <4>4. CASE i > len + datalen + 1
        <5>1. i - len - (datalen + 1) = i - len - datalen - 1
          BY <1>1
        <5> QED
          BY <1>1, <4>1, <4>4, <5>1
      <4> QED
        BY <1>1, <4>1, <4>2, <4>3, <4>4
    <3> QED
      BY <1>3, <3>2, <3>3
  <2> QED
    BY <2>1, <2>2
<1> HIDE DEF len, n
<1>n. n = len + datalen + Len(todo)
  BY DEF len, n
<1>6. \A i \in 1 .. n : Message'[i] = Message[i]
  <2> SUFFICES ASSUME NEW i \in 1 .. n PROVE Message'[i] = Message[i]
    OBVIOUS
  <2>1. CASE i <= len + datalen
    BY <1>1, <1>2, <1>5, <2>1
  <2>2. CASE i = len + datalen + 1
    <3>1. i - len - datalen = 1
      BY <1>1, <2>2
    <3> QED
      BY <1>1, <1>2, <1>5, <2>2, <3>1
  <2>3. CASE i > len + datalen + 1
    <3>1. PICK j \in Int : j = i - len - datalen - 1
      BY <1>1
    <3>2. j \in 1 .. Len(todo') /\ j + 1 = i - len - datalen
      <4>1. PICK d \in Nat : d = Len(todo)
        BY <1>1
      <4>2. Len(todo') = d - 1 /\ n = len + datalen + d
        BY <1>4, <1>n, <4>1
      <4> QED
        BY <1>1, <2>3, <3>1, <4>2
    <3>3. Message'[i] = todo'[j]
      BY <1>1, <1>5, <2>3, <3>1
    <3>4. Message[i] = todo[j + 1]
      <4>1. ~(i <= len) /\ ~(i <= len + datalen)
        BY <1>1, <2>3
      <4>2. Message[i] = todo[i - len - datalen]
        BY <1>2, <4>1
      <4> QED
        BY <3>2, <4>2
    <3> QED
      BY <1>4, <3>2, <3>3, <3>4
  <2> QED
    BY <1>1, <2>1, <2>2, <2>3
<1> DEFINE now == Message
           next == Message'
<1>7. /\ now \in Seq(Bytes) /\ next \in Seq(Bytes) /\ Len(now) = Len(next)
      /\ \A i \in 1 .. Len(now) : now[i] = next[i]
  BY <1>2, <1>3, <1>5, <1>6
<1> HIDE DEF now, next
<1>8. now = next
  BY <1>7, SeqEqual
<1> QED
  BY <1>8 DEF now, next

LEMMA PromiseStep ==
    ShaInv /\ ShaInv' /\ [Next]_vars => [Promise!Next]_(Promise!hvars)
<1> SUFFICES ASSUME ShaInv, ShaInv', [Next]_vars
             PROVE  [Promise!Next]_(Promise!hvars)
  OBVIOUS
<1>1. CASE Refuse
  BY <1>1 DEF Refuse, ctx, Promise!hvars, Message
<1>2. CASE HashInit
  <2>1. at' = "open" /\ absorbed' = <<>> /\ datalen' = 0 /\ todo' = <<>> /\ digest' = digest
    BY <1>2 DEF HashInit, ShaInv
  <2>2. Len(Message') = 0 /\ Message' \in Seq(Bytes)
    BY <2>1, MessageNext DEF MessageOfHash
  <2>3. Message' = <<>>
    BY <2>2
  <2> QED
    BY <2>1, <2>3 DEF Promise!Next, Promise!Begin
<1>3. CASE HashUpdate
  <2>1. PICK p \in Pieces : todo' = p
    BY <1>3 DEF HashUpdate
  <2>2. p \in Seq(Bytes)
    BY HashAssumption
  <2>3. at = "open" /\ at' = "update" /\ todo = <<>>
        /\ UNCHANGED <<absorbed, data, datalen, digest>>
    BY <1>3 DEF HashUpdate, ctx, ShaInv
  <2>4. /\ Message \in Seq(Bytes) /\ Len(Message) = Len(absorbed) + datalen
        /\ \A i \in 1 .. Len(absorbed) + datalen : Message[i] =
              IF i <= Len(absorbed) THEN absorbed[i] ELSE data[i - Len(absorbed)]
    <3>1. Len(todo) = 0 /\ Len(absorbed) \in Nat /\ datalen \in Nat
      BY <2>3, ShaConstants DEF ShaInv, TypeOK
    <3> QED
      BY <3>1, MessageBytes
  <2>5. /\ Message' \in Seq(Bytes)
        /\ Len(Message') = Len(absorbed) + datalen + Len(p)
        /\ \A i \in 1 .. Len(absorbed) + datalen + Len(p) : Message'[i] =
              IF i <= Len(absorbed) THEN absorbed[i]
              ELSE IF i <= Len(absorbed) + datalen THEN data[i - Len(absorbed)]
              ELSE p[i - Len(absorbed) - datalen]
    BY <2>1, <2>3, MessageNext DEF MessageOfHash
  <2> DEFINE now == Message
             next == Message'
  <2>6. /\ now \in Seq(Bytes) /\ next \in Seq(Bytes)
        /\ Len(now) \in Nat /\ Len(next) \in Nat /\ Len(next) >= Len(now)
        /\ \A i \in 1 .. Len(now) : next[i] = now[i]
    <3>1. PICK a \in Nat, d \in Nat, e \in Nat :
             a = Len(absorbed) /\ d = datalen /\ e = Len(p)
      <4>1. Len(absorbed) \in Nat /\ datalen \in Nat /\ Len(p) \in Nat
        BY <2>2, ShaConstants DEF ShaInv, TypeOK
      <4> QED
        BY <4>1
    <3>2. Len(now) = a + d /\ Len(next) = a + d + e
      BY <2>4, <2>5, <3>1
    <3>3. \A i \in 1 .. a + d : next[i] = now[i]
      BY <2>4, <2>5, <3>1
    <3> QED
      BY <2>4, <2>5, <3>2, <3>3
  <2> HIDE DEF now, next
  <2>7. SubSeq(next, 1, Len(now)) = now
    <3>1. \A i \in 1 .. Len(now) : next[i] \in Bytes
      BY <2>6
    <3>2. /\ SubSeq(next, 1, Len(now)) \in Seq(Bytes)
          /\ Len(SubSeq(next, 1, Len(now))) = Len(now)
          /\ \A i \in 1 .. Len(now) : SubSeq(next, 1, Len(now))[i] = next[i]
      BY <2>6, <3>1, SubSeqProperties
    <3>3. \A i \in 1 .. Len(SubSeq(next, 1, Len(now))) :
            SubSeq(next, 1, Len(now))[i] = now[i]
      BY <2>6, <3>2
    <3> QED
      BY <2>6, <3>2, <3>3, SeqEqual
  <2> QED
    BY <2>3, <2>6, <2>7 DEF now, next, Promise!Next, Promise!Extend
<1>4. CASE TakeByte
  <2>1. Message' = Message
    BY <1>4, TakeByteKeepsMessage
  <2> QED
    BY <1>4, <2>1 DEF TakeByte, Promise!hvars
<1>5. CASE UpdateDone
  BY <1>5 DEF UpdateDone, ctx, Promise!hvars, Message
<1>6. CASE HashFinish
  <2>1. absorbed \o Tailed = Promise!Padded(Message)
    BY <1>6, FinishPads DEF HashFinish
  <2> QED
    BY <1>6, <2>1 DEF HashFinish, Promise!Next, Promise!Finish
<1>7. CASE UNCHANGED vars
  BY <1>7 DEF vars, ctx, Promise!hvars, Message
<1> QED
  BY <1>1, <1>2, <1>3, <1>4, <1>5, <1>6, <1>7 DEF Next

\* The digest is that of the padded message for every block size, however the
\* message is cut into pieces.
THEOREM HashIsKept == Spec => ImplementsHash
<1>1. Init => Promise!Init
  BY PromiseInit
<1>2. ShaInv /\ ShaInv' /\ [Next]_vars => [Promise!Next]_(Promise!hvars)
  BY PromiseStep
<1>3. Spec => []ShaInv
  BY ShaInvCorrect
<1> QED
  BY <1>1, <1>2, <1>3, PTL DEF Spec, ImplementsHash, Promise!Spec

\* The same of the hash among the parts that the run checks.
THEOREM HashIsKeptAmongParts == PartsSpec => ImplementsHash
<1>1. PartsInit => Init
  BY DEF PartsInit
<1>2. [PartsNext]_partsVars => [Next]_vars
  <2>1. ASSUME ShaNext
        PROVE  Next
    BY <2>1 DEF ShaNext
  <2>2. ASSUME PartsNext, ~ ShaNext
        PROVE  UNCHANGED vars
    BY <2>2, Zenon DEF PartsNext, TimerNext, ChachaNext, SessionNext, HalNext, EfuseNext,
        SandboxNext, GateNext, PolyNext, ArgonNext, SigNext, RestUnchanged
  <2>3. UNCHANGED partsVars => UNCHANGED vars
    BY Zenon DEF partsVars
  <2> QED
    BY <2>1, <2>2, <2>3
<1>3. PartsSpec => Spec
  BY <1>1, <1>2, PTL DEF PartsSpec, Spec
<1> QED
  BY <1>3, HashIsKept
=============================================================================
