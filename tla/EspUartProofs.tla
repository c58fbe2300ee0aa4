---------------------------- MODULE EspUartProofs ----------------------------
(***************************************************************************)
(* The console loses, repeats and invents no byte, and its configuration   *)
(* settles, for every size of the FIFOs, every guard and every clock.      *)
(***************************************************************************)
EXTENDS EspUart, SequenceTheorems, TLAPS

Bytes == Chars \cup {Rom}
Syncs == {2, 4, 6, 8}

\* The constants one by one.
Sizes ==
    /\ TxSize \in Nat /\ TxSize > 0 /\ RxSize \in Nat /\ RxSize > 0
    /\ PutGuard \in Nat /\ PutGuard > 0 /\ FlushGuard \in Nat /\ FlushGuard > 0
    /\ SyncGuard \in Nat /\ SyncGuard > 0
    /\ PollsPerMs \in Nat /\ PollsPerMs > 0
    /\ SClk \in Nat /\ SClk > 0 /\ DivLimit \in Nat /\ DivLimit > 0
    /\ WordLimit \in Nat /\ WordLimit > 1
    /\ Bauds \subseteq Nat /\ Timeouts \subseteq Nat
    /\ PutGuard < WordLimit /\ FlushGuard < WordLimit /\ SyncGuard < WordLimit
    /\ 16 * SClk < WordLimit

LEMMA Constants == UartAssumption => Sizes
BY DEF UartAssumption, Sizes

\* The body of esp_uart_init, step by step.
LEMMA Body ==
    /\ Len(InitBody) = 8
    /\ \A s \in 1 .. 8 : InitBody[s] = "sync" <=> s \in Syncs
    /\ InitBody[1] = "reset" /\ InitBody[3] = "run"
    /\ InitBody[5] = "clkdiv" /\ InitBody[7] = "frame"
  BY DEF InitBody, Syncs

\* What the registers get fits their fields, and a timeout is some turns.
LEMMA Fields ==
    ASSUME Sizes
    PROVE  /\ \A b \in Nat \ {0} : Divider(b) \in 0 .. DivLimit - 1 /\ Frag(b) \in 0 .. 15
           /\ \A b \in Nat \ {0} : Divider(b) \in Nat /\ Frag(b) \in Nat
           /\ \A t \in Timeouts : Iterations(t) \in 1 .. WordLimit - 1
<1>1. ASSUME NEW b \in Nat, b # 0
      PROVE  Divider(b) \in 0 .. DivLimit - 1
  <2>1. SClk \div b \in Int
    BY <1>1 DEF Sizes
  <2> QED
    BY <2>1 DEF Divider, Sizes
<1>2. ASSUME NEW b \in Nat, b # 0
      PROVE  Frag(b) \in 0 .. 15
  <2>1. (((SClk % b) * 16) % WordLimit) \in Nat
    <3>1. (SClk % b) * 16 \in Nat
      BY <1>2 DEF Sizes
    <3> QED
      BY <3>1 DEF Sizes
  <2>2. (((SClk % b) * 16) % WordLimit) \div b \in Int
    BY <1>2, <2>1
  <2> QED
    BY <2>2 DEF Frag
<1>3. ASSUME NEW t \in Timeouts
      PROVE  Iterations(t) \in 1 .. WordLimit - 1
  <2>1. t * PollsPerMs \in Nat
    BY DEF Sizes
  <2>2. (t * PollsPerMs) % WordLimit \in 0 .. WordLimit - 1
    BY <2>1 DEF Sizes
  <2> QED
    BY <2>2 DEF Iterations, Sizes
<1> QED
  BY <1>1, <1>2, <1>3

-----------------------------------------------------------------------------
(* Types. *)

\* Where each function is, and within which guard.
Places ==
    /\ fn.name = "init" =>
          /\ step \in 1 .. 8 /\ fn.arg \in Bauds /\ polls \in 0 .. SyncGuard
          /\ step > 1 => fn.arg # 0
    /\ fn.name = "putchar" =>
          step \in 1 .. 2 /\ fn.arg \in Chars /\ polls \in 0 .. PutGuard - 1
    /\ fn.name = "getchar" => step \in 1 .. 2 /\ fn.arg \in Timeouts
    /\ fn.name = "flush" => step = 1 /\ polls \in 0 .. FlushGuard - 1

\* The FIFOs are in reset, as far as the driver knows, in two steps of init.
Resetting == shadow.reset <=> (fn.name = "init" /\ step \in 2 .. 3)

\* Between look and access nobody else takes a byte or fills the FIFO.
Looked ==
    /\ fn.name = "getchar" /\ step = 2 => rx # <<>>
    /\ fn.name = "putchar" /\ step = 2 => Len(tx) < TxSize

Typing ==
    /\ TypeOK /\ Places /\ Resetting /\ Looked
    /\ wire \in Seq(Bytes) /\ put \in Seq(Bytes)
    /\ stored \in Seq(Bytes) /\ got \in Seq(Bytes)

\* Type correctness in two parts: the hardware, and the rest.
HwTypes ==
    /\ tx \in Seq(Bytes) /\ Len(tx) <= TxSize
    /\ rx \in Seq(Bytes) /\ Len(rx) <= RxSize
    /\ shadow \in Config /\ active \in Config
    /\ shadow.div \in 0 .. DivLimit - 1 /\ active.div \in 0 .. DivLimit - 1
    /\ shadow.frag \in 0 .. 15 /\ active.frag \in 0 .. 15
    /\ syncing \in BOOLEAN

RunTypes ==
    /\ fn.name \in {"none", "init", "putchar", "getchar", "flush"}
    /\ step \in 0 .. 8 /\ polls \in 0 .. WordLimit - 1
    /\ ret \in {"none", "OK", "INVALID_ARG", "TIMEOUT", "dropped"}
    /\ up \in Bauds \cup {0}
    /\ waiting \in BOOLEAN /\ late \in BOOLEAN

LEMMA TypeParts == TypeOK <=> HwTypes /\ RunTypes
  BY Body DEF TypeOK, HwTypes, RunTypes, Bytes

LEMMA TypePartsNext == TypeOK' <=> HwTypes' /\ RunTypes'
  BY Body DEF TypeOK, HwTypes, RunTypes, Bytes

LEMMA HwKept == HwTypes /\ UNCHANGED hw => HwTypes'
  BY DEF HwTypes, hw

LEMMA TypingInit ==
    ASSUME Sizes PROVE Init => Typing
<1> SUFFICES ASSUME Init
             PROVE  Typing
  OBVIOUS
<1>1. tx \in Seq(Bytes) /\ Len(tx) <= TxSize /\ rx \in Seq(Bytes) /\ Len(rx) <= RxSize
  <2>1. \A s \in {<<>>, <<Rom>>} : s \in Seq(Bytes) /\ Len(s) <= 1
    <3>1. <<>> \in Seq(Bytes) /\ Len(<<>>) = 0
      BY EmptySeq
    <3>2. Rom \in Bytes
      BY DEF Bytes
    <3>3. <<Rom>> \in Seq(Bytes) /\ Len(<<Rom>>) = 1
      BY <3>2
    <3>4. ASSUME NEW s, s = <<>>
          PROVE  s \in Seq(Bytes) /\ Len(s) <= 1
      <4>1. Len(s) = 0
        BY <3>1, <3>4
      <4> QED
        BY <3>1, <3>4, <4>1
    <3>5. ASSUME NEW s, s = <<Rom>>
          PROVE  s \in Seq(Bytes) /\ Len(s) <= 1
      <4>1. Len(s) = 1
        BY <3>3, <3>5
      <4> QED
        BY <3>3, <3>5, <4>1
    <3> QED
      BY <3>4, <3>5
  <2>2. Len(tx) <= 1 /\ Len(rx) <= 1 /\ tx \in Seq(Bytes) /\ rx \in Seq(Bytes)
    BY <2>1 DEF Init
  <2>3. Len(tx) \in Nat /\ Len(rx) \in Nat
    BY <2>2, LenProperties
  <2> QED
    BY <2>2, <2>3 DEF Sizes
<1>2. {shadow, active} \subseteq Config
  BY DEF Init, Config, RomConfig
<1>3. /\ {shadow.div, active.div} \subseteq 0 .. DivLimit - 1
      /\ {shadow.frag, active.frag} \subseteq 0 .. 15
  BY DEF Init, RomConfig, Sizes
<1>4. /\ fn.name = "none" /\ step = 0 /\ polls = 0 /\ ret = "none" /\ up = 0
      /\ {syncing, waiting, late} \subseteq BOOLEAN
  BY DEF Init
<1>5. step \in 0 .. Len(InitBody) /\ polls \in 0 .. WordLimit - 1
  BY <1>4, Body DEF Sizes
<1>6. Places
  BY <1>4 DEF Places
<1>8. Resetting /\ Looked
  BY <1>4 DEF Init, RomConfig, Resetting, Looked
<1>7. wire \in Seq(Bytes) /\ put \in Seq(Bytes) /\ stored \in Seq(Bytes) /\ got \in Seq(Bytes)
  BY <1>1 DEF Init
<1> QED
  BY <1>1, <1>2, <1>3, <1>4, <1>5, <1>6, <1>7, <1>8 DEF Typing, TypeOK, Bytes

\* What typing says of the FIFOs, and of the bytes that go through them.
LEMMA Fifos ==
    ASSUME Typing
    PROVE  /\ tx \in Seq(Bytes) /\ rx \in Seq(Bytes) /\ Len(tx) \in Nat /\ Len(rx) \in Nat
           /\ Len(tx) <= TxSize /\ Len(rx) <= RxSize
           /\ wire \in Seq(Bytes) /\ put \in Seq(Bytes)
           /\ stored \in Seq(Bytes) /\ got \in Seq(Bytes)
  BY LenProperties DEF Typing, TypeOK, Bytes

\* Taking a byte from the front, adding one behind.
LEMMA Shorter ==
    ASSUME NEW s \in Seq(Bytes), s # <<>>
    PROVE  /\ Head(s) \in Bytes /\ Tail(s) \in Seq(Bytes)
           /\ Len(Tail(s)) <= Len(s) /\ s = <<Head(s)>> \o Tail(s)
<1>1. Head(s) \in Bytes /\ Tail(s) \in Seq(Bytes) /\ Len(Tail(s)) = Len(s) - 1
  BY HeadTailProperties
<1>2. Len(s) \in Nat
  BY LenProperties
<1>3. s = <<Head(s)>> \o Tail(s)
  <2>1. s \in Seq(Bytes) /\ s # <<>>
    OBVIOUS
  <2> QED
    BY <2>1, <1>1, <1>2, SeqEqual
<1> QED
  BY <1>1, <1>2, <1>3

LEMMA Longer ==
    ASSUME NEW s \in Seq(Bytes), NEW c \in Bytes
    PROVE  Append(s, c) \in Seq(Bytes) /\ Len(Append(s, c)) = Len(s) + 1
  BY AppendProperties

LEMMA TypingStep ==
    ASSUME Sizes PROVE Typing /\ [Next]_vars => Typing'
<1> SUFFICES ASSUME Typing, [Next]_vars
             PROVE  Typing'
  OBVIOUS
<1> USE Fifos DEF Sizes
<1>1. CASE Start
  <2>1. /\ UNCHANGED <<hw, ret, up, traffic, late>>
        /\ fn.name = "none" /\ waiting' = (rx # <<>>) /\ step' = 1 /\ polls' = 0
        /\ \/ \E b \in Bauds : fn' = [name |-> "init", arg |-> b]
           \/ \E c \in Chars : fn' = [name |-> "putchar", arg |-> c]
           \/ \E t \in Timeouts : fn' = [name |-> "getchar", arg |-> t]
           \/ fn' = [name |-> "flush", arg |-> 0]
    BY <1>1 DEF Start, Call, Idle
  <2>2. Places'
    BY <2>1 DEF Places
  <2>3. TypeOK'
    <3>1. RunTypes'
      BY <2>1, TypeParts DEF RunTypes, Typing
    <3> QED
      BY <2>1, <3>1, HwKept, TypeParts, TypePartsNext DEF Typing
  <2>4. Resetting' /\ Looked'
    <3>1. ~shadow.reset /\ shadow' = shadow /\ step' = 1
      BY <2>1 DEF Resetting, Typing, hw
    <3> QED
      BY <3>1 DEF Resetting, Looked
  <2> QED
    BY <2>1, <2>2, <2>3, <2>4 DEF Typing, traffic
<1>2. CASE GetcharRefused
  BY <1>2 DEF GetcharRefused, Typing, TypeOK, Places, Resetting, Looked, hw, ghosts, traffic
<1>3. CASE InitRefused
  <2>1. Places'
    BY <1>3 DEF InitRefused, Return, Places
  <2>2. TypeOK'
    BY <1>3, Body DEF InitRefused, Return, Typing, TypeOK, hw, ghosts
  <2>3. Resetting' /\ Looked'
    BY <1>3 DEF InitRefused, Running, Return, Resetting, Looked, Typing, hw
  <2> QED
    BY <1>3, <2>1, <2>2, <2>3 DEF InitRefused, Typing, ghosts, traffic
<1>4. CASE InitWrite
  <2>1. /\ fn.name = "init" /\ fn.arg # 0 /\ fn.arg \in Nat
        /\ step \in 1 .. 8 /\ step \notin Syncs
        /\ step' = step + 1 /\ polls' = 0
        /\ UNCHANGED <<tx, rx, active, syncing, fn, ret, up, ghosts>>
    BY <1>4, Body DEF InitWrite, Running, Typing, Places
  <2>2. step \in {1, 3, 5, 7}
    BY <2>1 DEF Syncs
  <2>3. \/ shadow' = [shadow EXCEPT !.reset = TRUE]
        \/ shadow' = [shadow EXCEPT !.reset = FALSE]
        \/ shadow' = [shadow EXCEPT !.div = Divider(fn.arg), !.frag = Frag(fn.arg)]
        \/ shadow' = [shadow EXCEPT !.frame = "8n1"]
    BY <1>4, <2>2, Body DEF InitWrite
  <2>4. Divider(fn.arg) \in 0 .. DivLimit - 1 /\ Frag(fn.arg) \in 0 .. 15
    BY <2>1, Fields
  <2>5. /\ shadow \in Config /\ shadow.div \in 0 .. DivLimit - 1 /\ shadow.frag \in 0 .. 15
    BY DEF Typing, TypeOK
  <2>6. /\ shadow' \in Config /\ shadow'.div \in 0 .. DivLimit - 1 /\ shadow'.frag \in 0 .. 15
    <3>1. /\ DOMAIN shadow = {"reset", "frame", "div", "frag"}
          /\ shadow = [reset |-> shadow.reset, frame |-> shadow.frame,
                       div |-> shadow.div, frag |-> shadow.frag]
          /\ shadow.reset \in BOOLEAN /\ shadow.frame \in {"rom", "8n1"}
      BY <2>5 DEF Config
    <3>2. CASE \E b \in BOOLEAN : shadow' = [shadow EXCEPT !.reset = b]
      BY <2>5, <3>1, <3>2 DEF Config
    <3>3. CASE shadow' = [shadow EXCEPT !.div = Divider(fn.arg), !.frag = Frag(fn.arg)]
      <4>1. shadow' = [reset |-> shadow.reset, frame |-> shadow.frame,
                       div |-> Divider(fn.arg), frag |-> Frag(fn.arg)]
        BY <3>1, <3>3
      <4>2. /\ shadow'.reset = shadow.reset /\ shadow'.frame = shadow.frame
            /\ shadow'.div = Divider(fn.arg) /\ shadow'.frag = Frag(fn.arg)
        BY <4>1
      <4>3. shadow' \in Config
        <5>1. Divider(fn.arg) \in Nat /\ Frag(fn.arg) \in Nat
          BY <2>1, Fields
        <5> QED
          BY <3>1, <4>1, <5>1 DEF Config
      <4> QED
        BY <2>4, <4>2, <4>3
    <3>4. CASE shadow' = [shadow EXCEPT !.frame = "8n1"]
      BY <2>5, <3>1, <3>4 DEF Config
    <3> QED
      BY <2>3, <3>2, <3>3, <3>4
  <2>7. Places'
    BY <2>1, <2>2 DEF Places, Typing
  <2>8. TypeOK'
    <3>1. RunTypes'
      BY <2>1, <2>2, TypeParts DEF RunTypes, Typing, ghosts
    <3>2. HwTypes'
      BY <2>1, <2>6, TypeParts DEF HwTypes, Typing
    <3> QED
      BY <3>1, <3>2, TypePartsNext
  <2>9. Resetting'
    <3>1. /\ step = 1 => shadow' = [shadow EXCEPT !.reset = TRUE]
          /\ step = 3 => shadow' = [shadow EXCEPT !.reset = FALSE]
          /\ step = 5 => shadow' = [shadow EXCEPT !.div = Divider(fn.arg), !.frag = Frag(fn.arg)]
          /\ step = 7 => shadow' = [shadow EXCEPT !.frame = "8n1"]
      BY <1>4, <2>2, Body DEF InitWrite
    <3> QED
      <4>1. CASE step = 1
        BY <2>1, <2>5, <3>1, <4>1 DEF Resetting, Config
      <4>2. CASE step = 3
        BY <2>1, <2>5, <3>1, <4>2 DEF Resetting, Config
      <4>3. CASE step \in {5, 7}
        <5>1. shadow'.reset = shadow.reset
          BY <2>5, <3>1, <4>3 DEF Config
        <5> QED
          BY <2>1, <4>3, <5>1 DEF Resetting, Typing
      <4> QED
        BY <2>2, <4>1, <4>2, <4>3
  <2>10. Looked'
    BY <2>1 DEF Looked
  <2> QED
    BY <2>1, <2>7, <2>8, <2>9, <2>10 DEF Typing, ghosts, traffic
<1>5. CASE SyncAsk
  <2>1. Places'
    BY <1>5 DEF SyncAsk, Places, Typing, Running
  <2>2. TypeOK'
    BY <1>5 DEF SyncAsk, Typing, TypeOK, ghosts
  <2>3. Resetting' /\ Looked'
    BY <1>5 DEF SyncAsk, Running, Resetting, Looked, Typing
  <2> QED
    BY <1>5, <2>1, <2>2, <2>3 DEF SyncAsk, Typing, ghosts, traffic
<1>6. CASE SyncPoll
  <2>1. /\ fn.name = "init" /\ step \in Syncs /\ step \in 1 .. 8 /\ polls \in 1 .. SyncGuard
        /\ fn.arg \in Bauds /\ fn.arg # 0
        /\ UNCHANGED <<hw, traffic, waiting>>
    BY <1>6, Body DEF SyncPoll, Running, Typing, Places, Syncs
  <2>2. \/ /\ step = 8 /\ Return("OK") /\ up' = fn.arg /\ late' = (late \/ syncing)
        \/ /\ step # 8 /\ step' = step + 1 /\ polls' = 0 /\ UNCHANGED <<fn, ret, up>>
           /\ late' = (late \/ syncing)
        \/ /\ polls < SyncGuard /\ polls' = polls + 1
           /\ UNCHANGED <<fn, step, ret, up, late>>
    BY <1>6, Body DEF SyncPoll, NextOp, Again
  <2>3. Places'
    <3>1. CASE step = 8 /\ Return("OK")
      BY <3>1 DEF Places, Return
    <3>2. CASE step # 8 /\ step' = step + 1 /\ polls' = 0 /\ UNCHANGED fn
      BY <2>1, <3>2 DEF Places, Syncs
    <3>3. CASE polls < SyncGuard /\ polls' = polls + 1 /\ UNCHANGED <<fn, step>>
      BY <2>1, <3>3 DEF Places
    <3> QED
      BY <2>2, <3>1, <3>2, <3>3
  <2>4. late' \in BOOLEAN
    BY <2>2 DEF Typing, TypeOK
  <2>5. TypeOK'
    <3>1. RunTypes'
      <4>1. CASE step = 8 /\ Return("OK") /\ up' = fn.arg
        BY <2>1, <2>4, <4>1, TypeParts DEF RunTypes, Return, Typing
      <4>2. CASE step # 8 /\ step' = step + 1 /\ polls' = 0 /\ UNCHANGED <<fn, ret, up>>
        BY <2>1, <2>4, <4>2, TypeParts DEF RunTypes, Typing
      <4>3. CASE polls < SyncGuard /\ polls' = polls + 1 /\ UNCHANGED <<fn, step, ret, up>>
        BY <2>1, <2>4, <4>3, TypeParts DEF RunTypes, Typing
      <4> QED
        BY <2>2, <4>1, <4>2, <4>3
    <3> QED
      BY <2>1, <3>1, HwKept, TypeParts, TypePartsNext DEF Typing
  <2>6. Resetting' /\ Looked'
    BY <2>1, <2>2 DEF Resetting, Looked, Typing, Return, hw, Syncs
  <2> QED
    BY <2>1, <2>3, <2>5, <2>6 DEF Typing, traffic
<1>7. CASE PutcharLook
  <2>1. Places'
    BY <1>7 DEF PutcharLook, Running, Places, Typing, Return, Again, GivesUp
  <2>2. TypeOK'
    <3>1. RunTypes'
      BY <1>7, TypeParts
      DEF PutcharLook, Running, Places, Typing, RunTypes, Return, Again, ghosts, GivesUp, HasRoom
    <3>2. UNCHANGED hw
      BY <1>7 DEF PutcharLook
    <3> QED
      BY <3>1, <3>2, HwKept, TypeParts, TypePartsNext DEF Typing
  <2>3. Resetting' /\ Looked'
    BY <1>7 DEF PutcharLook, Running, Resetting, Looked, Typing, Return, Again, HasRoom, hw
  <2> QED
    BY <1>7, <2>1, <2>2, <2>3 DEF PutcharLook, Typing, ghosts, traffic
<1>8. CASE PutcharWrite
  <2>1. Places'
    BY <1>8 DEF PutcharWrite, Return, Places
  <2>2. fn.arg \in Chars /\ fn.arg \in Bytes
    BY <1>8 DEF PutcharWrite, Running, Typing, Places, Bytes
  <2>3. put' \in Seq(Bytes) /\ tx' \in Seq(Bytes) /\ Len(tx') <= TxSize
    BY <1>8, <2>2, Longer DEF PutcharWrite
  <2>4. TypeOK'
    <3>1. RunTypes'
      BY <1>8, TypeParts DEF PutcharWrite, Return, Typing, RunTypes
    <3>2. HwTypes'
      BY <1>8, <2>3, TypeParts DEF PutcharWrite, Typing, HwTypes
    <3> QED
      BY <3>1, <3>2, TypePartsNext
  <2>5. Resetting' /\ Looked'
    BY <1>8 DEF PutcharWrite, Running, Return, Resetting, Looked, Typing
  <2> QED
    BY <1>8, <2>1, <2>3, <2>4, <2>5 DEF PutcharWrite, Typing
<1>9. CASE GetcharLook
  <2>1. Places'
    BY <1>9 DEF GetcharLook, Running, Places, Typing, Return, Again
  <2>2. Iterations(fn.arg) \in 1 .. WordLimit - 1
    BY <1>9, Fields DEF GetcharLook, Running, Places, Typing
  <2>3. TypeOK'
    <3>1. RunTypes'
      BY <1>9, <2>2, TypeParts
      DEF GetcharLook, Running, Places, Typing, RunTypes, Return, Again, ghosts
    <3>2. UNCHANGED hw
      BY <1>9 DEF GetcharLook
    <3> QED
      BY <3>1, <3>2, HwKept, TypeParts, TypePartsNext DEF Typing
  <2>4. Resetting' /\ Looked'
    BY <1>9 DEF GetcharLook, Running, Return, Again, Resetting, Looked, Typing, hw
  <2> QED
    BY <1>9, <2>1, <2>3, <2>4 DEF GetcharLook, Typing, ghosts, traffic
<1>10. CASE GetcharTake
  <2>1. Places' /\ Resetting' /\ Looked'
    BY <1>10 DEF GetcharTake, Running, Return, Places, Resetting, Looked, Typing
  <2>2. rx # <<>>
    BY <1>10 DEF GetcharTake, Running, Looked, Typing
  <2>3. got' \in Seq(Bytes) /\ rx' \in Seq(Bytes) /\ Len(rx') <= RxSize
    <3>1. Tail(rx) \in Seq(Bytes) /\ Len(Tail(rx)) \in Nat /\ Head(rx) \in Bytes
          /\ Len(Tail(rx)) <= Len(rx)
      BY <2>2, Shorter, LenProperties
    <3> QED
      BY <1>10, <3>1, Longer DEF GetcharTake, RestOfRx
  <2>4. TypeOK'
    <3>1. RunTypes'
      BY <1>10, TypeParts DEF GetcharTake, Return, Typing, RunTypes
    <3>2. HwTypes'
      BY <1>10, <2>3, TypeParts DEF GetcharTake, Typing, HwTypes
    <3> QED
      BY <3>1, <3>2, TypePartsNext
  <2> QED
    BY <1>10, <2>1, <2>3, <2>4 DEF GetcharTake, Typing
<1>11. CASE Flush
  <2>1. Places'
    <3>1. CASE Return("OK")
      BY <3>1 DEF Return, Places
    <3>2. CASE Again /\ ~GivesUp(FlushGuard)
      <4>1. fn.name = "flush" /\ step = 1 /\ polls \in 0 .. FlushGuard - 1
        BY <1>11 DEF Flush, Running, Typing, Places
      <4> QED
        BY <3>2, <4>1 DEF Again, GivesUp, Places
    <3> QED
      BY <1>11, <3>1, <3>2 DEF Flush
  <2>2. TypeOK'
    <3>1. RunTypes'
      BY <1>11, TypeParts
      DEF Flush, Running, Places, Typing, RunTypes, Return, Again, ghosts, GivesUp
    <3>2. UNCHANGED hw
      BY <1>11 DEF Flush
    <3> QED
      BY <3>1, <3>2, HwKept, TypeParts, TypePartsNext DEF Typing
  <2>3. Resetting' /\ Looked'
    BY <1>11 DEF Flush, Running, Return, Again, Resetting, Looked, Typing, hw
  <2> QED
    BY <1>11, <2>1, <2>2, <2>3 DEF Flush, Typing, ghosts, traffic
<1>12. CASE Send
  <2>1. /\ tx # <<>> /\ wire' = Append(wire, Head(tx)) /\ tx' = Tail(tx)
        /\ UNCHANGED <<rx, shadow, active, syncing, fn, step, polls, ret, up,
                       put, stored, got, waiting, late>>
    BY <1>12 DEF Send, run
  <2>2. wire' \in Seq(Bytes) /\ tx' \in Seq(Bytes) /\ Len(tx') \in Nat /\ Len(tx') <= Len(tx)
    BY <2>1, Shorter, Longer, LenProperties
  <2>3. Looked'
    BY <2>1, <2>2 DEF Typing, Looked
  <2>4. TypeOK'
    BY <2>1, <2>2 DEF Typing, TypeOK, Bytes
  <2> QED
    BY <2>1, <2>2, <2>3, <2>4 DEF Typing, Places, Resetting
<1>13. CASE Receive
  <2>1. /\ UNCHANGED <<tx, shadow, active, syncing, fn, step, polls, ret, up,
                       wire, put, got, waiting, late>>
        /\ \/ UNCHANGED <<rx, stored>>
           \/ \E c \in Chars : /\ Len(rx) < RxSize
                               /\ rx' = Append(rx, c) /\ stored' = Append(stored, c)
    BY <1>13 DEF Receive, run
  <2>2. /\ rx' \in Seq(Bytes) /\ Len(rx') <= RxSize /\ stored' \in Seq(Bytes)
        /\ rx # <<>> => rx' # <<>>
    <3>1. CASE UNCHANGED <<rx, stored>>
      BY <3>1
    <3>2. ASSUME NEW c \in Chars, Len(rx) < RxSize,
                 rx' = Append(rx, c), stored' = Append(stored, c)
          PROVE  /\ rx' \in Seq(Bytes) /\ Len(rx') <= RxSize /\ stored' \in Seq(Bytes)
                 /\ rx' # <<>>
      <4>1. c \in Bytes
        BY DEF Bytes
      <4>2. rx \in Seq(Bytes) /\ stored \in Seq(Bytes)
        BY TypeParts DEF Typing, HwTypes
      <4>3. /\ Append(rx, c) \in Seq(Bytes) /\ Append(rx, c) # <<>>
            /\ Len(Append(rx, c)) = Len(rx) + 1
        BY <4>1, <4>2, AppendProperties
      <4>4. Append(stored, c) \in Seq(Bytes)
        BY <4>1, <4>2, AppendProperties
      <4>5. Len(rx) \in Nat /\ RxSize \in Nat
        BY <4>2, LenProperties DEF Sizes
      <4> QED
        BY <3>2, <4>3, <4>4, <4>5
    <3> QED
      BY <2>1, <3>1, <3>2
  <2>3. Looked'
    BY <2>1, <2>2 DEF Typing, Looked
  <2>4. TypeOK'
    BY <2>1, <2>2 DEF Typing, TypeOK, Bytes
  <2> QED
    BY <2>1, <2>2, <2>3, <2>4 DEF Typing, Places, Resetting
<1>14. CASE Synchronise
  <2>1. /\ syncing' = FALSE /\ active' = shadow
        /\ UNCHANGED <<shadow, fn, step, polls, ret, up, wire, got, waiting, late>>
        /\ \/ shadow.reset /\ tx' = <<>> /\ rx' = <<>> /\ put' = wire /\ stored' = got
           \/ UNCHANGED <<tx, rx, put, stored>>
    BY <1>14 DEF Synchronise, run
  <2>2. /\ rx' \in Seq(Bytes) /\ Len(rx') <= RxSize /\ tx' \in Seq(Bytes) /\ Len(tx') <= TxSize
        /\ put' \in Seq(Bytes) /\ stored' \in Seq(Bytes)
    <3>1. <<>> \in Seq(Bytes) /\ Len(<<>>) = 0
      BY EmptySeq
    <3>2. CASE tx' = <<>> /\ rx' = <<>> /\ put' = wire /\ stored' = got
      <4>1. Len(tx') = 0 /\ Len(rx') = 0 /\ tx' \in Seq(Bytes) /\ rx' \in Seq(Bytes)
        BY <3>1, <3>2
      <4> QED
        BY <3>2, <4>1
    <3>3. CASE UNCHANGED <<tx, rx, put, stored>>
      BY <3>3
    <3> QED
      BY <2>1, <3>2, <3>3
  <2>3. Looked'
    BY <2>1 DEF Typing, Looked, Resetting
  <2>4. TypeOK'
    BY <2>1, <2>2 DEF Typing, TypeOK, Bytes
  <2> QED
    BY <2>1, <2>2, <2>3, <2>4 DEF Typing, Places, Resetting
<1>15. CASE UNCHANGED vars
  BY <1>15
  DEF vars, hw, run, ghosts, traffic, Typing, TypeOK, Places, Resetting, Looked
<1> QED
  BY <1>1, <1>2, <1>3, <1>4, <1>5, <1>6, <1>7, <1>8, <1>9, <1>10, <1>11, <1>12,
     <1>13, <1>14, <1>15
  DEF Next, Driver

\* The console keeps its types, for every size, guard and clock.
THEOREM TypeCorrect == UartAssumption /\ Spec => []TypeOK
<1> SUFFICES ASSUME UartAssumption PROVE Spec => []TypeOK
  OBVIOUS
<1>0. Sizes
  BY Constants
<1>1. Init => Typing
  BY <1>0, TypingInit
<1>2. Typing /\ [Next]_vars => Typing'
  BY <1>0, TypingStep
<1>3. Typing => TypeOK
  BY DEF Typing
<1> QED
  BY <1>1, <1>2, <1>3, PTL DEF Spec

-----------------------------------------------------------------------------
(* Synchronisation. *)

\* When a wait has seen its answer, what was written is in effect; unless a
\* synchronisation came late, the hardware is busy only while the driver waits
\* and the FIFOs are in reset only early in init; init runs once.
Waiting == fn.name = "init" /\ step \in Syncs /\ polls > 0

Control ==
    /\ Waiting /\ ~syncing => active = shadow
    /\ ~late /\ syncing => Waiting
    /\ ~late /\ active.reset => fn.name = "init" /\ step \in 2 .. 4
    /\ fn.name = "init" => ret = "none"
    /\ ret = "none" => up = 0

LEMMA ControlInit == Init => Control
  BY DEF Init, RomConfig, Control, Waiting

\* A call other than init touches neither the registers nor their waits.
LEMMA OutsideInit ==
    ASSUME Typing, Control, fn.name # "init", fn'.name # "init",
           UNCHANGED <<active, syncing, up, late>>,
           ret' = "none" => ret = "none"
    PROVE  Control'
  BY DEF Control, Waiting

LEMMA ControlStep == Typing /\ Control /\ [Next]_vars => Control'
<1> SUFFICES ASSUME Typing, Control, [Next]_vars
             PROVE  Control'
  OBVIOUS
<1>1. CASE Start
  <2>1. /\ UNCHANGED <<active, shadow, syncing, ret, up, late>>
        /\ fn.name = "none" /\ step' = 1
        /\ fn'.name = "init" => ret = "none"
    BY <1>1 DEF Start, Call, Idle, hw
  <2> QED
    BY <2>1 DEF Control, Waiting, Syncs
<1>2. CASE GetcharRefused
  BY <1>2 DEF GetcharRefused, Control, Waiting, Idle, hw, ghosts
<1>3. CASE InitRefused
  BY <1>3 DEF InitRefused, Running, Return, Control, Waiting, Syncs, hw, ghosts
<1>4. CASE InitWrite
  <2>1. /\ fn.name = "init" /\ step \in {1, 3, 5, 7} /\ step' = step + 1 /\ polls' = 0
        /\ UNCHANGED <<active, syncing, fn, ret, up, late>>
    BY <1>4, Body DEF InitWrite, Running, Typing, Places, Syncs, ghosts
  <2> QED
    BY <2>1 DEF Control, Waiting, Syncs
<1>5. CASE SyncAsk
  <2>1. /\ fn.name = "init" /\ step \in Syncs /\ syncing' = TRUE /\ polls' = 1
        /\ UNCHANGED <<active, shadow, fn, step, ret, up, late>>
    BY <1>5, Body DEF SyncAsk, Running, Typing, Places, ghosts
  <2> QED
    BY <2>1 DEF Control, Waiting
<1>6. CASE SyncPoll
  <2>1. /\ fn.name = "init" /\ step \in Syncs /\ polls \in Nat /\ polls > 0
        /\ UNCHANGED <<active, shadow, syncing>>
    BY <1>6, Body DEF SyncPoll, Running, Typing, Places, hw
  <2>2. /\ Waiting /\ ret = "none" /\ up = 0
        /\ ~syncing => active = shadow
    BY <2>1 DEF Control, Waiting
  <2>3. shadow.reset <=> step \in 2 .. 3
    BY <2>1 DEF Typing, Resetting
  <2>4. CASE step = 8 /\ Return("OK") /\ late' = (late \/ syncing)
    <3>1. /\ fn'.name = "none" /\ ret' = "OK" /\ (~late' => ~syncing /\ ~late)
      BY <2>4 DEF Return
    <3>2. ~late' => ~active.reset
      BY <2>2, <2>3, <2>4, <3>1
    <3> QED
      BY <2>1, <3>1, <3>2 DEF Control, Waiting
  <2>5. CASE step # 8 /\ step' = step + 1 /\ UNCHANGED <<fn, ret, up>>
             /\ late' = (late \/ syncing)
    <3>1. ~late' => ~syncing /\ ~late /\ (active.reset <=> step \in 2 .. 3)
      BY <2>2, <2>3, <2>5
    <3>2. step' \notin Syncs /\ (step = 2 => step' = 3)
      BY <2>1, <2>5 DEF Syncs
    <3>3. step \in 2 .. 3 => step' \in 2 .. 4
      BY <2>1, <2>5 DEF Syncs
    <3> QED
      BY <2>1, <2>2, <2>5, <3>1, <3>2, <3>3 DEF Control, Waiting
  <2>6. CASE polls' = polls + 1 /\ UNCHANGED <<fn, step, ret, up, late>>
    BY <2>1, <2>2, <2>6 DEF Control, Waiting
  <2> QED
    BY <1>6, <2>4, <2>5, <2>6, Body DEF SyncPoll, NextOp, Again
<1>7. CASE PutcharLook
  BY <1>7, OutsideInit DEF PutcharLook, Running, Return, Again, hw, ghosts
<1>8. CASE PutcharWrite
  BY <1>8, OutsideInit DEF PutcharWrite, Running, Return
<1>9. CASE GetcharLook
  BY <1>9, OutsideInit DEF GetcharLook, Running, Return, Again, hw, ghosts
<1>10. CASE GetcharTake
  BY <1>10, OutsideInit DEF GetcharTake, Running, Return
<1>11. CASE Flush
  BY <1>11, OutsideInit DEF Flush, Running, Return, Again, hw, ghosts
<1>12. CASE Send
  BY <1>12 DEF Send, Control, Waiting, run
<1>13. CASE Receive
  BY <1>13 DEF Receive, Control, Waiting, run
<1>14. CASE Synchronise
  <2>1. shadow.reset => fn.name = "init" /\ step \in 2 .. 4
    BY DEF Typing, Resetting, Places
  <2> QED
    BY <1>14, <2>1 DEF Synchronise, Control, Waiting, run
<1>15. CASE UNCHANGED vars
  BY <1>15 DEF vars, hw, run, ghosts, Control, Waiting
<1> QED
  BY <1>1, <1>2, <1>3, <1>4, <1>5, <1>6, <1>7, <1>8, <1>9, <1>10, <1>11, <1>12,
     <1>13, <1>14, <1>15
  DEF Next, Driver

-----------------------------------------------------------------------------
(* Traffic. *)

\* What was received is what was returned and what is there; unless a
\* synchronisation came late, what was written is what was sent and what is there.
Traffic ==
    /\ stored = got \o rx
    /\ ~late => put = wire \o tx

\* Five actions move bytes; late stays.
LEMMA Movers ==
    ASSUME [Next]_vars
    PROVE  /\ \/ UNCHANGED <<tx, rx, wire, put, stored, got>>
              \/ PutcharWrite \/ GetcharTake \/ Send \/ Receive \/ Synchronise
           /\ late => late'
<1> USE DEF hw, run, traffic, ghosts
<1>1. CASE Start \/ GetcharRefused \/ InitRefused \/ InitWrite \/ SyncAsk
  BY <1>1 DEF Start, GetcharRefused, InitRefused, InitWrite, SyncAsk
<1>2. CASE SyncPoll
  <2>1. UNCHANGED <<tx, rx, wire, put, stored, got>>
    BY <1>2 DEF SyncPoll
  <2>2. late' = (late \/ syncing) \/ late' = late
    BY <1>2 DEF SyncPoll
  <2>3. late => late'
    BY <2>2, Zenon
  <2> QED
    BY <2>1, <2>3
<1>3. CASE PutcharLook \/ GetcharLook \/ Flush
  BY <1>3 DEF PutcharLook, GetcharLook, Flush
<1>4. CASE PutcharWrite \/ GetcharTake \/ Send \/ Receive \/ Synchronise
  BY <1>4 DEF PutcharWrite, GetcharTake, Send, Receive, Synchronise
<1>5. CASE UNCHANGED vars
  BY <1>5 DEF vars
<1> QED
  BY <1>1, <1>2, <1>3, <1>4, <1>5 DEF Next, Driver

\* A byte that passes from the head of a sequence to the end of another.
LEMMA Passes ==
    ASSUME NEW S, NEW s \in Seq(S), NEW t \in Seq(S), t # <<>>
    PROVE  Append(s, Head(t)) \o Tail(t) = s \o t
<1>1. Head(t) \in S /\ Tail(t) \in Seq(S)
  BY HeadTailProperties
<1>2. Append(s, Head(t)) = s \o <<Head(t)>>
  BY <1>1, AppendIsConcat
<1>3. (s \o <<Head(t)>>) \o Tail(t) = s \o (<<Head(t)>> \o Tail(t))
  BY <1>1, ConcatAssociative
<1>4. <<Head(t)>> \o Tail(t) = t
  BY <1>1, HeadTailProperties
<1> QED
  BY <1>2, <1>3, <1>4

\* A byte that joins the end.
LEMMA Joins ==
    \A s, t \in Seq(Bytes) : \A x \in Bytes : Append(s \o t, x) = s \o Append(t, x)
<1> TAKE s, t \in Seq(Bytes)
<1> TAKE x \in Bytes
<1>1. s \o t \in Seq(Bytes)
  BY ConcatProperties
<1>2. Append(s \o t, x) = (s \o t) \o <<x>> /\ Append(t, x) = t \o <<x>>
  BY <1>1, AppendIsConcat
<1>3. <<x>> \in Seq(Bytes)
  OBVIOUS
<1> QED
  BY <1>2, <1>3, ConcatAssociative

LEMMA TrafficStep ==
    Typing /\ Control /\ Traffic /\ [Next]_vars => Traffic'
<1> SUFFICES ASSUME Typing, Control, Traffic, [Next]_vars
             PROVE  Traffic'
  OBVIOUS
<1>0. \A x \in Bytes : Append(got \o rx, x) = got \o Append(rx, x)
  <2>1. got \in Seq(Bytes) /\ rx \in Seq(Bytes)
    BY DEF Typing, TypeOK, Bytes
  <2> QED
    BY <2>1, Joins, Zenon
<1> USE DEF Traffic
<1>1. late => late'
  BY Movers
<1>2. CASE UNCHANGED <<tx, rx, wire, put, stored, got>>
  BY <1>1, <1>2
<1>3. CASE PutcharWrite
  <2>1. /\ put' = Append(put, fn.arg) /\ fn.arg \in Bytes /\ Len(tx) < TxSize
        /\ UNCHANGED <<rx, wire, stored, got, late>>
    BY <1>3 DEF PutcharWrite, Running, Typing, Places, Looked, Bytes
  <2>2. ~late => tx' = Append(tx, fn.arg)
    BY <1>3, <2>1 DEF PutcharWrite, Running, Control
  <2>3. ~late => Append(wire \o tx, fn.arg) = wire \o Append(tx, fn.arg)
    <3>1. wire \in Seq(Bytes) /\ tx \in Seq(Bytes)
      BY DEF Typing, TypeOK, Bytes
    <3> QED
      BY <2>1, <3>1, Joins
  <2> QED
    BY <2>1, <2>2, <2>3
<1>4. CASE GetcharTake
  <2>1. /\ rx # <<>> /\ got' = Append(got, Head(rx)) /\ rx' = Tail(rx)
        /\ UNCHANGED <<tx, wire, put, stored, late>>
    BY <1>4 DEF GetcharTake, RestOfRx, Running, Typing, Looked
  <2>2. Append(got, Head(rx)) \o Tail(rx) = got \o rx
    BY <2>1, Passes DEF Typing, TypeOK, Bytes
  <2> QED
    BY <2>1, <2>2
<1>5. CASE Send
  <2>1. /\ tx # <<>> /\ wire' = Append(wire, Head(tx)) /\ tx' = Tail(tx)
        /\ UNCHANGED <<rx, put, stored, got, late>>
    BY <1>5 DEF Send
  <2>2. Append(wire, Head(tx)) \o Tail(tx) = wire \o tx
    BY <2>1, Passes DEF Typing, TypeOK, Bytes
  <2> QED
    BY <2>1, <2>2
<1>6. CASE Receive
  <2>1. UNCHANGED <<tx, wire, put, got, late>>
    BY <1>6 DEF Receive
  <2>2. CASE UNCHANGED <<rx, stored>>
    BY <2>1, <2>2
  <2>3. ASSUME NEW c \in Chars, rx' = Append(rx, c), stored' = Append(stored, c)
        PROVE  Traffic'
    <3>1. c \in Bytes
      BY DEF Bytes
    <3> QED
      BY <1>0, <2>1, <2>3, <3>1
  <2> QED
    BY <1>6, <2>2, <2>3 DEF Receive
<1>7. CASE Synchronise
  <2>1. UNCHANGED <<wire, got, late>>
    BY <1>7 DEF Synchronise
  <2>2. CASE UNCHANGED <<tx, rx, put, stored>>
    BY <2>1, <2>2
  <2>3. CASE tx' = <<>> /\ rx' = <<>> /\ put' = wire /\ stored' = got
    <3>1. wire \o <<>> = wire /\ got \o <<>> = got
      BY ConcatEmptySeq DEF Typing
    <3> QED
      BY <2>1, <2>3, <3>1
  <2> QED
    BY <1>7, <2>2, <2>3 DEF Synchronise
<1> QED
  BY <1>2, <1>3, <1>4, <1>5, <1>6, <1>7, Movers

LEMMA TrafficInit ==
    ASSUME Sizes PROVE Init => Traffic
<1> SUFFICES ASSUME Init
             PROVE  Traffic
  OBVIOUS
<1>1. tx \in Seq(Bytes) /\ rx \in Seq(Bytes)
  BY TypingInit DEF Typing, TypeOK, Bytes
<1>2. <<>> \o tx = tx /\ <<>> \o rx = rx
  BY <1>1, ConcatEmptySeq
<1> QED
  BY <1>2 DEF Init, Traffic

\* Both FIFOs keep what they were given, for every size of the FIFOs and
\* whatever the hardware does between a look and an access.
LEMMA TrafficAlways == UartAssumption /\ Spec => [](Typing /\ Control /\ Traffic)
<1> SUFFICES ASSUME UartAssumption PROVE Spec => [](Typing /\ Control /\ Traffic)
  OBVIOUS
<1>0. Sizes
  BY Constants
<1>1. Init => Typing /\ Control /\ Traffic
  BY <1>0, TypingInit, ControlInit, TrafficInit
<1>2. Typing /\ Control /\ Traffic /\ [Next]_vars => (Typing /\ Control /\ Traffic)'
  BY <1>0, TypingStep, ControlStep, TrafficStep
<1> QED
  BY <1>1, <1>2, PTL DEF Spec

LEMMA TrafficInOrder == Traffic => TxInOrder /\ RxInOrder
BY DEF Traffic, TxInOrder, RxInOrder

\* As long as no synchronisation has outlasted its guard, every byte that
\* esp_uart_putchar wrote is sent, in order, or still in the FIFO
\* (console.c:128).
THEOREM SentInOrder == UartAssumption /\ Spec => []TxInOrder
<1> SUFFICES ASSUME UartAssumption PROVE Spec => []TxInOrder
  OBVIOUS
<1> QED
  BY TrafficInOrder, TrafficAlways, PTL

\* Every byte that came in was returned by esp_uart_getchar, in order, or is
\* still in the FIFO (console.c:147).
THEOREM ReturnedInOrder == UartAssumption /\ Spec => []RxInOrder
<1> SUFFICES ASSUME UartAssumption PROVE Spec => []RxInOrder
  OBVIOUS
<1> QED
  BY TrafficInOrder, TrafficAlways, PTL

-----------------------------------------------------------------------------
(* The bytes of the ROM. *)

OnlyChars == tx \in Seq(Chars) /\ rx \in Seq(Chars)

\* Unless a synchronisation came late: the reset that the hardware has seen
\* empties the FIFOs, nothing enters them before it is withdrawn, and nothing
\* of the ROM after.
Clean ==
    ~late =>
        /\ Waiting /\ step = 2 /\ ~syncing => tx = <<>> /\ rx = <<>>
        /\ fn.name = "init" /\ step > 2 => OnlyChars
        /\ up # 0 => OnlyChars

LEMMA OnlyCharsKept ==
    ASSUME Typing, [Next]_vars, OnlyChars
    PROVE  OnlyChars'
<1>1. CASE UNCHANGED <<tx, rx, wire, put, stored, got>>
  BY <1>1 DEF OnlyChars
<1>2. CASE PutcharWrite
  <2>1. fn.arg \in Chars /\ rx' = rx /\ (tx' = tx \/ tx' = Append(tx, fn.arg))
    BY <1>2 DEF PutcharWrite, Running, Typing, Places
  <2> QED
    BY <2>1, AppendProperties DEF OnlyChars
<1>3. CASE GetcharTake
  <2>1. rx # <<>> /\ rx' = Tail(rx) /\ tx' = tx
    BY <1>3 DEF GetcharTake, RestOfRx, Running, Typing, Looked
  <2> QED
    BY <2>1, HeadTailProperties DEF OnlyChars
<1>4. CASE Send
  <2>1. tx # <<>> /\ tx' = Tail(tx) /\ rx' = rx
    BY <1>4 DEF Send
  <2> QED
    BY <2>1, HeadTailProperties DEF OnlyChars
<1>5. CASE Receive
  <2>1. tx' = tx /\ (rx' = rx \/ \E c \in Chars : rx' = Append(rx, c))
    BY <1>5 DEF Receive
  <2> QED
    BY <2>1, AppendProperties DEF OnlyChars
<1>6. CASE Synchronise
  <2>1. UNCHANGED <<tx, rx>> \/ (tx' = <<>> /\ rx' = <<>>)
    BY <1>6 DEF Synchronise
  <2>2. <<>> \in Seq(Chars)
    BY EmptySeq
  <2> QED
    BY <2>1, <2>2 DEF OnlyChars
<1> QED
  BY <1>1, <1>2, <1>3, <1>4, <1>5, <1>6, Movers

LEMMA CleanStep ==
    Typing /\ Control /\ Clean /\ [Next]_vars => Clean'
<1> SUFFICES ASSUME Typing, Control, Clean, [Next]_vars, ~late'
             PROVE  Clean'
  BY DEF Clean
<1>1. ~late
  BY Movers
<1>2. OnlyChars => OnlyChars'
  BY OnlyCharsKept
<1>3. <<>> \in Seq(Chars)
  BY EmptySeq
<1>4. CASE SyncPoll
  <2>1. /\ fn.name = "init" /\ step \in Syncs /\ polls \in Nat /\ polls > 0 /\ up = 0
        /\ UNCHANGED <<tx, rx, syncing>>
    BY <1>4, Body DEF SyncPoll, Running, Typing, Places, hw, Control
  <2>2. Waiting
    BY <2>1 DEF Waiting
  <2>3. CASE step = 8 /\ Return("OK")
    <3>1. fn'.name # "init" /\ OnlyChars
      BY <1>1, <2>1, <2>3 DEF Return, Clean
    <3> QED
      BY <1>2, <3>1 DEF Clean, Waiting
  <2>4. CASE step # 8 /\ step' = step + 1 /\ UNCHANGED <<fn, up>> /\ late' = (late \/ syncing)
    <3>1. OnlyChars
      <4>1. CASE step = 2
        <5>1. tx = <<>> /\ rx = <<>>
          BY <1>1, <2>2, <2>4, <4>1 DEF Clean
        <5> QED
          BY <1>3, <5>1 DEF OnlyChars
      <4>2. CASE step > 2
        BY <1>1, <2>1, <4>2 DEF Clean
      <4> QED
        BY <2>1, <4>1, <4>2 DEF Syncs
    <3>2. step' \notin Syncs
      BY <2>1, <2>4 DEF Syncs
    <3> QED
      BY <1>2, <2>1, <2>4, <3>1, <3>2 DEF Clean, Waiting
  <2>5. CASE UNCHANGED <<fn, step, up>>
    BY <1>1, <1>2, <2>1, <2>2, <2>5 DEF Clean, Waiting
  <2> QED
    BY <1>4, <2>3, <2>4, <2>5, Body DEF SyncPoll, NextOp, Again
<1>5. CASE Synchronise
  <2>1. UNCHANGED <<fn, step, polls, up>> /\ (shadow.reset => tx' = <<>> /\ rx' = <<>>)
    BY <1>5 DEF Synchronise, run
  <2>2. Waiting /\ step = 2 => tx' = <<>> /\ rx' = <<>>
    BY <2>1 DEF Typing, Resetting, Waiting
  <2> QED
    BY <1>1, <1>2, <2>1, <2>2 DEF Clean, Waiting
<1>6. CASE Send \/ Receive
  <2>1. UNCHANGED <<active, shadow, syncing, fn, step, polls, up>> /\ ~active.reset
    BY <1>6 DEF Send, Receive, run
  <2>2. ~(Waiting /\ step = 2 /\ ~syncing)
    BY <2>1 DEF Control, Typing, Resetting, Waiting
  <2> QED
    BY <1>1, <1>2, <2>1, <2>2 DEF Clean, Waiting
<1>7. CASE InitWrite \/ SyncAsk
  <2>1. /\ fn.name = "init" /\ step \in 1 .. 8 /\ UNCHANGED <<tx, rx, fn, up>>
        /\ \/ step' = step + 1 /\ polls' = 0 /\ step # 2
           \/ step' = step /\ syncing'
    BY <1>7, Body DEF InitWrite, SyncAsk, Running, Typing, Places, ghosts, Syncs
  <2> QED
    BY <1>1, <1>2, <2>1 DEF Clean, Waiting
<1>8. CASE Start
  <2>1. step' = 1 /\ UNCHANGED up
    BY <1>8 DEF Start, Call
  <2> QED
    BY <1>1, <1>2, <2>1 DEF Clean
<1>9. CASE fn.name # "init" /\ fn'.name # "init" /\ UNCHANGED up
  BY <1>1, <1>2, <1>9 DEF Clean, Waiting
<1>10. CASE InitRefused
  <2>1. fn'.name = "none" /\ UNCHANGED up
    BY <1>10 DEF InitRefused, Return
  <2> QED
    BY <1>1, <1>2, <2>1 DEF Clean, Waiting
<1>11. CASE UNCHANGED vars
  BY <1>1, <1>2, <1>11 DEF Clean, Waiting, OnlyChars, vars, hw, run
<1>12. CASE GetcharRefused \/ PutcharLook \/ PutcharWrite \/ GetcharLook \/ GetcharTake \/ Flush
  <2>1. fn.name # "init" /\ fn'.name # "init" /\ UNCHANGED up
    BY <1>12 DEF GetcharRefused, PutcharLook, PutcharWrite, GetcharLook, GetcharTake,
                 Flush, Idle, Running, Return, Again
  <2> QED
    BY <1>9, <2>1
<1> QED
  BY <1>4, <1>5, <1>6, <1>7, <1>8, <1>10, <1>11, <1>12 DEF Next, Driver

LEMMA CleanInit == Init => Clean
  BY DEF Init, Clean, Waiting

\* What enters the FIFOs after init is of the callers and the other side.
LEMMA CleanIsOurs ==
    ASSUME UartAssumption PROVE Clean => NothingStale
<1> SUFFICES ASSUME OnlyChars
             PROVE  Rom \notin {(tx \o rx)[i] : i \in 1 .. Len(tx \o rx)}
  BY DEF Clean, NothingStale
<1>1. tx \o rx \in Seq(Chars)
  BY ConcatProperties DEF OnlyChars
<1>2. \A i \in 1 .. Len(tx \o rx) : (tx \o rx)[i] \in Chars
  BY <1>1, ElementOfSeq
<1> QED
  BY <1>2 DEF UartAssumption

\* After an init that answered OK in time, no byte of the ROM is in a FIFO,
\* for every guard and every speed of the synchronisation.
THEOREM NoRomByte == UartAssumption /\ Spec => []NothingStale
<1> SUFFICES ASSUME UartAssumption PROVE Spec => []NothingStale
  OBVIOUS
<1>0. Sizes
  BY Constants
<1>1. Init => Typing /\ Control /\ Clean
  BY <1>0, TypingInit, ControlInit, CleanInit
<1>2. Typing /\ Control /\ Clean /\ [Next]_vars => (Typing /\ Control /\ Clean)'
  BY <1>0, TypingStep, ControlStep, CleanStep
<1> QED
  BY <1>1, <1>2, CleanIsOurs, PTL DEF Spec

-----------------------------------------------------------------------------
(* The configuration. *)

Computed(baud) ==
    shadow.div = Divider(baud) /\ shadow.frag = Frag(baud)

\* What init has written is in the registers, and at the end in effect.
Settled ==
    /\ fn.name = "init" /\ step >= 6 => Computed(fn.arg)
    /\ fn.name = "init" /\ step = 8 => shadow.frame = "8n1"
    /\ up # 0 => Computed(up) /\ shadow.frame = "8n1"
    /\ up # 0 /\ ~late => active = shadow

LEMMA SettledInit == Init => Settled
  BY DEF Init, Settled

LEMMA SettledStep ==
    Typing /\ Control /\ Settled /\ [Next]_vars => Settled'
<1> SUFFICES ASSUME Typing, Control, Settled, [Next]_vars
             PROVE  Settled'
  OBVIOUS
<1>1. CASE InitWrite
  <2>1. fn.name = "init" /\ step \in {1, 3, 5, 7} /\ up = 0
    BY <1>1, Body DEF InitWrite, Running, Typing, Places, Syncs, Control
  <2>2. step' = step + 1 /\ UNCHANGED <<fn, up>>
    BY <1>1 DEF InitWrite
  <2>3. shadow \in Config
    BY DEF Typing, TypeOK
  <2>4. CASE step = 5
    <3>1. shadow' = [shadow EXCEPT !.div = Divider(fn.arg), !.frag = Frag(fn.arg)]
      BY <1>1, <2>4, Body DEF InitWrite
    <3>2. shadow'.div = Divider(fn.arg) /\ shadow'.frag = Frag(fn.arg)
      BY <2>3, <3>1 DEF Config
    <3> QED
      BY <2>1, <2>2, <2>4, <3>2 DEF Settled, Computed
  <2>5. CASE step = 7
    <3>1. shadow' = [shadow EXCEPT !.frame = "8n1"]
      BY <1>1, <2>5, Body DEF InitWrite
    <3>2. /\ shadow'.div = shadow.div /\ shadow'.frag = shadow.frag
          /\ shadow'.frame = "8n1"
      BY <2>3, <3>1 DEF Config
    <3> QED
      BY <2>1, <2>2, <2>5, <3>2 DEF Settled, Computed
  <2> QED
    BY <2>1, <2>2, <2>4, <2>5 DEF Settled
<1>2. CASE SyncPoll
  <2>1. /\ fn.name = "init" /\ step \in Syncs /\ polls \in Nat /\ polls > 0 /\ up = 0
        /\ UNCHANGED <<shadow, active, syncing>>
    BY <1>2, Body DEF SyncPoll, Running, Typing, Places, hw, Control
  <2>2. CASE step = 8 /\ Return("OK") /\ up' = fn.arg /\ late' = (late \/ syncing)
    <3>1. fn'.name = "none" /\ Computed(fn.arg) /\ shadow.frame = "8n1"
      BY <2>1, <2>2 DEF Return, Settled
    <3>2. ~late' => active = shadow
      BY <2>1, <2>2 DEF Control, Waiting
    <3> QED
      BY <2>1, <2>2, <3>1, <3>2 DEF Settled, Computed
  <2>3. CASE step # 8 /\ step' = step + 1 /\ UNCHANGED <<fn, up>>
    BY <2>1, <2>3 DEF Settled, Computed, Syncs
  <2>4. CASE UNCHANGED <<fn, step, up>>
    BY <2>1, <2>4 DEF Settled, Computed
  <2> QED
    BY <1>2, <2>2, <2>3, <2>4, Body DEF SyncPoll, NextOp, Again
<1>3. CASE Synchronise
  <2>1. active' = shadow /\ UNCHANGED <<shadow, fn, step, up, late>>
    BY <1>3 DEF Synchronise, run
  <2> QED
    BY <2>1 DEF Settled, Computed
<1>4. CASE SyncAsk \/ Send \/ Receive \/ UNCHANGED vars
  <2>1. UNCHANGED <<shadow, active, fn, step, up, late>>
    BY <1>4 DEF SyncAsk, Send, Receive, vars, hw, run, ghosts
  <2> QED
    BY <2>1 DEF Settled, Computed
<1>5. CASE Start \/ GetcharRefused \/ InitRefused \/ PutcharLook \/ PutcharWrite
           \/ GetcharLook \/ GetcharTake \/ Flush
  <2>1. UNCHANGED <<shadow, active, up, late>>
    BY <1>5 DEF Start, GetcharRefused, InitRefused, PutcharLook, PutcharWrite,
                GetcharLook, GetcharTake, Flush, hw, ghosts
  <2>2. fn'.name = "init" => step' = 1
    BY <1>5 DEF Start, GetcharRefused, InitRefused, PutcharLook, PutcharWrite,
                GetcharLook, GetcharTake, Flush, Call, Return, Again, Running, Idle
  <2> QED
    BY <2>1, <2>2 DEF Settled, Computed
<1> QED
  BY <1>1, <1>2, <1>3, <1>4, <1>5 DEF Next, Driver

LEMMA Quotient ==
    ASSUME NEW n \in Nat, n # 0, NEW k \in Nat, NEW m \in 0 .. n - 1
    PROVE  (n * k + m) \div n = k
<1> DEFINE x == n * k + m
           y == x \div n
<1>1. x \in Nat
  OBVIOUS
<1>2. y \in Nat /\ n * y <= x /\ x < n * y + n
  BY <1>1
<1>3. n * (y - k) < n /\ n * (k - y) < n
  BY <1>2
<1>4. y - k < 1 /\ k - y < 1
  BY <1>2, <1>3
<1> QED
  BY <1>2, <1>4

\* Whole part and sixteenths: SCLK / baud, rounded down to a sixteenth.
LEMMA Sixteenths ==
    ASSUME Sizes, NEW b \in Nat, b # 0, SClk \div b < DivLimit
    PROVE  16 * Divider(b) + Frag(b) = (16 * SClk) \div b
<1> DEFINE q == SClk \div b
           r == SClk % b
           f == (r * 16) \div b
<1>1. q \in Nat /\ r \in 0 .. b - 1 /\ SClk = b * q + r /\ r <= SClk
  BY DEF Sizes
<1>2. r * 16 \in Nat /\ r * 16 < 16 * b /\ r * 16 < WordLimit
  BY <1>1 DEF Sizes
<1>3. (r * 16) % WordLimit = r * 16
  BY <1>2 DEF Sizes
<1>4. f \in 0 .. 15
  BY <1>2
<1>5. f % 16 = f
  BY <1>4
<1>6. Frag(b) = f
  BY <1>3, <1>5 DEF Frag
<1>7. Divider(b) = q
  BY <1>1 DEF Divider, Sizes
<1>8. 16 * SClk = b * (16 * q) + r * 16
  BY <1>1 DEF Sizes
<1>9. (16 * SClk) \div b = 16 * q + f
  <2> DEFINE m == (r * 16) % b
             k == 16 * q + f
  <2>1. m \in 0 .. b - 1 /\ r * 16 = b * f + m
    BY <1>2
  <2>2. k \in Nat /\ b * k = b * (16 * q) + b * f
    BY <1>1, <1>4
  <2> HIDE DEF m, k, q, r, f
  <2>3. 16 * SClk = b * k + m
    BY <1>1, <1>4, <1>8, <2>1, <2>2
  <2>4. (b * k + m) \div b = k
    BY <2>1, <2>2, Quotient
  <2> QED
    BY <2>3, <2>4 DEF k
<1> QED
  BY <1>6, <1>7, <1>9

\* What init computed is the baud rate to a sixteenth.
LEMMA SettledIsComputed ==
    ASSUME UartAssumption PROVE Typing /\ Control /\ Settled => ConfigSettles
<1>0. Sizes
  BY Constants
<1> SUFFICES ASSUME Typing, Control, Settled, up # 0, ~late
             PROVE  /\ ~active.reset /\ active.frame = "8n1"
                    /\ SClk \div up < DivLimit =>
                          16 * active.div + active.frag = (16 * SClk) \div up
  BY DEF ConfigSettles
<1>1. active = shadow /\ Computed(up) /\ shadow.frame = "8n1"
  BY DEF Settled
<1>2. ~active.reset
  BY DEF Control
<1>3. up \in Nat /\ up # 0
  BY DEF UartAssumption, Typing, TypeOK
<1> QED
  BY <1>0, <1>1, <1>2, <1>3, Sixteenths DEF Computed

\* After an init that answered OK in time, the configuration it computed is in
\* effect, for every clock and every baud rate.
THEOREM ConfigHolds == UartAssumption /\ Spec => []ConfigSettles
<1> SUFFICES ASSUME UartAssumption PROVE Spec => []ConfigSettles
  OBVIOUS
<1>0. Sizes
  BY Constants
<1>1. Init => Typing /\ Control /\ Settled
  BY <1>0, TypingInit, ControlInit, SettledInit
<1>2. Typing /\ Control /\ Settled /\ [Next]_vars => (Typing /\ Control /\ Settled)'
  BY <1>0, TypingStep, ControlStep, SettledStep
<1> QED
  BY <1>1, <1>2, SettledIsComputed, PTL DEF Spec

-----------------------------------------------------------------------------
(* The byte that waits. *)

\* The first look of esp_uart_getchar finds it.
Held == fn.name = "getchar" /\ waiting /\ step = 1 => rx # <<>> /\ polls = 0

LEMMA HeldInit == Init => Held
  BY DEF Init, Held

LEMMA HeldStep ==
    ASSUME Sizes PROVE Typing /\ Held /\ [Next]_vars => Held'
<1> SUFFICES ASSUME Typing, Held, [Next]_vars, fn'.name = "getchar", waiting', step' = 1
             PROVE  rx' # <<>> /\ polls' = 0
  BY DEF Held
<1>1. CASE Start
  BY <1>1 DEF Start, Call, hw
<1>2. CASE GetcharLook
  <2>1. fn.name = "getchar" /\ step = 1 /\ waiting /\ rx # <<>> /\ polls = 0
    BY <1>2 DEF GetcharLook, Running, Held, ghosts
  <2>2. Iterations(fn.arg) \in Nat /\ Iterations(fn.arg) > 0
    <3>1. fn.arg \in Timeouts
      BY <2>1 DEF Typing, Places
    <3>2. Iterations(fn.arg) \in 1 .. WordLimit - 1
      BY <3>1, Fields
    <3> QED
      BY <3>2 DEF Sizes
  <2> QED
    BY <1>2, <2>1, <2>2 DEF GetcharLook, Return
<1>3. CASE Send \/ UNCHANGED vars
  BY <1>3 DEF Send, vars, hw, run, ghosts, Held
<1>4. CASE Receive
  <2>1. rx # <<>> /\ polls' = 0
    BY <1>4 DEF Receive, run, Held
  <2>2. rx' = rx \/ \E c \in Chars : rx' = Append(rx, c)
    BY <1>4 DEF Receive
  <2>3. rx \in Seq(Bytes) /\ Chars \subseteq Bytes
    BY DEF Typing, TypeOK, Bytes
  <2> QED
    BY <2>1, <2>2, <2>3, AppendProperties
<1>5. CASE Synchronise
  <2>1. fn.name = "getchar" /\ step = 1 /\ waiting /\ polls' = polls
    BY <1>5 DEF Synchronise, run
  <2>2. ~shadow.reset
    BY <2>1 DEF Typing, Resetting
  <2> QED
    BY <1>5, <2>1, <2>2 DEF Synchronise, Held
<1>6. CASE GetcharRefused
  BY <1>6 DEF GetcharRefused, Idle
<1>7. CASE InitRefused \/ InitWrite \/ SyncAsk \/ SyncPoll
  <2>1. fn.name # "getchar" /\ (fn' = fn \/ fn' = [name |-> "none", arg |-> 0])
    <3>1. CASE InitWrite
      BY <3>1 DEF InitWrite, Running
    <3>2. CASE InitRefused \/ SyncAsk \/ SyncPoll
      BY <3>2 DEF InitRefused, SyncAsk, SyncPoll, NextOp, Running, Return, Again
    <3> QED
      BY <1>7, <3>1, <3>2
  <2> QED
    BY <2>1
<1>8. CASE PutcharLook \/ Flush
  <2>1. fn.name # "getchar" /\ (fn' = fn \/ fn' = [name |-> "none", arg |-> 0])
    BY <1>8 DEF PutcharLook, Flush, Running, Return, Again
  <2> QED
    BY <2>1
<1>9. CASE PutcharWrite \/ GetcharTake
  BY <1>9 DEF PutcharWrite, GetcharTake, Return
<1> QED
  BY <1>1, <1>2, <1>3, <1>4, <1>5, <1>6, <1>7, <1>8, <1>9 DEF Next, Driver

\* A getchar that gives up has looked while no byte waited.
LEMMA HeldIsReturned ==
    ASSUME UartAssumption PROVE Typing /\ Held /\ [Next]_vars => [WaitingAnswered]_vars
<1>0. Sizes
  BY Constants
<1> SUFFICES ASSUME Typing, Held, Next, Running("getchar"), waiting, fn'.name = "none"
             PROVE  ret' = "OK"
  BY DEF WaitingAnswered
<1>1. fn.name = "getchar"
  BY DEF Running
<1>2. GetcharLook \/ GetcharTake
  BY <1>1 DEF Next, Driver, Start, Call, GetcharRefused, Idle, InitRefused, InitWrite,
              SyncAsk, SyncPoll, PutcharLook, PutcharWrite, Flush, Send, Receive,
              Synchronise, Running, run
<1>3. CASE GetcharLook
  <2>1. step = 1 /\ polls = 0
    BY <1>1, <1>3 DEF GetcharLook, Held
  <2>2. Iterations(fn.arg) \in Nat /\ Iterations(fn.arg) > 0
    <3>1. fn.arg \in Timeouts
      BY <1>1 DEF Typing, Places
    <3>2. Iterations(fn.arg) \in 1 .. WordLimit - 1
      BY <1>0, <3>1, Fields
    <3> QED
      BY <3>2 DEF Sizes
  <2>3. fn' = fn
    BY <1>3, <2>1, <2>2 DEF GetcharLook, Again
  <2> QED
    BY <1>1, <2>3
<1> QED
  BY <1>2, <1>3 DEF GetcharTake, Return

\* esp_uart_getchar returns a byte that was there when it was called, for
\* every timeout and every clock: at least one look is made.
THEOREM ByteIsReturned == UartAssumption /\ Spec => WaitingIsReturned
<1> SUFFICES ASSUME UartAssumption PROVE Spec => WaitingIsReturned
  OBVIOUS
<1>0. Sizes
  BY Constants
<1>1. Init => Typing /\ Held
  BY <1>0, TypingInit, HeldInit
<1>2. Typing /\ Held /\ [Next]_vars => (Typing /\ Held)'
  BY <1>0, TypingStep, HeldStep
<1> QED
  BY <1>1, <1>2, HeldIsReturned, PTL DEF Spec, WaitingIsReturned
=============================================================================
