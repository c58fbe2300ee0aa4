---------------------------- MODULE DriversProofs ----------------------------
(***************************************************************************)
(* What TLAPS proves of the flash driver, for every flash geometry, every  *)
(* set of ROM error codes and every set of requests; and, at the end, what *)
(* the proofs of the other two drivers say of all three side by side.      *)
(***************************************************************************)
EXTENDS MCDrivers, TLAPS

\* A multiple of a multiple is a multiple: a length the alignment check lets
\* through is a whole number of words.
LEMMA WholeWords ==
    ASSUME NEW len \in Nat, len % WriteAlign = 0
    PROVE  \E n \in Nat : len = n * WordSize
<1>1. PICK k \in 1 .. WriteAlign : WriteAlign = k * WordSize
  BY GeometryAssumption
<1> DEFINE q == len \div WriteAlign
<1>2. q \in Nat /\ len = q * WriteAlign
  BY GeometryAssumption
<1>3. len = q * (k * WordSize)
  BY <1>1, <1>2
<1>4. q * (k * WordSize) = (q * k) * WordSize
  BY <1>2, GeometryAssumption
<1>5. q * k \in Nat
  BY <1>2
<1> QED
  BY <1>3, <1>4, <1>5

\* Every index below n words lies in one of them.
LEMMA IndexInAWord ==
    ASSUME NEW n \in Nat, NEW i \in 0 .. n * WordSize - 1
    PROVE  \E w \in 0 .. n - 1, b \in 0 .. WordSize - 1 : i = w * WordSize + b
<1> DEFINE w == i \div WordSize
           b == i % WordSize
<1>1. n * WordSize \in Nat /\ i \in Nat
  BY GeometryAssumption
<1>2. w \in Nat /\ b \in 0 .. WordSize - 1 /\ i = w * WordSize + b
  BY <1>1, GeometryAssumption
<1>3. w < n
  <2>1. SUFFICES ASSUME w >= n PROVE FALSE
    BY <1>2
  <2>2. w * WordSize >= n * WordSize
    BY <2>1, <1>2, GeometryAssumption
  <2> QED
    BY <2>2, <1>1, <1>2, GeometryAssumption
<1> QED
  BY <1>2, <1>3

LEMMA WordCount ==
    ASSUME NEW n \in Nat
    PROVE  (n * WordSize) \div WordSize = n
  BY GeometryAssumption

\* The blank check misses no byte of a request the alignment check accepted
\* (flash.c:96-109): this is where 4-byte alignment and 4-byte words meet.
LEMMA BlankCoversRegion ==
    ASSUME NEW addr \in Nat, NEW len \in Nat, len % WriteAlign = 0,
           Blank(addr, len), NEW i \in 0 .. len - 1
    PROVE  mem[addr + i] = Erased
<1>1. PICK n \in Nat : len = n * WordSize
  BY WholeWords
<1>2. PICK w \in 0 .. n - 1, b \in 0 .. WordSize - 1 : i = w * WordSize + b
  BY <1>1, IndexInAWord
<1>3. w \in 0 .. (len \div WordSize) - 1
  BY <1>1, WordCount
<1>4. mem[addr + w * WordSize + b] = Erased
  BY <1>2, <1>3 DEF Blank
<1>5. addr + w * WordSize + b = addr + i
  BY <1>2, GeometryAssumption
<1> QED
  BY <1>4, <1>5

-----------------------------------------------------------------------------
(* Type correctness. *)

LEMMA TypeInit == Init => TypeOK
<1> SUFFICES ASSUME Init PROVE TypeOK
  OBVIOUS
<1> QED
  BY GeometryAssumption DEF Init, TypeOK, Phases, Statuses

LEMMA TypeStep == TypeOK /\ [Next]_vars => TypeOK'
<1> SUFFICES ASSUME TypeOK, [Next]_vars PROVE TypeOK'
  OBVIOUS
<1> USE GeometryAssumption, InputAssumption DEF TypeOK, Call, Answer, Phases, Statuses
<1>1. CASE FlashInit
  BY <1>1 DEF FlashInit, RomFailure
<1>2. CASE Read
  BY <1>2 DEF Read, Fetch
<1>3. CASE Write
  <2>1. PICK addr \in Addrs, len \in Lens :
          \E buf \in (Payloads \cap Buffer(len)) \cup {NULL} :
            /\ Call("write", addr, len, buf)
            /\ WriteRefused(addr, len, buf) \/ WriteStarted(addr, len, buf)
            /\ UNCHANGED <<mem, vendorErr>>
    BY <1>3 DEF Write
  <2>2. PICK buf : /\ Call("write", addr, len, buf)
                   /\ WriteRefused(addr, len, buf) \/ WriteStarted(addr, len, buf)
                   /\ UNCHANGED <<mem, vendorErr>>
    BY <2>1
  <2>3. WriteCheck(addr, len, buf) \in Statuses
    BY DEF WriteCheck
  <2> QED
    BY <2>2, <2>3 DEF WriteRefused, WriteStarted
<1>4. CASE ProgramChunk
  <2>1. mem' \in [Cells -> Byte]
    BY <1>4 DEF ProgramChunk, Programmed, Byte
  <2> QED
    BY <1>4, <2>1 DEF ProgramChunk, Chunk
<1>5. CASE ProgramFails
  BY <1>5 DEF ProgramFails, RomFailure, TornPrograms
<1>6. CASE EraseSector
  BY <1>6 DEF EraseSector
<1>7. CASE EraseDone
  <2>1. mem' \in [Cells -> Byte]
    BY <1>7 DEF EraseDone, SectorErased, Byte, Erased
  <2> QED
    BY <1>7, <2>1 DEF EraseDone
<1>8. CASE EraseFails
  BY <1>8 DEF EraseFails, RomFailure, TornErases
<1>9. CASE GetSectorSize
  BY <1>9 DEF GetSectorSize
<1>10. CASE GetVendorError
  BY <1>10 DEF GetVendorError
<1>11. CASE Reset
  BY <1>11 DEF Reset, TornPrograms, TornErases
<1>12. CASE UNCHANGED vars
  BY <1>12 DEF vars
<1> QED
  BY <1>1, <1>2, <1>3, <1>4, <1>5, <1>6, <1>7, <1>8, <1>9, <1>10, <1>11, <1>12
  DEF Next

\* The driver's variables keep their types through every call, failure and
\* reset.
THEOREM TypeCorrect == Spec => []TypeOK
<1>1. Init => TypeOK
  BY TypeInit
<1>2. TypeOK /\ [Next]_vars => TypeOK'
  BY TypeStep
<1> QED
  BY <1>1, <1>2, PTL DEF Spec

-----------------------------------------------------------------------------
(* The write loop and what a write leaves behind.  WriteStoresBuffer is not *)
(* inductive by itself: that the last chunk completes the buffer needs what *)
(* LoopInvariant says of the chunks before it, and that programming stores  *)
(* the buffer's bits needs the bytes ahead to be blank.                    *)

Settling ==
    /\ ret.status = "PENDING" => phase \in {"program", "erase", "stray"}
    /\ phase = "erase" => req.op = "erase" /\ ret.status = "PENDING"

WriteInv == TypeOK /\ LoopInvariant /\ Settling /\ WriteStoresBuffer

LEMMA WriteInvInit == Init => WriteInv
  BY TypeInit DEF Init, WriteInv, LoopInvariant, Settling, WriteStoresBuffer

\* The facts about a loop turn that both of its outcomes rest on.
LEMMA ChunkFacts ==
    ASSUME TypeOK, LoopInvariant, phase = "program"
    PROVE  /\ Chunk \in Nat /\ Chunk > 0 /\ Chunk <= ChunkSize
           /\ done + Chunk <= req.len
           /\ req.addr \in Nat /\ req.len \in Nat /\ done \in Nat
           /\ \A i \in 0 .. req.len - 1 : req.addr + i \in Cells
<1>1. /\ req.addr \in Nat /\ req.len \in Nat /\ done \in Nat
      /\ done < req.len /\ req.addr + req.len <= TotalSize
  BY GeometryAssumption DEF TypeOK, LoopInvariant, InFlash
<1>2. /\ Chunk \in Nat /\ Chunk > 0 /\ Chunk <= ChunkSize
      /\ done + Chunk <= req.len
  BY <1>1, GeometryAssumption DEF Chunk
<1>3. \A i \in 0 .. req.len - 1 : req.addr + i \in Cells
  BY <1>1, GeometryAssumption DEF Cells
<1> QED
  BY <1>1, <1>2, <1>3

\* A chunk programmed over blank bytes stores the buffer, and nothing else
\* of the request changes.
LEMMA ChunkStores ==
    ASSUME TypeOK, LoopInvariant, ProgramChunk
    PROVE  \E upto \in Nat :
             /\ upto = done + Chunk
             /\ \A i \in 0 .. upto - 1 : mem'[req.addr + i] = req.buf[i]
             /\ \A i \in upto .. req.len - 1 : mem'[req.addr + i] = Erased
<1> USE ChunkFacts DEF ProgramChunk
<1>1. ASSUME NEW i \in 0 .. req.len - 1
      PROVE  /\ i < done => mem'[req.addr + i] = mem[req.addr + i]
             /\ i \in done .. done + Chunk - 1 =>
                    mem'[req.addr + i] = mem[req.addr + i] \cap req.buf[i]
             /\ i >= done + Chunk => mem'[req.addr + i] = mem[req.addr + i]
  <2>1. req.addr + i \in Cells /\ (req.addr + i) - req.addr = i
    BY <1>1
  <2>2. req.addr + i \in Region(req.addr + done, Chunk)
            <=> i \in done .. done + Chunk - 1
    BY <1>1 DEF Region
  <2>3. mem'[req.addr + i] =
            IF req.addr + i \in Region(req.addr + done, Chunk)
            THEN mem[req.addr + i] \cap req.buf[(req.addr + i) - req.addr]
            ELSE mem[req.addr + i]
    BY <2>1 DEF Programmed
  <2> QED
    BY <1>1, <2>1, <2>2, <2>3
<1>2. ASSUME NEW i \in 0 .. req.len - 1 PROVE req.buf[i] \subseteq Bits
  BY <1>2 DEF LoopInvariant, Buffer, Byte
<1>3. ASSUME NEW i \in done .. done + Chunk - 1
      PROVE  mem'[req.addr + i] = req.buf[i]
  <2>1. i \in 0 .. req.len - 1
    BY <1>3
  <2>2. mem[req.addr + i] = Bits
    BY <1>3 DEF LoopInvariant, Untouched, Erased
  <2> QED
    BY <1>1, <1>2, <1>3, <2>1, <2>2
<1>4. ASSUME NEW i \in 0 .. done - 1 PROVE mem'[req.addr + i] = req.buf[i]
  <2>1. i \in 0 .. req.len - 1
    BY <1>4
  <2>2. mem[req.addr + i] = req.buf[i]
    BY <1>4 DEF LoopInvariant, Stored
  <2> QED
    BY <1>1, <1>4, <2>1, <2>2
<1>5. ASSUME NEW i \in done + Chunk .. req.len - 1
      PROVE  mem'[req.addr + i] = Erased
  <2>1. i \in 0 .. req.len - 1
    BY <1>5
  <2>2. mem[req.addr + i] = Erased
    BY <1>5 DEF LoopInvariant, Untouched
  <2> QED
    BY <1>1, <1>5, <2>1, <2>2
<1> DEFINE upto == done + Chunk
<1>6. upto \in Nat /\ \A i \in 0 .. upto - 1 : i < done \/ i \in done .. done + Chunk - 1
  OBVIOUS
<1>7. \A i \in 0 .. upto - 1 : mem'[req.addr + i] = req.buf[i]
  BY <1>3, <1>4, <1>6
<1>8. \A i \in upto .. req.len - 1 : mem'[req.addr + i] = Erased
  BY <1>5
<1> QED
  BY <1>6, <1>7, <1>8

\* Entering the loop: the blank check has seen every byte of the request.
LEMMA LoopStarts ==
    ASSUME TypeOK, NEW addr \in Addrs, NEW len \in Lens,
           NEW buf \in (Payloads \cap Buffer(len)) \cup {NULL},
           Call("write", addr, len, buf), WriteStarted(addr, len, buf),
           UNCHANGED <<mem, vendorErr>>
    PROVE  LoopInvariant'
<1>1. SUFFICES ASSUME phase' = "program" PROVE LoopInvariant'
  BY DEF LoopInvariant
<1>2. /\ addr \in Nat /\ len \in Nat /\ len # 0 /\ buf # NULL
      /\ len % WriteAlign = 0
  BY GeometryAssumption, InputAssumption DEF WriteStarted, WriteCheck
<1>3. InFlash(addr, len) /\ Blank(addr, len) /\ done' = 0 /\ ret'.status = "PENDING"
  BY <1>1 DEF WriteStarted, Answer
<1>4. \A i \in 0 .. len - 1 : mem[addr + i] = Erased
  BY <1>2, <1>3, BlankCoversRegion
<1>5. /\ req'.op = "write" /\ req'.addr = addr /\ req'.len = len
      /\ req'.buf = buf /\ mem' = mem
  BY DEF Call
<1>6. buf \in Buffer(len)
  BY <1>2
<1>7. InFlash(addr, len)'  <=> InFlash(addr, len)
  BY DEF InFlash
<1>8. Stored(0, 0)' /\ Untouched(0, len)'
  BY <1>2, <1>4, <1>5 DEF Stored, Untouched
<1> QED
  BY <1>2, <1>3, <1>5, <1>6, <1>8 DEF LoopInvariant, InFlash, Stored, Untouched

LEMMA WriteInvStep == WriteInv /\ [Next]_vars => WriteInv'
<1> SUFFICES ASSUME WriteInv, [Next]_vars PROVE WriteInv'
  OBVIOUS
<1>0. TypeOK /\ TypeOK'
  BY TypeStep DEF WriteInv
<1> SUFFICES LoopInvariant' /\ Settling' /\ WriteStoresBuffer'
  BY <1>0 DEF WriteInv
<1> USE DEF Call, Answer
<1>1. CASE FlashInit
  BY <1>1 DEF FlashInit, RomFailure, WriteInv, LoopInvariant, Settling, WriteStoresBuffer
<1>2. CASE Read
  BY <1>2 DEF Read, Fetch, LoopInvariant, Settling, WriteStoresBuffer
<1>3. CASE Write
  <2>1. PICK addr \in Addrs, len \in Lens :
          \E buf \in (Payloads \cap Buffer(len)) \cup {NULL} :
            /\ Call("write", addr, len, buf)
            /\ WriteRefused(addr, len, buf) \/ WriteStarted(addr, len, buf)
            /\ UNCHANGED <<mem, vendorErr>>
    BY <1>3 DEF Write
  <2>2. PICK buf \in (Payloads \cap Buffer(len)) \cup {NULL} :
            /\ Call("write", addr, len, buf)
            /\ WriteRefused(addr, len, buf) \/ WriteStarted(addr, len, buf)
            /\ UNCHANGED <<mem, vendorErr>>
    BY <2>1
  <2>3. CASE WriteRefused(addr, len, buf)
    <3>1. ret'.status \notin {"OK", "PENDING"}
      BY <2>3 DEF WriteRefused, WriteCheck
    <3>2. phase' = "idle"
      BY <1>3, <2>3 DEF Write, WriteRefused
    <3> QED
      BY <3>1, <3>2 DEF LoopInvariant, Settling, WriteStoresBuffer
  <2>4. CASE WriteStarted(addr, len, buf)
    <3>1. LoopInvariant'
      BY <1>0, <2>2, <2>4, LoopStarts
    <3>2. ret'.status = "PENDING" /\ phase' \in {"program", "stray"}
      BY <2>4 DEF WriteStarted
    <3> QED
      BY <3>1, <3>2 DEF Settling, WriteStoresBuffer
  <2> QED
    BY <2>2, <2>3, <2>4
<1>4. CASE ProgramChunk
  <2>1. LoopInvariant
    BY DEF WriteInv
  <2>2. PICK upto \in Nat :
           /\ upto = done + Chunk
           /\ \A i \in 0 .. upto - 1 : mem'[req.addr + i] = req.buf[i]
           /\ \A i \in upto .. req.len - 1 : mem'[req.addr + i] = Erased
    BY <1>0, <1>4, <2>1, ChunkStores
  <2>3. upto <= req.len /\ req.len \in Nat /\ req' = req
    BY <1>0, <1>4, <2>1, <2>2, ChunkFacts DEF ProgramChunk
  <2>4. CASE upto < req.len
    <3>1. done' = upto /\ UNCHANGED <<phase, ret>>
      BY <1>4, <2>2, <2>3, <2>4 DEF ProgramChunk
    <3>2. /\ \A i \in 0 .. done' - 1 : mem'[req'.addr + i] = req'.buf[i]
          /\ \A i \in done' .. req'.len - 1 : mem'[req'.addr + i] = Erased
      BY <2>2, <2>3, <3>1
    <3>3. Stored(0, done)' /\ Untouched(done, req.len)'
      BY <3>2 DEF Stored, Untouched
    <3> QED
      BY <1>4, <2>1, <2>3, <2>4, <3>1, <3>3
      DEF ProgramChunk, LoopInvariant, Settling, WriteStoresBuffer, InFlash
  <2>5. CASE upto >= req.len
    <3>1. phase' = "idle" /\ ret'.status = "OK"
      BY <1>4, <2>2, <2>3, <2>5 DEF ProgramChunk
    <3>2. upto = req.len
      BY <2>3, <2>5
    <3>3. \A i \in 0 .. req'.len - 1 : mem'[req'.addr + i] = req'.buf[i]
      BY <2>2, <2>3, <3>2
    <3>4. Stored(0, req.len)'
      BY <3>3 DEF Stored
    <3> QED
      BY <3>1, <3>4 DEF LoopInvariant, Settling, WriteStoresBuffer
  <2> QED
    BY <2>3, <2>4, <2>5
<1>5. CASE ProgramFails
  BY <1>5 DEF ProgramFails, RomFailure, LoopInvariant, Settling, WriteStoresBuffer
<1>6. CASE EraseSector
  BY <1>6 DEF EraseSector, LoopInvariant, Settling, WriteStoresBuffer
<1>7. CASE EraseDone
  BY <1>7 DEF EraseDone, WriteInv, LoopInvariant, Settling, WriteStoresBuffer
<1>8. CASE EraseFails
  BY <1>8 DEF EraseFails, RomFailure, LoopInvariant, Settling, WriteStoresBuffer
<1>9. CASE GetSectorSize
  BY <1>9 DEF GetSectorSize, WriteInv, LoopInvariant, Settling, WriteStoresBuffer
<1>10. CASE GetVendorError
  BY <1>10 DEF GetVendorError, WriteInv, LoopInvariant, Settling, WriteStoresBuffer
<1>11. CASE Reset
  <2>1. phase' = "off" /\ ret'.status # "PENDING" /\ req' = req
    BY <1>11 DEF Reset
  <2>2. ret'.status = "OK" => ret.status = "OK" /\ mem' = mem
    BY <1>11 DEF Reset, WriteInv, LoopInvariant, Settling
  <2> QED
    BY <2>1, <2>2 DEF WriteInv, LoopInvariant, Settling, WriteStoresBuffer, Stored
<1>12. CASE UNCHANGED vars
  BY <1>12 DEF vars, WriteInv, LoopInvariant, Settling, WriteStoresBuffer,
               Stored, Untouched, InFlash
<1> QED
  BY <1>1, <1>2, <1>3, <1>4, <1>5, <1>6, <1>7, <1>8, <1>9, <1>10, <1>11, <1>12
  DEF Next

\* A write that answers BOOT_OK has stored the caller's buffer, and until it
\* answers, a stored prefix and a blank rest are all there is.
THEOREM WritesAreStored == Spec => [](WriteStoresBuffer /\ LoopInvariant)
<1>1. Init => WriteInv
  BY WriteInvInit
<1>2. WriteInv /\ [Next]_vars => WriteInv'
  BY WriteInvStep
<1>3. WriteInv => WriteStoresBuffer /\ LoopInvariant
  BY DEF WriteInv
<1> QED
  BY <1>1, <1>2, <1>3, PTL DEF Spec

-----------------------------------------------------------------------------
(* ROM calls are aligned: the address and the length of the request are, and *)
(* so is what the loop has done, full chunks.                                *)

LEMMA MultipleAligned == ASSUME NEW n \in Nat PROVE (n * WriteAlign) % WriteAlign = 0
<1>1. WriteAlign \in Nat \ {0}
  BY GeometryAssumption
<1>2. ASSUME NEW m \in Nat \ {0} PROVE (n * m) % m = 0
  BY Z3
<1> QED
  BY <1>1, <1>2

LEMMA Distributes ==
    ASSUME NEW p \in Nat, NEW q \in Nat, NEW n \in Nat \ {0}
    PROVE  /\ p * n + q * n = (p + q) * n
           /\ p * n - q * n = (p - q) * n
           /\ p * n >= q * n => p >= q
  OBVIOUS

LEMMA MultiplesAdd ==
    ASSUME NEW a \in Nat, NEW b \in Nat, a % WriteAlign = 0, b % WriteAlign = 0
    PROVE  (a + b) % WriteAlign = 0 /\ (a >= b => (a - b) % WriteAlign = 0)
<1>1. PICK p \in Nat : a = p * WriteAlign
  <2>1. a \div WriteAlign \in Nat /\ a = (a \div WriteAlign) * WriteAlign
    BY GeometryAssumption
  <2> QED
    BY <2>1
<1>2. PICK q \in Nat : b = q * WriteAlign
  <2>1. b \div WriteAlign \in Nat /\ b = (b \div WriteAlign) * WriteAlign
    BY GeometryAssumption
  <2> QED
    BY <2>1
<1>3. WriteAlign \in Nat \ {0}
  BY GeometryAssumption
<1>4. /\ a + b = (p + q) * WriteAlign /\ a - b = (p - q) * WriteAlign
      /\ a >= b => p >= q
  BY <1>1, <1>2, <1>3, Distributes
<1>5. p + q \in Nat /\ (p >= q => p - q \in Nat)
  OBVIOUS
<1> QED
  BY <1>4, <1>5, MultipleAligned

LEMMA ChunkSizeAligned == ChunkSize % WriteAlign = 0
<1>1. PICK k \in 1 .. ChunkSize : ChunkSize = k * WriteAlign
  BY GeometryAssumption
<1>2. k \in Nat
  BY <1>1, GeometryAssumption
<1> QED
  BY <1>1, <1>2, MultipleAligned

Aligned ==
    phase = "program" =>
        req.addr % WriteAlign = 0 /\ req.len % WriteAlign = 0 /\ done % WriteAlign = 0

\* A chunk is a full one or all that is left: aligned either way.
LEMMA ChunkAligned ==
    ASSUME TypeOK, LoopInvariant, Aligned, phase = "program"
    PROVE  Chunk % WriteAlign = 0
<1>1. req.len \in Nat /\ done \in Nat /\ req.len >= done
  BY ChunkFacts
<1>2. (req.len - done) % WriteAlign = 0
  BY <1>1, MultiplesAdd DEF Aligned
<1> QED
  BY <1>2, ChunkSizeAligned DEF Chunk

LEMMA AlignedStep == WriteInv /\ Aligned /\ [Next]_vars => Aligned'
<1> SUFFICES ASSUME WriteInv, Aligned, [Next]_vars, phase' = "program" PROVE Aligned'
  BY DEF Aligned
<1> USE DEF Call, Answer
<1>1. CASE Write
  <2>1. PICK addr \in Addrs, len \in Lens :
          \E buf \in (Payloads \cap Buffer(len)) \cup {NULL} :
            /\ Call("write", addr, len, buf)
            /\ WriteRefused(addr, len, buf) \/ WriteStarted(addr, len, buf)
    BY <1>1 DEF Write
  <2>2. PICK buf : /\ Call("write", addr, len, buf)
                   /\ WriteRefused(addr, len, buf) \/ WriteStarted(addr, len, buf)
    BY <2>1
  <2>3. WriteStarted(addr, len, buf)
    BY <1>1, <2>2 DEF WriteRefused, Write
  <2>4. addr % WriteAlign = 0 /\ len % WriteAlign = 0 /\ done' = 0
    BY <2>3 DEF WriteStarted, WriteCheck
  <2> QED
    BY <2>2, <2>4, GeometryAssumption DEF Aligned
<1>2. CASE ProgramChunk
  <2>1. /\ phase = "program" /\ req' = req /\ done' = done + Chunk
    BY <1>2 DEF ProgramChunk
  <2>2. Chunk % WriteAlign = 0 /\ Chunk \in Nat /\ done \in Nat
    BY <2>1, ChunkAligned, ChunkFacts DEF WriteInv
  <2> QED
    BY <2>1, <2>2, MultiplesAdd DEF Aligned
<1>3. CASE UNCHANGED vars
  BY <1>3 DEF vars, Aligned
<1> QED
  BY <1>1, <1>2, <1>3
  DEF Next, FlashInit, Read, Fetch, ProgramFails, EraseSector, EraseDone, EraseFails,
      GetSectorSize, GetVendorError, Reset

\* Every ROM_FLASH_WRITE of the loop is aligned, whatever the request and the
\* remainder it leaves.
THEOREM RomCalls == Spec => []RomCallsAligned
<1>1. Init => WriteInv /\ Aligned
  BY WriteInvInit DEF Init, Aligned
<1>2. WriteInv /\ Aligned /\ [Next]_vars => (WriteInv /\ Aligned)'
  BY WriteInvStep, AlignedStep
<1>3. WriteInv /\ Aligned => RomCallsAligned
  <2> SUFFICES ASSUME WriteInv, Aligned, phase = "program"
               PROVE  Chunk > 0 /\ (req.addr + done) % WriteAlign = 0 /\ Chunk % WriteAlign = 0
    BY DEF RomCallsAligned
  <2>1. Chunk > 0 /\ req.addr \in Nat /\ done \in Nat
    BY ChunkFacts DEF WriteInv
  <2>2. (req.addr + done) % WriteAlign = 0
    BY <2>1, MultiplesAdd DEF Aligned
  <2> QED
    BY <2>1, <2>2, ChunkAligned DEF WriteInv
<1> QED
  BY <1>1, <1>2, <1>3, PTL DEF Spec

-----------------------------------------------------------------------------
(* An error has its code. *)

LEMMA CodeStep == WriteInv /\ FlashErrorHasCode /\ [Next]_vars => FlashErrorHasCode'
<1> SUFFICES ASSUME WriteInv, FlashErrorHasCode, [Next]_vars PROVE FlashErrorHasCode'
  OBVIOUS
<1> USE DEF FlashErrorHasCode, Answer
<1>1. ASSUME RomFailure PROVE FlashErrorHasCode'
  BY <1>1, InputAssumption DEF RomFailure
<1>2. CASE FlashInit
  BY <1>1, <1>2 DEF FlashInit
<1>3. CASE Write
  BY <1>3 DEF Write, WriteRefused, WriteStarted, WriteCheck
<1>4. CASE ProgramChunk
  BY <1>4 DEF ProgramChunk, WriteInv, LoopInvariant
<1>5. CASE UNCHANGED vars
  BY <1>5 DEF vars
<1> QED
  BY <1>1, <1>2, <1>3, <1>4, <1>5
  DEF Next, Read, Fetch, ProgramFails, EraseSector, EraseDone, EraseFails, GetSectorSize,
      GetVendorError, Reset

\* BOOT_ERR_FLASH always comes with the code of the ROM function that failed,
\* for every set of codes.
THEOREM ErrorsHaveCode == Spec => []FlashErrorHasCode
<1>1. Init => WriteInv /\ FlashErrorHasCode
  BY WriteInvInit DEF Init, FlashErrorHasCode
<1>2. WriteInv /\ FlashErrorHasCode /\ [Next]_vars => (WriteInv /\ FlashErrorHasCode)'
  BY WriteInvStep, CodeStep
<1> QED
  BY <1>1, <1>2, PTL DEF Spec

-----------------------------------------------------------------------------
(* Without a wrap of the 32-bit sum nothing leaves the flash, and the driver *)
(* implements NorFlash.                                                      *)

\* Without a wrap the check of flash.c:65 and 90 is the one it should be.
LEMMA BoundsCheckIsRight ==
    ASSUME NoWrap, NEW addr \in Addrs, NEW len \in Lens
    PROVE  /\ addr \in Nat /\ len \in Nat
           /\ WithinBounds(addr, len) <=> InFlash(addr, len)
<1>1. addr \in Nat /\ len \in Nat /\ addr + len < AddrSpace
  BY GeometryAssumption, InputAssumption DEF NoWrap
<1>2. AddrSpace \in Nat \ {0} /\ addr + len \in Nat
  BY <1>1, GeometryAssumption
<1>3. ASSUME NEW x \in Nat, NEW m \in Nat \ {0}, x < m PROVE x % m = x
  BY <1>3
<1>4. (addr + len) % AddrSpace = addr + len
  BY <1>1, <1>2, <1>3
<1> QED
  BY <1>1, <1>4 DEF WithinBounds, InFlash

\* What an erase is about to do: a whole sector inside the flash.
EraseInv ==
    phase = "erase" =>
        /\ req.len = SectorSize /\ req.addr % SectorSize = 0
        /\ req.addr + SectorSize <= TotalSize

RefInv == WriteInv /\ EraseInv /\ AccessesStayInFlash

\* An aligned address inside the flash is that of a sector inside the flash.
LEMMA SectorFits ==
    ASSUME NEW addr \in Nat, addr % SectorSize = 0, addr < TotalSize
    PROVE  addr + SectorSize <= TotalSize
<1>1. PICK k \in 1 .. TotalSize : TotalSize = k * SectorSize
  BY GeometryAssumption
<1>2. SectorSize \in Nat \ {0} /\ k \in Nat
  BY <1>1, GeometryAssumption
<1> DEFINE q == addr \div SectorSize
<1>3. q \in Nat /\ addr = q * SectorSize
  BY <1>2
<1> HIDE DEF q
<1>4. ASSUME NEW m \in Nat, NEW n \in Nat, NEW z \in Nat \ {0}, m * z < n * z
      PROVE  m * z + z <= n * z
  <2>1. m < n
    <3>1. SUFFICES ASSUME m >= n PROVE FALSE
      OBVIOUS
    <3>2. m * z >= n * z
      BY <3>1
    <3> QED
      BY <3>2, <1>4
  <2>2. PICK d \in Nat : n = m + 1 + d
    <3>1. n - m - 1 \in Nat /\ n = m + 1 + (n - m - 1)
      BY <2>1
    <3> QED
      BY <3>1
  <2>3. n * z = m * z + z + d * z /\ d * z \in Nat /\ m * z \in Nat
    BY <2>2
  <2> QED
    BY <2>3
<1> QED
  BY <1>1, <1>2, <1>3, <1>4

LEMMA EraseStep == TypeOK /\ EraseInv /\ [Next]_vars => EraseInv'
<1> SUFFICES ASSUME TypeOK, EraseInv, [Next]_vars, phase' = "erase" PROVE EraseInv'
  BY DEF EraseInv
<1>1. CASE EraseSector
  <2>1. PICK addr \in Addrs : /\ Call("erase", addr, SectorSize, NULL)
                              /\ addr % SectorSize = 0 /\ addr < TotalSize
    BY <1>1 DEF EraseSector
  <2>2. addr + SectorSize <= TotalSize
    BY <2>1, SectorFits, InputAssumption, GeometryAssumption
  <2> QED
    BY <2>1, <2>2 DEF EraseInv, Call
<1>2. CASE UNCHANGED vars
  BY <1>2 DEF vars, EraseInv
<1> QED
  BY <1>1, <1>2
  DEF Next, FlashInit, Read, Fetch, Write, WriteRefused, WriteStarted, ProgramChunk,
      ProgramFails, EraseDone, EraseFails, GetSectorSize, GetVendorError, Reset

LEMMA StayStep ==
    NoWrap /\ AccessesStayInFlash /\ [Next]_vars => AccessesStayInFlash'
<1> SUFFICES ASSUME NoWrap, phase # "stray", [Next]_vars, phase' = "stray" PROVE FALSE
  BY DEF AccessesStayInFlash
<1>1. CASE Read
  BY <1>1, BoundsCheckIsRight DEF Read, Fetch
<1>2. CASE Write
  <2>1. PICK addr \in Addrs, len \in Lens :
          \E buf : WriteStarted(addr, len, buf)
    BY <1>2 DEF Write, WriteRefused
  <2>2. WithinBounds(addr, len) /\ ~InFlash(addr, len)
    BY <2>1 DEF WriteStarted, WriteCheck
  <2> QED
    BY <2>2, BoundsCheckIsRight
<1>3. CASE UNCHANGED vars
  BY <1>3 DEF vars
<1> QED
  BY <1>1, <1>2, <1>3
  DEF Next, FlashInit, ProgramChunk, ProgramFails, EraseSector, EraseDone, EraseFails,
      GetSectorSize, GetVendorError, Reset

LEMMA RefInvInit == Init => RefInv
  BY WriteInvInit DEF Init, RefInv, EraseInv, AccessesStayInFlash

LEMMA RefInvStep == NoWrap /\ RefInv /\ [Next]_vars => RefInv'
  BY WriteInvStep, EraseStep, StayStep DEF RefInv, WriteInv

\* Outside the loop the settled contents are the contents.
LEMMA SettledIsMem ==
    /\ mem \in [Cells -> Byte] /\ phase # "program" => Settled = mem
    /\ mem' \in [Cells -> Byte] /\ phase' # "program" => Settled' = mem'
  BY DEF Settled

LEMMA PromiseNames ==
    /\ Promise!Cells = Cells
    /\ \A r : Promise!Covered(r) = Region(r.addr, r.len)
  BY DEF Promise!Cells, Cells, Promise!Covered, Region

LEMMA PromiseInit == Init => Promise!Init
  BY SettledIsMem, PromiseNames DEF Init, Promise!Init

\* Calls that read or refuse: the contents stay, and so does the promise.
LEMMA ObserveStep ==
    ASSUME RefInv, UNCHANGED mem, phase # "program", phase' # "program",
           ret.status # "PENDING", ret'.status # "PENDING",
           req'.op \in {"write", "erase"} =>
               ret'.status \in {"INVALID_ARG", "ALIGN", "BOUNDS", "NOT_ERASED"},
           req'.op = "read" /\ ret'.status = "OK" =>
               ret'.val = [i \in 0 .. req'.len - 1 |-> mem[req'.addr + i]]
    PROVE  Promise!Next
<1>1. Settled = mem /\ Settled' = mem
  BY SettledIsMem DEF RefInv, WriteInv, TypeOK
<1> QED
  BY <1>1 DEF Promise!Next, Promise!Observe, Promise!Refusals

\* When the driver is idle no call is pending.
LEMMA NothingPending ==
    RefInv /\ phase \in {"off", "panic", "idle"} => ret.status # "PENDING"
  BY DEF RefInv, WriteInv, Settling

LEMMA ReadKeepsPromise == ASSUME NoWrap, RefInv, Read PROVE Promise!Next
<1> USE DEF Call, Answer
<1>1. PICK addr \in Addrs, len \in Lens, null \in BOOLEAN :
        /\ Call("read", addr, len, NULL)
        /\ \/ null /\ Answer("INVALID_ARG", NULL) /\ phase' = phase
           \/ ~null /\ ~WithinBounds(addr, len) /\ Answer("BOUNDS", NULL) /\ phase' = phase
           \/ ~null /\ WithinBounds(addr, len) /\ Fetch(addr, len)
  BY DEF Read
<1>2. phase = "idle" /\ UNCHANGED mem /\ ret.status # "PENDING"
  BY NothingPending DEF Read
<1>3. /\ phase' = "idle" /\ ret'.status # "PENDING"
      /\ ret'.status = "OK" => ret'.val = [i \in 0 .. len - 1 |-> mem[addr + i]]
  BY <1>1, <1>2, BoundsCheckIsRight DEF Fetch
<1>4. req'.op = "read" /\ req'.addr = addr /\ req'.len = len
  BY <1>1
<1> QED
  BY <1>2, <1>3, <1>4, ObserveStep

\* A write that starts finds blank cells, and they are blank in the promise too.
LEMMA WriteKeepsPromise == ASSUME NoWrap, RefInv, RefInv', Write PROVE Promise!Next
<1> USE DEF Call, Answer
<1>1. PICK addr \in Addrs, len \in Lens :
        \E buf \in (Payloads \cap Buffer(len)) \cup {NULL} :
          /\ Call("write", addr, len, buf)
          /\ WriteRefused(addr, len, buf) \/ WriteStarted(addr, len, buf)
  BY DEF Write
<1>2. PICK buf \in (Payloads \cap Buffer(len)) \cup {NULL} :
          /\ Call("write", addr, len, buf)
          /\ WriteRefused(addr, len, buf) \/ WriteStarted(addr, len, buf)
  BY <1>1
<1>3. phase = "idle" /\ UNCHANGED mem /\ ret.status # "PENDING" /\ req'.op = "write"
  BY <1>2, NothingPending DEF Write
<1>4. CASE WriteRefused(addr, len, buf)
  <2>1. ret'.status \in {"INVALID_ARG", "ALIGN", "BOUNDS", "NOT_ERASED"} /\ phase' = "idle"
    BY <1>3, <1>4 DEF WriteRefused, WriteCheck
  <2> QED
    BY <1>3, <2>1, ObserveStep
<1>5. CASE WriteStarted(addr, len, buf)
  <2>1. ret'.status = "PENDING" /\ done' = 0
    BY <1>5 DEF WriteStarted
  <2>2. phase' = "program"
    BY <1>5 DEF WriteStarted, RefInv, AccessesStayInFlash
  <2>3. LoopInvariant' /\ TypeOK'
    BY DEF RefInv, WriteInv
  <2>4. /\ req'.addr \in Nat /\ req'.len \in Nat /\ req'.addr + req'.len <= TotalSize
        /\ \A i \in 0 .. req'.len - 1 : mem[req'.addr + i] = Erased
    BY <1>3, <2>1, <2>2, <2>3, GeometryAssumption
    DEF LoopInvariant, TypeOK, InFlash, Untouched
  <2>5. Region(req'.addr, req'.len) \subseteq Cells
    BY <2>4, GeometryAssumption DEF Region, Cells
  <2>6. ASSUME NEW c \in Region(req'.addr, req'.len) PROVE mem[c] = Erased
    <3>1. c - req'.addr \in 0 .. req'.len - 1 /\ c = req'.addr + (c - req'.addr)
      BY <2>4, <2>6 DEF Region
    <3> QED
      BY <2>4, <3>1
  <2>7. Settled = mem
    BY <1>3, SettledIsMem DEF RefInv, WriteInv, TypeOK
  <2>8. Settled' = mem
    <3>1. Settled' = [c \in Cells |-> IF c \in Region(req'.addr, req'.len)
                                      THEN Erased ELSE mem[c]]
      BY <1>3, <2>2 DEF Settled, Region
    <3>2. mem \in [Cells -> Byte]
      BY DEF RefInv, WriteInv, TypeOK
    <3> QED
      BY <2>6, <3>1, <3>2
  <2>9. Promise!Begin
    BY <1>3, <2>1, <2>5, <2>6, <2>7, <2>8, PromiseNames DEF Promise!Begin
  <2> QED
    BY <2>9 DEF Promise!Next
<1> QED
  BY <1>2, <1>4, <1>5

\* In the loop: what is settled, and what a chunk may touch.
LEMMA LoopFacts ==
    ASSUME RefInv, phase = "program"
    PROVE  /\ mem \in [Cells -> Byte]
           /\ req.op = "write" /\ ret.status = "PENDING"
           /\ req.addr \in Nat /\ req.len \in Nat /\ done \in Nat
           /\ Chunk \in Nat /\ Chunk <= ChunkSize /\ ChunkSize \in Nat
           /\ done + Chunk <= req.len
           /\ Settled = [c \in Cells |-> IF c \in Region(req.addr, req.len)
                                         THEN Erased ELSE mem[c]]
           /\ \A c \in Cells \ Region(req.addr, req.len) : c \notin Region(req.addr + done, Chunk)
<1>1. TypeOK /\ LoopInvariant
  BY DEF RefInv, WriteInv
<1>2. /\ Chunk \in Nat /\ Chunk <= ChunkSize /\ done + Chunk <= req.len
      /\ req.addr \in Nat /\ req.len \in Nat /\ done \in Nat
  BY <1>1, ChunkFacts
<1>3. \A c \in Cells \ Region(req.addr, req.len) : c \notin Region(req.addr + done, Chunk)
  BY <1>2, GeometryAssumption DEF Region, Cells
<1> QED
  BY <1>1, <1>2, <1>3, GeometryAssumption DEF TypeOK, LoopInvariant, Settled

\* A turn of the loop is a stutter, and the last one the write as a whole.
LEMMA ChunkKeepsPromise ==
    ASSUME RefInv, ProgramChunk PROVE [Promise!Next]_(Promise!nvars)
<1>1. TypeOK /\ TypeOK' /\ LoopInvariant /\ phase = "program" /\ req' = req
  BY TypeStep DEF RefInv, WriteInv, ProgramChunk, Next
<1>2. ASSUME NEW c \in Cells \ Region(req.addr, req.len) PROVE mem'[c] = mem[c]
  BY <1>1, LoopFacts DEF ProgramChunk, Programmed
<1>3. CASE done + Chunk < req.len
  <2>1. UNCHANGED <<phase, ret>>
    BY <1>1, <1>3, LoopFacts DEF ProgramChunk
  <2>2. Settled' = [c \in Cells |-> IF c \in Region(req.addr, req.len)
                                    THEN Erased ELSE mem'[c]]
    BY <1>1, <2>1 DEF Settled, Region
  <2>3. Settled' = Settled
    BY <1>1, <1>2, <2>2, LoopFacts
  <2> QED
    BY <1>1, <2>1, <2>3 DEF Promise!nvars
<1>4. CASE done + Chunk = req.len
  <2>1. phase' = "idle" /\ ret'.status = "OK"
    BY <1>1, <1>4, LoopFacts DEF ProgramChunk, Answer
  <2>2. \A i \in 0 .. req.len - 1 : mem'[req.addr + i] = req.buf[i]
    BY <1>1, <1>4, ChunkStores
  <2>3. ASSUME NEW c \in Region(req.addr, req.len) PROVE mem'[c] = req.buf[c - req.addr]
    <3>1. c - req.addr \in 0 .. req.len - 1 /\ c = req.addr + (c - req.addr)
      BY <1>1, <2>3, LoopFacts DEF Region
    <3> QED
      BY <2>2, <3>1
  <2>4. mem' \in [Cells -> Byte] /\ Settled' = mem'
    BY <1>1, <2>1, SettledIsMem DEF TypeOK
  <2>5. Promise!Effect = [c \in Cells |-> IF c \notin Region(req.addr, req.len) THEN Settled[c]
                                          ELSE req.buf[c - req.addr]]
    BY <1>1, LoopFacts, PromiseNames DEF Promise!Effect
  <2>6. \A c \in Cells : mem'[c] = IF c \notin Region(req.addr, req.len) THEN Settled[c]
                                   ELSE req.buf[c - req.addr]
    BY <1>1, <1>2, <2>3, LoopFacts
  <2>7. Settled' = Promise!Effect
    BY <2>4, <2>5, <2>6
  <2>8. Promise!Commit
    BY <1>1, <2>1, <2>7, LoopFacts DEF Promise!Commit
  <2> QED
    BY <2>8 DEF Promise!Next
<1> QED
  BY <1>1, <1>3, <1>4, LoopFacts

\* A write cut short after `done` bytes: what is behind is stored, one chunk may
\* be damaged, and what is ahead is still blank.
LEMMA TornWriteKeepsPromise ==
    ASSUME RefInv, phase = "program", mem' \in TornPrograms(req.addr, req.buf, done, Chunk),
           phase' # "program", ret'.status \in {"FLASH", "LOST"}, UNCHANGED req
    PROVE  Promise!Next
<1>1. LoopInvariant
  BY DEF RefInv, WriteInv
<1>2. /\ mem' \in [Cells -> Byte] /\ Settled' = mem'
      /\ \A c \in Cells : c \notin Region(req.addr + done, Chunk) => mem'[c] = mem[c]
  BY SettledIsMem DEF TornPrograms
<1>3. ASSUME NEW c \in Cells, c \notin Promise!Damaged(done)
      PROVE  mem'[c] = IF req.op = "write" /\ c \in req.addr .. req.addr + done - 1
                       THEN req.buf[c - req.addr] ELSE Settled[c]
  <2> DEFINE i == c - req.addr
  <2>0. /\ c \in Int /\ req.addr \in Nat /\ req.len \in Nat /\ done \in Nat /\ Chunk \in Nat
        /\ done + Chunk <= req.len /\ Chunk <= ChunkSize /\ ChunkSize \in Nat
    BY LoopFacts, GeometryAssumption DEF Cells
  <2>1. c \in Region(req.addr, req.len) => i \notin done .. done + ChunkSize - 1
    BY <1>3, PromiseNames, LoopFacts DEF Promise!Damaged
  <2>2. c \notin Region(req.addr + done, Chunk)
    <3>1. SUFFICES ASSUME c \in Region(req.addr + done, Chunk) PROVE FALSE
      OBVIOUS
    <3>2. c \in Region(req.addr, req.len) /\ i \in done .. done + ChunkSize - 1
      BY <2>0, <3>1 DEF Region
    <3> QED
      BY <2>1, <3>2
  <2>3. mem'[c] = mem[c]
    BY <1>2, <2>2
  <2>4. CASE c \notin Region(req.addr, req.len)
    <3>1. c \notin req.addr .. req.addr + done - 1
      BY <2>0, <2>4 DEF Region
    <3> QED
      BY <2>3, <2>4, <3>1, LoopFacts
  <2>5. CASE c \in Region(req.addr, req.len) /\ i < done
    <3>1. i \in 0 .. done - 1 /\ c = req.addr + i /\ c \in req.addr .. req.addr + done - 1
      BY <2>5, LoopFacts DEF Region
    <3>2. mem[req.addr + i] = req.buf[i]
      BY <1>1, <3>1 DEF LoopInvariant, Stored
    <3> QED
      BY <2>3, <3>1, <3>2, LoopFacts
  <2>6. CASE c \in Region(req.addr, req.len) /\ i >= done
    <3>1. i \in done .. req.len - 1 /\ c = req.addr + i /\ c \notin req.addr .. req.addr + done - 1
      BY <2>6, LoopFacts DEF Region
    <3>2. mem[req.addr + i] = Erased
      BY <1>1, <3>1 DEF LoopInvariant, Untouched
    <3> QED
      BY <2>3, <2>6, <3>1, <3>2, LoopFacts
  <2>7. i \in Int
    BY LoopFacts, GeometryAssumption DEF Cells
  <2> QED
    BY <2>4, <2>5, <2>6, <2>7, LoopFacts
<1>4. done \in 0 .. req.len
  BY LoopFacts
<1>5. Promise!Tear
  BY <1>2, <1>3, <1>4, LoopFacts, PromiseNames DEF Promise!Tear
<1> QED
  BY <1>5 DEF Promise!Next

\* The sector that an erase is at is what its request covers.
LEMMA EraseFacts ==
    ASSUME RefInv, phase = "erase"
    PROVE  /\ req.op = "erase" /\ ret.status = "PENDING"
           /\ req.len = SectorSize /\ SectorSize \in Nat
           /\ SectorOf(req.addr) = Region(req.addr, req.len)
           /\ mem \in [Cells -> Byte] /\ Settled = mem
<1>1. TypeOK /\ Settling /\ EraseInv
  BY DEF RefInv, WriteInv
<1>2. SectorSize \in Nat \ {0} /\ req.addr \in Nat
  BY <1>1, GeometryAssumption DEF TypeOK
<1>3. (req.addr \div SectorSize) * SectorSize = req.addr
  BY <1>1, <1>2 DEF EraseInv
<1> QED
  BY <1>1, <1>2, <1>3, SettledIsMem DEF Settling, EraseInv, SectorOf, TypeOK

LEMMA TornEraseKeepsPromise ==
    ASSUME RefInv, phase = "erase", mem' \in TornErases(req.addr), phase' # "program",
           ret'.status \in {"FLASH", "LOST"}, UNCHANGED req
    PROVE  Promise!Next
<1>1. /\ mem' \in [Cells -> Byte] /\ Settled' = mem'
      /\ \A c \in Cells : c \notin Region(req.addr, req.len) => mem'[c] = mem[c]
  BY SettledIsMem, EraseFacts DEF TornErases
<1>2. Promise!Damaged(0) = Region(req.addr, req.len) /\ 0 \in 0 .. req.len
  BY EraseFacts, PromiseNames DEF Promise!Damaged
<1>3. Promise!Tear
  BY <1>1, <1>2, EraseFacts, PromiseNames DEF Promise!Tear
<1> QED
  BY <1>3 DEF Promise!Next

LEMMA EraseKeepsPromise == ASSUME RefInv, EraseDone PROVE Promise!Next
<1>1. /\ phase = "erase" /\ phase' = "idle" /\ ret'.status = "OK" /\ req' = req
      /\ mem' = SectorErased(req.addr)
  BY DEF EraseDone, Answer
<1>2. mem' = [c \in Cells |-> IF c \in Region(req.addr, req.len) THEN Erased ELSE mem[c]]
  BY <1>1, EraseFacts DEF SectorErased
<1>3. mem' \in [Cells -> Byte]
  <2>1. Erased \in Byte
    BY DEF Byte, Erased
  <2> QED
    BY <1>1, <1>2, <2>1, EraseFacts
<1>4. Promise!Effect = mem'
  BY <1>1, <1>2, EraseFacts, PromiseNames DEF Promise!Effect
<1>5. Promise!Commit
  BY <1>1, <1>3, <1>4, EraseFacts, SettledIsMem DEF Promise!Commit
<1> QED
  BY <1>5 DEF Promise!Next

LEMMA EraseStarts == ASSUME RefInv, RefInv', EraseSector PROVE Promise!Next
<1> USE DEF Call, Answer
<1>1. /\ phase = "idle" /\ UNCHANGED mem /\ ret.status # "PENDING" /\ req'.op = "erase"
  BY NothingPending DEF EraseSector
<1>2. CASE phase' = "erase"
  <2>1. /\ ret'.status = "PENDING" /\ req'.len = SectorSize
        /\ req'.addr \in Nat /\ req'.addr + SectorSize <= TotalSize
    BY <1>1, <1>2, GeometryAssumption DEF EraseSector, RefInv, WriteInv, TypeOK, EraseInv
  <2>2. Promise!Covered(req') \subseteq Promise!Cells
    <3>1. Region(req'.addr, req'.len) \subseteq Cells
      BY <2>1, GeometryAssumption DEF Region, Cells
    <3> QED
      BY <3>1, PromiseNames
  <2>3. Settled = mem /\ Settled' = mem
    BY <1>1, <1>2, SettledIsMem DEF RefInv, WriteInv, TypeOK
  <2>4. Promise!Begin
    BY <1>1, <2>1, <2>2, <2>3 DEF Promise!Begin
  <2> QED
    BY <2>4 DEF Promise!Next
<1>3. CASE phase' # "erase"
  <2>1. phase' = "idle" /\ ret'.status \in {"ALIGN", "BOUNDS"}
    BY <1>1, <1>3 DEF EraseSector
  <2> QED
    BY <1>1, <2>1, ObserveStep
<1> QED
  BY <1>2, <1>3

LEMMA ResetKeepsPromise == ASSUME RefInv, Reset PROVE [Promise!Next]_(Promise!nvars)
<1>1. phase' = "off" /\ req' = req
  BY DEF Reset
<1>2. CASE phase = "program"
  BY <1>1, <1>2, LoopFacts, TornWriteKeepsPromise DEF Reset
<1>3. CASE phase = "erase"
  BY <1>1, <1>3, EraseFacts, TornEraseKeepsPromise DEF Reset
<1>4. CASE phase \notin {"program", "erase"}
  <2>1. ret' = ret /\ mem' = mem
    BY <1>4 DEF Reset, RefInv, WriteInv, Settling, AccessesStayInFlash
  <2>2. Settled' = Settled
    BY <1>1, <1>4, <2>1, SettledIsMem DEF RefInv, WriteInv, TypeOK
  <2> QED
    BY <1>1, <2>1, <2>2 DEF Promise!nvars
<1> QED
  BY <1>2, <1>3, <1>4

LEMMA PromiseStep ==
    ASSUME NoWrap, RefInv, RefInv', [Next]_vars PROVE [Promise!Next]_(Promise!nvars)
<1> USE DEF Call, Answer
<1>1. CASE FlashInit
  BY <1>1, NothingPending, ObserveStep DEF FlashInit, RomFailure
<1>2. CASE Read
  BY <1>2, ReadKeepsPromise
<1>3. CASE Write
  BY <1>3, WriteKeepsPromise
<1>4. CASE ProgramChunk
  BY <1>4, ChunkKeepsPromise
<1>5. CASE ProgramFails
  BY <1>5, TornWriteKeepsPromise DEF ProgramFails, RomFailure
<1>6. CASE EraseSector
  BY <1>6, EraseStarts
<1>7. CASE EraseDone
  BY <1>7, EraseKeepsPromise
<1>8. CASE EraseFails
  BY <1>8, TornEraseKeepsPromise DEF EraseFails, RomFailure
<1>9. CASE GetSectorSize
  BY <1>9, NothingPending, ObserveStep DEF GetSectorSize
<1>10. CASE GetVendorError
  BY <1>10, NothingPending, ObserveStep DEF GetVendorError
<1>11. CASE Reset
  BY <1>11, ResetKeepsPromise
<1>12. CASE UNCHANGED vars
  BY <1>12 DEF vars, Promise!nvars, Settled, Region
<1> QED
  BY <1>1, <1>2, <1>3, <1>4, <1>5, <1>6, <1>7, <1>8, <1>9, <1>10, <1>11, <1>12
  DEF Next

\* The driver implements the atomic flash, for every geometry and every pattern
\* of failures and resets, provided that no request's end wraps.
THEOREM ImplementsPromise == NoWrap /\ Spec => ImplementsNorFlash
<1>1. SUFFICES ASSUME NoWrap PROVE Spec => ImplementsNorFlash
  OBVIOUS
<1>2. RefInv /\ [Next]_vars => RefInv'
  BY <1>1, RefInvStep
<1>3. Init => RefInv
  BY RefInvInit
<1>4. RefInv /\ RefInv' /\ [Next]_vars => [Promise!Next]_(Promise!nvars)
  BY <1>1, PromiseStep
<1> QED
  BY <1>2, <1>3, <1>4, PromiseInit, PTL DEF Spec, ImplementsNorFlash, Promise!Spec
-----------------------------------------------------------------------------
(* The drivers side by side: a step of all is a step or a stutter of the one     *)
(* that runs, so what is proved of a driver alone holds of it here.              *)

ConfirmProof == INSTANCE EspConfirmProofs WITH
    cell <- v1, at <- v2, expected <- v3, used <- v4, op <- v5, left <- v6, result <- v7,
    live <- v8, kept <- v9

ConsoleProof == INSTANCE EspUartProofs WITH
    tx <- v1, rx <- v2, shadow <- v3, active <- v4, syncing <- v5, fn <- v6, step <- v7,
    polls <- v8, ret <- v9, up <- v10, wire <- v11, put <- v12, stored <- v13, got <- v14,
    waiting <- v15, late <- v16

\* The specifications that the theorems are about are those of the drivers.
LEMMA ConfirmSame ==
    /\ ConfirmProof!NonceAssumption
    /\ Confirmation!Init = ConfirmProof!Init
    /\ [Confirmation!Next]_Confirmation!vars = [ConfirmProof!Next]_ConfirmProof!vars
    /\ Confirmation!NoStaleNonce = ConfirmProof!NoStaleNonce
    /\ Confirmation!AcceptedByLive = ConfirmProof!AcceptedByLive
<1>1. ConfirmProof!NonceAssumption
  BY NonceOk DEF Confirmation!NonceAssumption, ConfirmProof!NonceAssumption,
                 Confirmation!Half, ConfirmProof!Half, Confirmation!HalfWords,
                 ConfirmProof!HalfWords
<1>2. Confirmation!Init = ConfirmProof!Init
  BY DEF Confirmation!Init, ConfirmProof!Init, Confirmation!Half, ConfirmProof!Half
<1>3. [Confirmation!Next]_Confirmation!vars = [ConfirmProof!Next]_ConfirmProof!vars
  BY DEF
      Confirmation!Half, ConfirmProof!Half, Confirmation!Zero, ConfirmProof!Zero,
      Confirmation!Begin, ConfirmProof!Begin, Confirmation!vars, ConfirmProof!vars,
      Confirmation!Init, ConfirmProof!Init, Confirmation!Idle, ConfirmProof!Idle,
      Confirmation!MatchesLow, ConfirmProof!MatchesLow, Confirmation!Matches,
      ConfirmProof!Matches, Confirmation!CheckOk, ConfirmProof!CheckOk,
      Confirmation!Clear, ConfirmProof!Clear, Confirmation!ZeroHalf,
      ConfirmProof!ZeroHalf, Confirmation!ReadBack, ConfirmProof!ReadBack,
      Confirmation!AllStored, ConfirmProof!AllStored, Confirmation!Return,
      ConfirmProof!Return, Confirmation!PowerUp, ConfirmProof!PowerUp,
      Confirmation!BootOs, ConfirmProof!BootOs, Confirmation!KeepState,
      ConfirmProof!KeepState, Confirmation!Confirm, ConfirmProof!Confirm,
      Confirmation!ConfirmHalf, ConfirmProof!ConfirmHalf, Confirmation!WarmReset,
      ConfirmProof!WarmReset, Confirmation!PowerLoss, ConfirmProof!PowerLoss,
      Confirmation!Next, ConfirmProof!Next
<1>4. /\ Confirmation!NoStaleNonce = ConfirmProof!NoStaleNonce
      /\ Confirmation!AcceptedByLive = ConfirmProof!AcceptedByLive
  BY DEF Confirmation!NoStaleNonce, ConfirmProof!NoStaleNonce, Confirmation!Idle,
         ConfirmProof!Idle, Confirmation!AcceptedByLive, ConfirmProof!AcceptedByLive
<1> QED
  BY <1>1, <1>2, <1>3, <1>4

LEMMA ConsoleSame ==
    /\ ConsoleProof!UartAssumption
    /\ Console!Init = ConsoleProof!Init
    /\ [Console!Next]_Console!vars = [ConsoleProof!Next]_ConsoleProof!vars
    /\ Console!TxInOrder = ConsoleProof!TxInOrder
    /\ Console!RxInOrder = ConsoleProof!RxInOrder
    /\ Console!NothingStale = ConsoleProof!NothingStale
    /\ Console!ConfigSettles = ConsoleProof!ConfigSettles
    /\ Console!WaitingAnswered = ConsoleProof!WaitingAnswered
<1>1. ConsoleProof!UartAssumption
  BY UartOk DEF Console!UartAssumption, ConsoleProof!UartAssumption
<1>2. Console!Init = ConsoleProof!Init
  BY DEF Console!Init, ConsoleProof!Init, Console!RomConfig, ConsoleProof!RomConfig
<1>3. [Console!Next]_Console!vars = [ConsoleProof!Next]_ConsoleProof!vars
  BY DEF
      Console!hw, ConsoleProof!hw, Console!run, ConsoleProof!run, Console!traffic,
      ConsoleProof!traffic, Console!ghosts, ConsoleProof!ghosts, Console!vars,
      ConsoleProof!vars, Console!Config, ConsoleProof!Config, Console!RomConfig,
      ConsoleProof!RomConfig, Console!Init, ConsoleProof!Init, Console!MoreTraffic,
      ConsoleProof!MoreTraffic, Console!Send, ConsoleProof!Send, Console!Receive,
      ConsoleProof!Receive, Console!Synchronise, ConsoleProof!Synchronise,
      Console!Idle, ConsoleProof!Idle, Console!Call, ConsoleProof!Call,
      Console!Again, ConsoleProof!Again, Console!Return, ConsoleProof!Return,
      Console!Start, ConsoleProof!Start, Console!GetcharRefused,
      ConsoleProof!GetcharRefused, Console!Running, ConsoleProof!Running,
      Console!InitBody, ConsoleProof!InitBody, Console!Divider,
      ConsoleProof!Divider, Console!Frag, ConsoleProof!Frag, Console!InitRefused,
      ConsoleProof!InitRefused, Console!NextOp, ConsoleProof!NextOp,
      Console!InitWrite, ConsoleProof!InitWrite, Console!SyncAsk,
      ConsoleProof!SyncAsk, Console!SyncPoll, ConsoleProof!SyncPoll,
      Console!HasRoom, ConsoleProof!HasRoom, Console!GivesUp, ConsoleProof!GivesUp,
      Console!PutcharLook, ConsoleProof!PutcharLook, Console!PutcharWrite,
      ConsoleProof!PutcharWrite, Console!Iterations, ConsoleProof!Iterations,
      Console!RestOfRx, ConsoleProof!RestOfRx, Console!GetcharLook,
      ConsoleProof!GetcharLook, Console!GetcharTake, ConsoleProof!GetcharTake,
      Console!Flush, ConsoleProof!Flush, Console!Driver, ConsoleProof!Driver,
      Console!Next, ConsoleProof!Next
<1>4. /\ Console!TxInOrder = ConsoleProof!TxInOrder
      /\ Console!RxInOrder = ConsoleProof!RxInOrder
      /\ Console!NothingStale = ConsoleProof!NothingStale
      /\ Console!ConfigSettles = ConsoleProof!ConfigSettles
      /\ Console!WaitingAnswered = ConsoleProof!WaitingAnswered
  BY DEF Console!TxInOrder, ConsoleProof!TxInOrder, Console!RxInOrder,
         ConsoleProof!RxInOrder, Console!NothingStale, ConsoleProof!NothingStale,
         Console!ConfigSettles, ConsoleProof!ConfigSettles, Console!WaitingAnswered,
         ConsoleProof!WaitingAnswered, Console!Running, ConsoleProof!Running
<1> QED
  BY <1>1, <1>2, <1>3, <1>4

LEMMA DriverInit ==
    ASSUME DriversInit
    PROVE  /\ driver = "confirm" => ConfirmProof!Init
           /\ driver = "console" => ConsoleProof!Init
BY ConfirmSame, ConsoleSame DEF DriversInit, FlashStarts, ConfirmStarts, ConsoleStarts

LEMMA DriverStep ==
    ASSUME [DriversNext]_driversVars
    PROVE  /\ driver' = driver
           /\ driver = "confirm" => [ConfirmProof!Next]_ConfirmProof!vars
           /\ driver = "console" => [ConsoleProof!Next]_ConsoleProof!vars
<1>1. CASE DriversNext
  <2>1. driver' = driver
    BY <1>1 DEF DriversNext, FlashRuns, ConfirmRuns, ConsoleRuns
  <2>2. driver = "confirm" => Confirmation!Next
    BY <1>1 DEF DriversNext, FlashRuns, ConfirmRuns, ConsoleRuns
  <2>3. driver = "console" => Console!Next
    BY <1>1 DEF DriversNext, FlashRuns, ConfirmRuns, ConsoleRuns
  <2> QED
    BY <2>1, <2>2, <2>3, ConfirmSame, ConsoleSame
<1>2. CASE UNCHANGED driversVars
  BY <1>2 DEF driversVars, v, rest, ConfirmProof!vars, ConsoleProof!vars, ConsoleProof!hw,
              ConsoleProof!run, ConsoleProof!traffic, ConsoleProof!ghosts
<1> QED
  BY <1>1, <1>2

ConfirmInv == driver = "confirm" => ConfirmProof!Inv

LEMMA ConfirmAlways == DriversSpec => []ConfirmInv
<1>1. DriversInit => ConfirmInv
  BY DriverInit, ConfirmSame, ConfirmProof!InvInit DEF ConfirmInv
<1>2. ConfirmInv /\ [DriversNext]_driversVars => ConfirmInv'
  BY DriverStep, ConfirmSame, ConfirmProof!InvStep DEF ConfirmInv
<1> QED
  BY <1>1, <1>2, PTL DEF DriversSpec

\* Whatever resets and lost stores come in between, no consumed or revoked nonce
\* stays in the cell after a call (confirm.c:61-65, 79-87).
THEOREM NoNonceIsStale == DriversSpec => []NoStaleNonce
<1>1. ConfirmInv => NoStaleNonce
  BY ConfirmSame, ConfirmProof!InvNoStale DEF ConfirmInv, NoStaleNonce
<1> QED
  BY <1>1, ConfirmAlways, PTL

\* esp_confirm_check_ok answers true only to a confirmation of the last boot
\* that nobody has consumed (confirm.c:10-13, 49-68).
THEOREM OnlyLiveIsAccepted == DriversSpec => AcceptedOnce
<1>1. ConfirmInv /\ [DriversNext]_driversVars
        => [driver = "confirm" => Confirmation!AcceptedByLive]_v
  <2> SUFFICES ASSUME ConfirmInv, [DriversNext]_driversVars, driver = "confirm", v' # v
               PROVE  ConfirmProof!AcceptedByLive
    BY ConfirmSame
  <2>1. CASE ConfirmProof!AcceptedByLive
    BY <2>1
  <2>2. CASE UNCHANGED ConfirmProof!vars
    BY <2>2 DEF ConfirmProof!vars, ConfirmProof!AcceptedByLive
  <2> QED
    BY <2>1, <2>2, DriverStep, ConfirmProof!AcceptedStep DEF ConfirmInv
<1> QED
  BY <1>1, ConfirmAlways, PTL DEF DriversSpec, AcceptedOnce

ConsoleInv ==
    driver = "console" =>
        /\ ConsoleProof!Typing /\ ConsoleProof!Control /\ ConsoleProof!Traffic
        /\ ConsoleProof!Clean /\ ConsoleProof!Settled /\ ConsoleProof!Held

LEMMA ConsoleAlways == DriversSpec => []ConsoleInv
<1>0. ConsoleProof!Sizes
  BY ConsoleSame, ConsoleProof!Constants
<1>1. DriversInit => ConsoleInv
  BY <1>0, DriverInit, ConsoleProof!TypingInit, ConsoleProof!ControlInit, ConsoleProof!TrafficInit,
     ConsoleProof!CleanInit, ConsoleProof!SettledInit, ConsoleProof!HeldInit DEF ConsoleInv
<1>2. ConsoleInv /\ [DriversNext]_driversVars => ConsoleInv'
  BY <1>0, DriverStep, ConsoleProof!TypingStep, ConsoleProof!ControlStep,
     ConsoleProof!TrafficStep, ConsoleProof!CleanStep, ConsoleProof!SettledStep,
     ConsoleProof!HeldStep DEF ConsoleInv
<1> QED
  BY <1>1, <1>2, PTL DEF DriversSpec

\* As long as no synchronisation has outlasted its guard, every byte that
\* esp_uart_putchar wrote is sent, in order, or still in the FIFO
\* (console.c:128-138).
THEOREM SentInOrder == DriversSpec => []TxInOrder
<1>1. ConsoleInv => TxInOrder
  BY ConsoleSame, ConsoleProof!TrafficInOrder DEF ConsoleInv, TxInOrder
<1> QED
  BY <1>1, ConsoleAlways, PTL

\* Every byte that came in was returned by esp_uart_getchar, in order, or is
\* still in the FIFO (console.c:161-171).
THEOREM ReturnedInOrder == DriversSpec => []RxInOrder
<1>1. ConsoleInv => RxInOrder
  BY ConsoleSame, ConsoleProof!TrafficInOrder DEF ConsoleInv, RxInOrder
<1> QED
  BY <1>1, ConsoleAlways, PTL

\* After an init that answered OK in time, no byte of the ROM is in a FIFO
\* (console.c:87-94).
THEOREM NoRomByte == DriversSpec => []NothingStale
<1>1. ConsoleInv => NothingStale
  BY ConsoleSame, ConsoleProof!CleanIsOurs DEF ConsoleInv, NothingStale
<1> QED
  BY <1>1, ConsoleAlways, PTL

\* After an init that answered OK in time, the configuration it computed is in
\* effect (console.c:96-114).
THEOREM ConfigHolds == DriversSpec => []ConfigSettles
<1>1. ConsoleInv => ConfigSettles
  BY ConsoleSame, ConsoleProof!SettledIsComputed DEF ConsoleInv, ConfigSettles
<1> QED
  BY <1>1, ConsoleAlways, PTL

\* esp_uart_getchar returns a byte that was there when it was called, for every
\* timeout and every clock (console.c:156-169).
THEOREM ByteIsReturned == DriversSpec => WaitingIsReturned
<1>1. ConsoleInv /\ [DriversNext]_driversVars
        => [driver = "console" => Console!WaitingAnswered]_v
  <2> SUFFICES ASSUME ConsoleInv, [DriversNext]_driversVars, driver = "console", v' # v
               PROVE  ConsoleProof!WaitingAnswered
    BY ConsoleSame
  <2>1. CASE UNCHANGED ConsoleProof!vars
    BY <2>1 DEF ConsoleProof!vars, ConsoleProof!hw, ConsoleProof!run, ConsoleProof!traffic,
                ConsoleProof!ghosts, v, rest
  <2> QED
    BY <2>1, ConsoleSame, DriverStep, ConsoleProof!HeldIsReturned DEF ConsoleInv
<1> QED
  BY <1>1, ConsoleAlways, PTL DEF DriversSpec, WaitingIsReturned
=============================================================================
