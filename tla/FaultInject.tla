---------------------------- MODULE FaultInject ----------------------------
(***************************************************************************)
(* The faults of the sandbox, chips/sandbox/chip_fault_inject.c: a process *)
(* that ends in the middle of a write to the file that stands for the      *)
(* flash, and a byte that reads wrong.  The flash mock that calls it is    *)
(* not in the repository: it writes blank cells at the position of the     *)
(* file and reads through the bit rot.                                     *)
(***************************************************************************)
EXTENDS Integers

CONSTANTS
    TotalSize, SectorSize,
    Byte, Erased,
    NoAddr,          \* 0xFFFFFFFF, the default of bitrot_addr
    Limits,          \* TOOB_FAIL_AFTER_WRITES
    RotAddrs,        \* TOOB_BITROT_ADDR
    RotValues,       \* TOOB_BITROT_VALUE
    Lens,            \* the lengths of writes and reads
    MaxRuns          \* bound of the model on runs of the process

Cells == 0 .. TotalSize - 1
Unset == [unset |-> TRUE]
Set(v) == [unset |-> FALSE, v |-> v]

FaultAssumption ==
    /\ TotalSize \in Nat /\ SectorSize \in Nat /\ MaxRuns \in Nat
    /\ Erased \in Byte /\ RotValues \subseteq Byte
    /\ Limits \subseteq Nat /\ RotAddrs \subseteq Nat /\ Lens \subseteq Nat \ {0}
    /\ NoAddr \in Nat /\ NoAddr > TotalSize

VARIABLES
    file,     \* flash_sim_file: survives the process
    env,      \* the environment of the process
    config,   \* g_fault_config: the fields of the two faults
    req, ret, \* the last call of the flash mock and its answer
    whole,    \* writes of this run whose buffer is in the file
    runs

vars == <<file, env, config, req, ret, whole, runs>>

Environments ==
    [limit : {Unset} \cup {Set(n) : n \in Limits},
     addr : {Unset} \cup {Set(a) : a \in RotAddrs},
     value : {Unset} \cup {Set(v) : v \in RotValues}]

Defaults == [limit |-> 0, writes |-> 0, addr |-> NoAddr, value |-> 0]

From(variable, default) == IF variable.unset THEN default ELSE variable.v

FaultInjectInit(e) ==
    [Defaults EXCEPT !.limit = From(e.limit, @), !.addr = From(e.addr, @), !.value = From(e.value, @)]

Init ==
    /\ file = [c \in Cells |-> Erased]
    /\ env \in Environments /\ config = FaultInjectInit(env)
    /\ req = [op |-> "none"] /\ ret = [status |-> "LOST"]
    /\ whole = 0 /\ runs = 1

-----------------------------------------------------------------------------
(* A write *)

Running == ret.status # "LOST" \/ req.op = "none"
Region(addr, len) == addr .. addr + len - 1
Buffer(len) == [0 .. len - 1 -> Byte \ {Erased}]
Stored(buf, n) ==
    [c \in Cells |-> IF c \in Region(req.addr, n) THEN buf[c - req.addr] ELSE file[c]]

BeginWrite ==
    /\ Running /\ ret.status # "PENDING"
    /\ \E len \in Lens, addr \in Cells : \E buf \in Buffer(len) :
        /\ Region(addr, len) \subseteq Cells
        /\ \A c \in Region(addr, len) : file[c] = Erased
        /\ req' = [op |-> "write", addr |-> addr, len |-> len, buf |-> buf]
    /\ ret' = [status |-> "PENDING"]
    /\ UNCHANGED <<file, env, config, whole, runs>>

\* Fault: the limit is compared after the write was counted.
LimitCountsItself == config.limit > 0 /\ config.writes + 1 >= config.limit

LimitReached == config.limit > 0 /\ config.writes >= config.limit

PartialSize(len) == len \div 2

\* Fault: the half that is stored is the second one.
TornSecondHalf(buf, len) == Stored([i \in 0 .. PartialSize(len) - 1 |-> buf[i + PartialSize(len)]], PartialSize(len))

Torn(buf, len) == Stored(buf, PartialSize(len))

\* fault_inject_point_flash ends the process, or counts; then the mock writes.
PointFlash ==
    /\ ret.status = "PENDING"
    /\ IF LimitReached
       THEN /\ file' = Torn(req.buf, req.len)
            /\ ret' = [status |-> "LOST"]
            /\ UNCHANGED <<config, whole>>
       ELSE /\ file' = Stored(req.buf, req.len)
            /\ ret' = [status |-> "OK"]
            /\ config' = [config EXCEPT !.writes = @ + 1]
            /\ whole' = whole + 1
    /\ UNCHANGED <<env, req, runs>>

-----------------------------------------------------------------------------
(* A read, and the next run *)

Rots(addr, len) == config.addr >= addr /\ config.addr < addr + len

\* fault_inject_apply_bitrot on a buffer that was read: what is in memory at
\* and behind it.
ApplyBitrot(addr, len, memory) ==
    IF Rots(addr, len) THEN [memory EXCEPT ![config.addr - addr] = config.value] ELSE memory

\* The cell behind the buffer belongs to somebody else.
Behind == Erased

Read ==
    /\ Running /\ ret.status # "PENDING"
    /\ \E len \in Lens, addr \in Cells :
        LET memory == [i \in 0 .. len |-> IF i < len THEN file[addr + i] ELSE Behind]
            read == ApplyBitrot(addr, len, memory)
        IN  /\ Region(addr, len) \subseteq Cells
            /\ req' = [op |-> "read", addr |-> addr, len |-> len]
            /\ ret' = [status |-> "OK", val |-> [i \in 0 .. len - 1 |-> read[i]], behind |-> read[len]]
    /\ UNCHANGED <<file, env, config, whole, runs>>

Restart ==
    /\ ret.status = "LOST" /\ req.op # "none" /\ runs < MaxRuns
    /\ env' \in Environments /\ config' = FaultInjectInit(env')
    /\ req' = [op |-> "none"] /\ whole' = 0 /\ runs' = runs + 1
    /\ UNCHANGED <<file, ret>>

Next == BeginWrite \/ PointFlash \/ Read \/ Restart
Spec == Init /\ [][Next]_vars

-----------------------------------------------------------------------------
(* Properties *)

\* Every loss comes in the write after as many whole writes of its own run as
\* the environment asks for, and without being asked there is none
\* (chip_fault_inject.c:24-38 and 101-117).
LossAtLimit ==
    LET asked == ~env.limit.unset /\ env.limit.v > 0
    IN  /\ ret.status = "LOST" /\ req.op = "write" => asked /\ whole = env.limit.v
        /\ asked => whole <= env.limit.v

\* Rot changes the one byte it is asked to in what is read, never the file and
\* nothing beside the buffer (chip_fault_inject.c:119-124).
RotIsOneByte ==
    ret.status = "OK" /\ req.op = "read" =>
        /\ ret.behind = Behind
        /\ \A i \in 0 .. req.len - 1 :
            ret.val[i] = IF env.addr = Set(req.addr + i)
                         THEN (IF env.value.unset THEN 0 ELSE env.value.v) ELSE file[req.addr + i]

\* Without rot, the sandbox's flash is one that a caller of the real driver must
\* reckon with: a lost write leaves a prefix (chip_fault_inject.c:104-110).
Nor == INSTANCE NorFlash WITH store <- file, ChunkSize <- 1
StepsOfNorFlash ==
    env.addr.unset /\ <<file, req, ret>>' # <<file, req, ret>> => Nor!Next
=============================================================================
