------------------------------ MODULE NorFlash ------------------------------
(***************************************************************************)
(* What the flash driver promises its callers, with no word of loops, blank *)
(* checks or ROM calls.  A call that starts is decided in one step: it      *)
(* takes effect as a whole and answers OK, or it is torn, and then a write  *)
(* has stored a prefix of its buffer, damaged at most one chunk, and left   *)
(* the rest as it was.                                                     *)
(***************************************************************************)
EXTENDS Integers

CONSTANTS TotalSize, SectorSize, ChunkSize, Byte, Erased

VARIABLES
    store,  \* the contents a caller may rely on
    req,    \* the last call
    ret     \* its answer, PENDING while it runs

nvars == <<store, req, ret>>

Cells == 0 .. TotalSize - 1
Covered(r) == r.addr .. r.addr + r.len - 1
Refusals == {"INVALID_ARG", "ALIGN", "BOUNDS", "NOT_ERASED"}

Init ==
    /\ store \in [Cells -> Byte]
    /\ req.op = "none"
    /\ ret.status = "LOST"

\* A write may start only over blank cells, an erase only on a whole sector.
Begin ==
    /\ ret.status # "PENDING" /\ ret'.status = "PENDING"
    /\ Covered(req') \subseteq Cells
    /\ \/ req'.op = "write" /\ \A c \in Covered(req') : store[c] = Erased
       \/ req'.op = "erase" /\ req'.len = SectorSize
    /\ UNCHANGED store

Effect ==
    [c \in Cells |-> IF c \notin Covered(req) THEN store[c]
                     ELSE IF req.op = "write" THEN req.buf[c - req.addr]
                     ELSE Erased]

Commit ==
    /\ ret.status = "PENDING" /\ ret'.status = "OK"
    /\ store' = Effect
    /\ UNCHANGED req

\* The cells a call torn after `from` bytes may have damaged.
Damaged(from) ==
    IF req.op = "erase" THEN Covered(req)
    ELSE {c \in Covered(req) : c - req.addr \in from .. from + ChunkSize - 1}

Tear ==
    /\ ret.status = "PENDING" /\ ret'.status \in {"FLASH", "LOST"}
    /\ store' \in [Cells -> Byte]
    /\ \E from \in 0 .. req.len : \A c \in Cells \ Damaged(from) :
          store'[c] = IF req.op = "write" /\ c \in req.addr .. req.addr + from - 1
                      THEN req.buf[c - req.addr] ELSE store[c]
    /\ UNCHANGED req

\* Calls that change nothing: queries, refusals, initialisation.
Observe ==
    /\ ret.status # "PENDING" /\ ret'.status # "PENDING"
    /\ req'.op \in {"write", "erase"} => ret'.status \in Refusals
    /\ req'.op = "read" /\ ret'.status = "OK" =>
          ret'.val = [i \in 0 .. req'.len - 1 |-> store[req'.addr + i]]
    /\ UNCHANGED store

Next == Begin \/ Commit \/ Tear \/ Observe

Spec == Init /\ [][Next]_nvars
=============================================================================
