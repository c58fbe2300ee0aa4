------------------------------- MODULE Argon2 --------------------------------
(***************************************************************************)
(* Argon2 of monocypher.c.  The lanes of a slice are filled in any order,  *)
(* block by block, as the comment at line 818 allows; the code's own order *)
(* is one of these.  A block is represented by how often it was filled, a  *)
(* seed by its two halves, which may have any value.                       *)
(***************************************************************************)
EXTENDS Integers, Sequences, FiniteSets, FiniteSetsExt

CONSTANTS
    U32,           \* values of a u32
    IndexWords,    \* addresses per index block, 128
    Calls          \* the arguments of callers: config, inputs and extras

\* CRYPTO_ARGON2_D, CRYPTO_ARGON2_I and CRYPTO_ARGON2_ID.
Argon2d == 0
Argon2i == 1
Argon2id == 2

Configs == [algorithm : {Argon2d, Argon2i, Argon2id}, nb_blocks : Nat, nb_passes : Nat \ {0},
            nb_lanes : Nat \ {0}]
Strings == [pass : Seq(Nat), salt : Seq(Nat), key : Seq(Nat), ad : Seq(Nat)]

Argon2Assumption ==
    /\ IndexWords \in Nat \ {0} /\ U32 \in Nat
    /\ Calls \subseteq [config : Configs, inputs : Strings]
    /\ \A c \in Calls :
        /\ c.config.nb_blocks >= 8 * c.config.nb_lanes  \* monocypher.h: the smallest work area
        /\ c.config.nb_blocks < U32

VARIABLES
    call,       \* the arguments
    pass, slice,
    next,       \* of each lane: the block of its segment to fill next,
    counter,    \* the counter of its next index block,
    indexBlock, \* and what that block was made of
    filled,     \* of each block: how often it was filled
    last,       \* what the last filling used
    addresses,  \* the words of index blocks used before it
    result      \* the blocks that make the hash

Algorithm == call.config.algorithm
NbPasses == call.config.nb_passes
NbLanes == call.config.nb_lanes

SegmentSize == (call.config.nb_blocks \div NbLanes) \div 4
LaneSize == SegmentSize * 4
WorkBlocks == LaneSize * NbLanes  \* nb_blocks of the code, rounded down
Lanes == 0 .. NbLanes - 1

vars == <<call, pass, slice, next, counter, indexBlock, filled, last, addresses, result>>

-----------------------------------------------------------------------------
(* Mixing: which words of a block a word depends on *)

Quarters == << <<0, 4, 8, 12>>, <<1, 5, 9, 13>>, <<2, 6, 10, 14>>, <<3, 7, 11, 15>>,
               <<0, 5, 10, 15>>, <<1, 6, 11, 12>>, <<2, 7, 8, 13>>, <<3, 4, 9, 14>> >>

\* G mixes the words of a group.
G(deps, group) ==
    LET mixed == UNION {deps[v] : v \in group}
    IN  [w \in 0 .. 127 |-> IF w \in group THEN mixed ELSE deps[w]]

Group(q, at) == {at[Quarters[q][k]] : k \in 1 .. 4}

\* ROUND on the words whose indices `at` gives.
Round(deps, at) ==
    LET step[q \in 0 .. 8] == IF q = 0 THEN deps ELSE G(step[q - 1], Group(q, at))
    IN  step[8]

Column(i) == [k \in 0 .. 15 |-> 16 * i + k]

Row(i) == [k \in 0 .. 15 |-> 2 * i + (k % 2) + 16 * (k \div 2)]

\* Rounds on eight times sixteen words.
Eight(deps, at) ==
    LET done[i \in 0 .. 8] == IF i = 0 THEN deps ELSE Round(done[i - 1], at[i])
    IN  done[8]

Rounds(deps) ==
    Eight(Eight(deps, [i \in 1 .. 8 |-> Column(i - 1)]), [i \in 1 .. 8 |-> Row(i - 1)])

-----------------------------------------------------------------------------
(* The first hash *)

Update32(bytes, n) == Append(bytes, n)

Update32Buf(bytes, buf) == Update32(bytes, Len(buf)) \o buf

InitialHash(hashSize, config, in) ==
    LET words == <<config.nb_lanes, hashSize, config.nb_blocks, config.nb_passes, 19, config.algorithm>>
    IN  Update32Buf(Update32Buf(Update32Buf(Update32Buf(words, in.pass), in.salt),
                                in.key), in.ad)

Init ==
    /\ call \in Calls
    /\ pass = 0 /\ slice = 0
    /\ next = [l \in Lanes |-> 2]  \* the first two blocks of a lane are hashes
    /\ filled = [b \in 0 .. WorkBlocks - 1 |-> IF b % LaneSize < 2 THEN 1 ELSE 0]
    /\ counter = [l \in Lanes |-> 1] /\ indexBlock = [l \in Lanes |-> <<>>]
    /\ last = <<>> /\ addresses = {} /\ result = {}

-----------------------------------------------------------------------------
(* Filling *)

ConstantTime ==
    \/ Algorithm = Argon2i
    \/ Algorithm = Argon2id /\ pass = 0 /\ slice < 2

PassOffset == IF pass = 0 /\ slice = 0 THEN 2 ELSE 0

Current(l) == l * LaneSize + slice * SegmentSize + next[l]

Previous(l) ==
    IF next[l] = 0 /\ slice = 0 THEN Current(l) + LaneSize - 1 ELSE Current(l) - 1

NeedsIndex(l) == next[l] = PassOffset \/ next[l] % IndexWords = 0

\* Fault: another lane's segment counts as one's own.
WindowSizeOfOwn(l, lane) ==
    ((IF pass = 0 THEN slice ELSE 3) * SegmentSize + (next[l] - 1)) % U32

\* The blocks a reference may be to: unsigned, so that -1 wraps.
WindowSize(l, lane) ==
    ((IF pass = 0 THEN slice ELSE 3) * SegmentSize
        + (IF lane = l THEN next[l] - 1 ELSE IF next[l] = 0 THEN U32 - 1 ELSE 0)) % U32

WindowStart == IF pass = 0 THEN 0 ELSE ((slice + 1) % 4) * SegmentSize

ReferenceLane(l, high) == IF pass = 0 /\ slice = 0 THEN l ELSE high % NbLanes

Reference(l, high, j1) ==
    LET lane == ReferenceLane(l, high)
        size == WindowSize(l, lane)
        x == (j1 * j1) \div U32
        y == (size * x) \div U32
        z == size - 1 - y
    IN  lane * LaneSize + ((WindowStart + z) % LaneSize)

Index(l) == IF NeedsIndex(l) THEN <<pass, l, slice, counter[l]>> ELSE indexBlock[l]

\* What the filling of a lane's next block uses.
Uses(l, reference) ==
    [at |-> Current(l), pass |-> pass, slice |-> slice,
     previous |-> <<Previous(l), filled[Previous(l)]>>,
     reference |-> <<reference, filled[reference]>>,
     address |-> IF ConstantTime THEN Append(Index(l), next[l] % IndexWords) ELSE <<>>]

\* One block of a lane's segment.
Fill(l) ==
    /\ pass < NbPasses /\ next[l] < SegmentSize
    /\ \E reference \in {Reference(l, high, j1) : high \in Lanes, j1 \in 0 .. U32 - 1} :
        last' = Uses(l, reference)
    /\ IF ConstantTime
       THEN /\ indexBlock' = [indexBlock EXCEPT ![l] = Index(l)]
            /\ counter' = [counter EXCEPT ![l] = @ + (IF NeedsIndex(l) THEN 1 ELSE 0)]
       ELSE UNCHANGED <<indexBlock, counter>>
    /\ addresses' = IF last = <<>> THEN {} ELSE addresses \cup {last.address}
    /\ filled' = [filled EXCEPT ![Current(l)] = @ + 1]
    /\ next' = [next EXCEPT ![l] = @ + 1]
    /\ UNCHANGED <<call, pass, slice, result>>

\* All segments must be fully completed before we start filling the next slice.
SegmentsDone == \A l \in Lanes : next[l] = SegmentSize

NextSlice ==
    /\ pass < NbPasses /\ SegmentsDone
    /\ slice' = (slice + 1) % 4 /\ pass' = IF slice = 3 THEN pass + 1 ELSE pass
    /\ next' = [l \in Lanes |-> 0]
    /\ counter' = [l \in Lanes |-> 1] /\ indexBlock' = [l \in Lanes |-> <<>>]
    /\ UNCHANGED <<call, filled, last, addresses, result>>

\* The last blocks of the lanes, each exclusive-ored into the next.
LastBlocks == {(l + 1) * LaneSize - 1 : l \in Lanes}

\* The result is taken, and the work area wiped.
Finish ==
    /\ pass = NbPasses /\ result = {}
    /\ result' = {<<b, filled[b]>> : b \in LastBlocks}
    /\ filled' = [b \in DOMAIN filled |-> 0]
    /\ UNCHANGED <<call, pass, slice, next, counter, indexBlock, last, addresses>>

Next == (\E l \in Lanes : Fill(l)) \/ NextSlice \/ Finish
Spec == Init /\ [][Next]_vars

-----------------------------------------------------------------------------
(* Properties *)

LaneOf(b) == b \div LaneSize
SliceOf(b) == (b % LaneSize) \div SegmentSize

\* How often a block is filled when block `at` of this pass is about to be, in
\* whatever order the lanes run.  Blocks of other lanes in this slice have no
\* such number.
Settled(b, f) ==
    IF SliceOf(b) = f.slice
    THEN IF b < f.at THEN f.pass + 1 ELSE f.pass
    ELSE IF SliceOf(b) < f.slice THEN f.pass + 1 ELSE f.pass

\* What a block is made of does not depend on the order of the lanes: neither
\* the block before it nor the one referred to is being filled by another lane,
\* both are filled already, and they are not the same (monocypher.c:818-891).
LanesAreIndependent ==
    last # <<>> =>
        LET r == last.reference[1]  p == last.previous[1]
        IN  /\ r # last.at /\ r # p
            /\ SliceOf(r) = last.slice => LaneOf(r) = LaneOf(last.at)
            /\ \A b \in {last.reference, last.previous} :
                b[2] = Settled(b[1], last) /\ b[2] > 0

\* No address word selects two blocks, which would then have references in
\* step (monocypher.c:836-858).
AddressesUsedOnce ==
    last # <<>> /\ last.address # <<>> => last.address \notin addresses

\* Different arguments have different first hashes: no byte of one string can be
\* moved to the next (monocypher.c:762-774).
InputsAreSeparated ==
    \A other \in Calls : other # call =>
        InitialHash(8, other.config, other.inputs) # InitialHash(8, call.config, call.inputs)

\* After the rows every word of a block depends on every word (monocypher.c:730).
\* The same for all calls: one is enough for the checker.
WordsAreMixed ==
    last = <<>> /\ call = (CHOOSE c \in Calls : TRUE) =>
        LET mixed == Rounds([v \in 0 .. 127 |-> {v}])
        IN  \A w \in 0 .. 127 : mixed[w] = 0 .. 127

\* The hash is taken over the last block of every lane, after the last pass has
\* filled it (monocypher.c:904).
HashTakesEveryLane ==
    result # {} => result = {<<(l + 1) * LaneSize - 1, NbPasses>> : l \in Lanes}
=============================================================================
