-------------------------- MODULE EspConfirmProofs --------------------------
(***************************************************************************)
(* A confirmation is accepted at most once, for every set of nonces.       *)
(*                                                                         *)
(* AcceptedOnce needs to know what a half-stored and a half-cleared cell   *)
(* may hold.  The invariant that carries it says: a nonce that stands      *)
(* complete in the cell is an unconsumed confirmation; every half in the   *)
(* cell comes from a nonce already drawn, so a fresh one matches nothing;  *)
(* and a half of the running OS's nonce is there only because that OS is   *)
(* storing it or has confirmed.                                            *)
(***************************************************************************)
EXTENDS EspConfirm, TLAPS

LEMMA TypeInit == Init => TypeOK
<1> SUFFICES ASSUME Init PROVE TypeOK
  OBVIOUS
<1> QED
  BY DEF Init, TypeOK, Idle

LEMMA TypeStep ==
    ASSUME NonceAssumption PROVE TypeOK /\ [Next]_vars => TypeOK'
<1> SUFFICES ASSUME TypeOK, [Next]_vars PROVE TypeOK'
  OBVIOUS
<1> USE DEF TypeOK, Idle, NonceAssumption
<1>1. CASE CheckOk
  BY <1>1 DEF CheckOk, Begin
<1>2. CASE Clear
  BY <1>2 DEF Clear, Begin
<1>3. CASE ZeroHalf
  BY <1>3 DEF ZeroHalf
<1>4. CASE Return
  BY <1>4 DEF Return, AllStored
<1>5. CASE PowerUp
  BY <1>5 DEF PowerUp
<1>6. CASE BootOs
  BY <1>6 DEF BootOs
<1>7. CASE KeepState
  BY <1>7 DEF KeepState
<1>8. CASE Confirm
  BY <1>8 DEF Confirm, Begin
<1>9. CASE ConfirmHalf
  <2>1. PICK h \in left :
          cell' = [cell EXCEPT ![h] = expected[h]] /\ left' = left \ {h}
    BY <1>9 DEF ConfirmHalf
  <2>2. expected[h] \in HalfWords
    BY <1>9, <2>1 DEF ConfirmHalf, HalfWords
  <2> QED
    BY <1>9, <2>1, <2>2 DEF ConfirmHalf
<1>10. CASE WarmReset
  BY <1>10 DEF WarmReset
<1>11. CASE PowerLoss
  BY <1>11 DEF PowerLoss
<1>12. CASE UNCHANGED vars
  BY <1>12 DEF vars
<1> QED
  BY <1>1, <1>2, <1>3, <1>4, <1>5, <1>6, <1>7, <1>8, <1>9, <1>10, <1>11, <1>12
  DEF Next

\* The confirm driver and its surroundings keep their types.
THEOREM TypeCorrect == NonceAssumption /\ Spec => []TypeOK
<1> SUFFICES ASSUME NonceAssumption PROVE Spec => []TypeOK
  OBVIOUS
<1>1. Init => TypeOK
  BY TypeInit
<1>2. TypeOK /\ [Next]_vars => TypeOK'
  BY TypeStep
<1> QED
  BY <1>1, <1>2, PTL DEF Spec

-----------------------------------------------------------------------------
(* The halves in the cell. *)

Foreign == {0, Junk, State}
Origin == \A h \in Half : cell[h] \in Foreign \/ \E m \in used : cell[h] = m[h]
Owner ==
    at = "os" => \A h \in Half :
        cell[h] = expected[h] => live = expected \/ (op = "confirm" /\ h \notin left)
Storing == op = "confirm" => \A h \in Half \ left : cell[h] = expected[h]
Checking == op = "check" => expected # NULL /\ live = expected
Complete == cell \in Nonces => live = cell

Inv == TypeOK /\ expected \in used \cup {NULL}
         /\ Origin /\ Owner /\ Storing /\ Checking /\ Complete

\* A half of a nonce is no other nonce's half and nothing that comes from
\* elsewhere.
LEMMA HalvesAreDistinct ==
    ASSUME NonceAssumption, NEW m \in Nonces, NEW n \in Nonces, NEW h \in Half
    PROVE  /\ m[h] \notin Foreign
           /\ m[h] = n[h] => m = n
  BY DEF NonceAssumption, HalfWords, Foreign

LEMMA InvInit ==
    ASSUME NonceAssumption PROVE Init => Inv
<1> SUFFICES ASSUME Init PROVE Inv
  OBVIOUS
<1>1. TypeOK
  BY TypeInit
<1>2. Origin
  BY DEF Init, Origin, Foreign
<1>3. Complete
  <2>1. \A n \in Nonces : n["lo"] \notin Foreign
    BY HalvesAreDistinct DEF Half
  <2>2. cell["lo"] \in Foreign
    BY DEF Init, Foreign, Half
  <2> QED
    BY <2>1, <2>2 DEF Complete
<1> QED
  BY <1>1, <1>2, <1>3 DEF Init, Inv, Owner, Storing, Checking

\* A store into one half: what the cell holds then, half by half.
LEMMA HalfStored ==
    ASSUME TypeOK, NEW h \in Half, NEW w, cell' = [cell EXCEPT ![h] = w]
    PROVE  cell'[h] = w /\ \A k \in Half : k # h => cell'[k] = cell[k]
  BY DEF TypeOK

\* A cell with a foreign half is no nonce.
LEMMA ForeignHalf ==
    ASSUME NonceAssumption, NEW h \in Half, NEW c, c \in Nonces, c[h] \in Foreign
    PROVE  FALSE
  BY HalvesAreDistinct

LEMMA InvStep ==
    ASSUME NonceAssumption PROVE Inv /\ [Next]_vars => Inv'
<1> SUFFICES ASSUME Inv, [Next]_vars PROVE Inv'
  OBVIOUS
<1>t. TypeOK /\ TypeOK'
  BY TypeStep DEF Inv
<1>u. expected \in used \cup {NULL} /\ used \subseteq Nonces
  BY <1>t DEF Inv, TypeOK
<1>1. CASE CheckOk
  <2>1. op' = "check" => live = expected
    BY <1>1, <1>t DEF NonceAssumption, Inv, CheckOk, Matches, Complete, TypeOK, Idle
  <2> QED
    BY <1>1, <1>t, <2>1
    DEF Inv, CheckOk, Begin, Origin, Owner, Storing, Checking, Complete, Idle, TypeOK
<1>2. CASE Clear
  BY <1>2, <1>t DEF Inv, Clear, Begin, Origin, Owner, Storing, Checking, Complete
<1>3. CASE ZeroHalf
  <2>1. PICK h \in left : cell' \in {cell, [cell EXCEPT ![h] = 0]}
    BY <1>3 DEF ZeroHalf
  <2>2. h \in Half /\ at' = at /\ at = "boot_main"
    BY <1>3, <1>t, <2>1 DEF TypeOK, ZeroHalf
  <2>3. \A k \in Half : cell'[k] = cell[k] \/ cell'[k] = 0
    BY <1>t, <2>1, <2>2 DEF TypeOK
  <2>4. Origin'
    BY <1>3, <2>3 DEF Inv, Origin, Foreign, ZeroHalf
  <2>5. Complete'
    <3>1. CASE cell' = cell
      BY <1>3, <3>1 DEF Inv, Complete, ZeroHalf
    <3>2. CASE cell' = [cell EXCEPT ![h] = 0]
      <4>1. cell'[h] \in Foreign
        BY <1>t, <2>2, <3>2, HalfStored DEF Foreign
      <4> QED
        BY <2>2, <4>1, ForeignHalf DEF Complete
    <3> QED
      BY <2>1, <3>1, <3>2
  <2> QED
    BY <1>3, <1>t, <2>2, <2>4, <2>5 DEF Inv, ZeroHalf, Owner, Storing, Checking
<1>4. CASE Return
  <2>1. Complete'
    <3>1. CASE ReadBack
      <4>1. cell["lo"] \in Foreign
        BY <3>1 DEF ReadBack, Zero, Half, Foreign
      <4> QED
        BY <1>4, <4>1, ForeignHalf DEF Complete, Return, Half
    <3>2. CASE ~ReadBack
      BY <1>4, <3>2 DEF Return, Inv, Complete
    <3> QED
      BY <3>1, <3>2
  <2> QED
    BY <1>4, <1>t, <2>1 DEF Inv, Return, Origin, Owner, Storing, Checking, TypeOK
<1>5. CASE PowerUp
  BY <1>5, <1>t DEF Inv, PowerUp, Origin, Owner, Storing, Checking, Complete
<1>6. CASE BootOs
  <2>1. PICK n \in Nonces \ used : expected' = n /\ used' = used \cup {n}
    BY <1>6 DEF BootOs
  <2>2. \A h \in Half : cell[h] # n[h]
    <3> SUFFICES ASSUME NEW h \in Half, cell[h] = n[h] PROVE FALSE
      OBVIOUS
    <3>1. CASE cell[h] \in Foreign
      BY <2>1, <3>1, HalvesAreDistinct
    <3>2. CASE \E m \in used : cell[h] = m[h]
      BY <1>u, <2>1, <3>2, HalvesAreDistinct
    <3> QED
      BY <3>1, <3>2 DEF Inv, Origin
  <2>3. Owner'
    BY <1>6, <2>1, <2>2 DEF BootOs, Owner
  <2>4. Origin'
    BY <1>6, <2>1 DEF BootOs, Inv, Origin
  <2> QED
    BY <1>6, <1>t, <2>1, <2>3, <2>4
    DEF Inv, BootOs, Storing, Checking, Complete, Idle
<1>7. CASE KeepState
  <2>1. PICK h \in Half : cell' = [cell EXCEPT ![h] = State]
    BY <1>7 DEF KeepState
  <2>2. cell'[h] = State /\ \A k \in Half : k # h => cell'[k] = cell[k]
    BY <1>t, <2>1, HalfStored
  <2>3. Origin'
    BY <1>7, <2>2 DEF Inv, Origin, Foreign, KeepState
  <2>4. Complete'
    BY <2>2, ForeignHalf DEF Complete, Foreign
  <2>5. Owner'
    <3>1. at = "os" => expected \in Nonces
      BY <1>t DEF TypeOK
    <3>2. at = "os" => cell'[h] # expected[h]
      BY <2>2, <3>1, HalvesAreDistinct DEF Foreign
    <3> QED
      BY <1>7, <2>2, <3>2 DEF Inv, Owner, KeepState
  <2> QED
    BY <1>7, <1>t, <2>3, <2>4, <2>5 DEF Inv, KeepState, Storing, Checking, Idle
<1>8. CASE Confirm
  BY <1>8, <1>t DEF Inv, Confirm, Begin, Idle, Origin, Owner, Storing, Checking, Complete
<1>9. CASE ConfirmHalf
  <2>1. PICK h \in left :
          cell' = [cell EXCEPT ![h] = expected[h]] /\ left' = left \ {h}
    BY <1>9 DEF ConfirmHalf
  <2>2. h \in Half /\ at = "os" /\ expected \in Nonces /\ expected \in used
    BY <1>9, <1>t, <1>u, <2>1 DEF NonceAssumption, ConfirmHalf, TypeOK
  <2>3. cell'[h] = expected[h] /\ \A k \in Half : k # h => cell'[k] = cell[k]
    BY <1>t, <2>1, <2>2, HalfStored
  <2>4. Origin'
    BY <1>9, <2>2, <2>3 DEF ConfirmHalf, Inv, Origin
  <2>5. Storing'
    BY <1>9, <2>1, <2>2, <2>3 DEF ConfirmHalf, Inv, Storing
  <2>6. Owner'
    BY <1>9, <2>1, <2>2, <2>3 DEF ConfirmHalf, Inv, Owner
  <2>7. Complete'
    <3> SUFFICES ASSUME cell' \in Nonces PROVE live' = cell'
      BY DEF Complete
    <3>1. cell' = expected
      BY <2>2, <2>3, HalvesAreDistinct
    <3>2. PICK k \in Half : k # h /\ Half = {h, k}
      BY <2>2 DEF Half
    <3>3. cell[k] = expected[k]
      BY <2>3, <3>1, <3>2
    <3>4. live = expected \/ k \notin left
      BY <2>2, <3>2, <3>3 DEF Inv, Owner
    <3>5. CASE live = expected
      BY <1>9, <3>1, <3>5 DEF ConfirmHalf
    <3>6. CASE k \notin left
      <4>1. left' = {}
        BY <1>t, <2>1, <3>2, <3>6 DEF TypeOK
      <4> QED
        BY <1>9, <3>1, <4>1 DEF ConfirmHalf
    <3> QED
      BY <3>4, <3>5, <3>6
  <2>8. Checking'
    BY <1>9 DEF ConfirmHalf, Checking
  <2> QED
    BY <1>9, <1>t, <2>2, <2>4, <2>5, <2>6, <2>7, <2>8 DEF ConfirmHalf, Inv
<1>10. CASE WarmReset
  BY <1>10, <1>t DEF Inv, WarmReset, Origin, Owner, Storing, Checking, Complete
<1>11. CASE PowerLoss
  <2>1. \A h \in Half : cell'[h] \in Foreign
    BY <1>11 DEF PowerLoss, Foreign
  <2>2. Origin'
    BY <2>1 DEF Origin
  <2>3. Complete'
    BY <2>1, ForeignHalf DEF Complete, Half
  <2> QED
    BY <1>11, <1>t, <2>2, <2>3 DEF Inv, PowerLoss, Owner, Storing, Checking
<1>12. CASE UNCHANGED vars
  BY <1>12, <1>t DEF Inv, vars, Origin, Owner, Storing, Checking, Complete
<1> QED
  BY <1>1, <1>2, <1>3, <1>4, <1>5, <1>6, <1>7, <1>8, <1>9, <1>10, <1>11, <1>12
  DEF Next

\* The invariant about the halves in the cell holds in every reachable state.
THEOREM InvCorrect == NonceAssumption /\ Spec => []Inv
<1> SUFFICES ASSUME NonceAssumption PROVE Spec => []Inv
  OBVIOUS
<1>1. Init => Inv
  BY InvInit
<1>2. Inv /\ [Next]_vars => Inv'
  BY InvStep
<1> QED
  BY <1>1, <1>2, PTL DEF Spec

LEMMA InvNoStale == Inv => NoStaleNonce
BY DEF Inv, Complete, NoStaleNonce

\* Only the end of check_ok answers true, and it has seen the live nonce.
LEMMA AcceptedStep == Inv /\ [Next]_vars => [AcceptedByLive]_vars
<1> SUFFICES ASSUME Inv, [Next]_vars, result' = "true", result # "true"
             PROVE  live = expected
  BY DEF AcceptedByLive
<1>1. CASE Return
  BY <1>1 DEF Return, Inv, Checking
<1>2. CASE ~Return
  BY <1>2 DEF Next, vars, CheckOk, Clear, ZeroHalf, PowerUp, BootOs, KeepState,
              Confirm, ConfirmHalf, WarmReset, PowerLoss
<1> QED
  BY <1>1, <1>2

\* Whatever resets and lost stores come in between, no consumed or revoked
\* nonce stays in the cell after a call.
THEOREM NoStale == NonceAssumption /\ Spec => []NoStaleNonce
<1> SUFFICES ASSUME NonceAssumption PROVE Spec => []NoStaleNonce
  OBVIOUS
<1> QED
  BY InvNoStale, InvCorrect, PTL

\* esp_confirm_check_ok answers true only to a confirmation of the last boot
\* that nobody has consumed.
THEOREM Accepted == NonceAssumption /\ Spec => AcceptedOnce
<1> SUFFICES ASSUME NonceAssumption PROVE Spec => AcceptedOnce
  OBVIOUS
<1> QED
  BY AcceptedStep, InvCorrect, PTL DEF Spec, AcceptedOnce
=============================================================================
