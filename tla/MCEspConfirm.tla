---------------------------- MODULE MCEspConfirm ----------------------------
(* Three boots, each with a nonce of its own. *)
EXTENDS EspConfirm

MCNonces == {[lo |-> k, hi |-> 10 + k] : k \in 1 .. 3}
=============================================================================
