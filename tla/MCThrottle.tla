----------------------------- MODULE MCThrottle -----------------------------
(* Instances of Throttle for TLC. *)
EXTENDS Throttle

Statuses == -1 .. 2
Timestamps == 0 .. 9
=============================================================================
