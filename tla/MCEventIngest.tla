----------------------------- MODULE MCEventIngest -----------------------------
(* Bounded instances of EventIngest for TLC. *)
EXTENDS EventIngest, TLC

CONSTANTS p1, p2
=============================================================================
