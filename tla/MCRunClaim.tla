------------------------------ MODULE MCRunClaim ------------------------------
(* Model values for checking RunClaim.  A run is either one of the lead's alone, *)
(* or one of both agents together, whose turns are then never refused.          *)
EXTENDS RunClaim, TLC

CONSTANTS g1, g2, g3, lead, reviewer

VARIABLE together

Both == INSTANCE RunClaim WITH Agents <- {lead, reviewer}, MaxCorrections <- 0, Continues <- 1

MCInit == together \in BOOLEAN /\ (IF together THEN Both!Init ELSE Init)
MCNext == UNCHANGED together /\ (IF together THEN Both!Next ELSE Next)
MCSpec == MCInit /\ [][MCNext]_<<vars, together>> /\ \A g \in Procs : WF_vars(Proceed(g))
=============================================================================
