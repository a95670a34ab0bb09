--------------------------- MODULE MCWorkerService ---------------------------
(***************************************************************************)
(* WorkerService on small instances.  All attempts belong to one session,  *)
(* which is the unit the journal fences.                                   *)
(***************************************************************************)
EXTENDS WorkerService, TLC

CONSTANTS a1, a2, k1, k2, p1, p2

MCSessionOf(a) == "s"

(* Nothing orders keys, attempts or conversations. *)
Symmetric ==
    Permutations(Key) \cup Permutations(Attempt) \cup Permutations(ProviderID)
=============================================================================
