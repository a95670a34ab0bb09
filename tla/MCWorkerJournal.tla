--------------------------- MODULE MCWorkerJournal ---------------------------
(***************************************************************************)
(* WorkerJournal on a small instance: two attempts of one session, so that *)
(* creating one contends with every state of the other.                    *)
(***************************************************************************)
EXTENDS WorkerJournal, TLC

CONSTANTS a1, a2, p1, p2

MCSessionOf(a) == "s"

Symmetric == Permutations({a1, a2}) \cup Permutations({p1, p2})
=============================================================================
