----------------------------- MODULE PackageRequests -----------------------------
(***************************************************************************)
(* A request of the lead for system packages (projectenvironment.Service   *)
(* over its table): the user approves or rejects it, the desktop           *)
(* provisions it, and the lead is told.  Every call reads the request and  *)
(* then compares and sets it, so calls race.                               *)
(***************************************************************************)
EXTENDS Naturals, FiniteSets
CONSTANT MaxAsked   \* how many calls there are
VARIABLES
    packages,  \* the request's status
    asked,     \* the calls: what each wants, the status it read, and where it stands
    consent,   \* whether the user's last effective decision was to approve
    told       \* what the lead was told
packageVars == <<packages, asked, consent, told>>

Wants == {"approve", "reject", "begin", "complete", "fail"}
Statuses == {"none", "requested", "approved", "provisioning", "ready", "rejected", "failed"}
Goal == [w \in Wants |-> CASE w = "approve" -> "approved" [] w = "reject" -> "rejected"
                           [] w = "begin" -> "provisioning" [] w = "complete" -> "ready" [] OTHER -> "failed"]
PackagesTypeOK ==
    /\ packages \in Statuses /\ told \subseteq {"rejected", "ready"} /\ consent \in BOOLEAN
    /\ \A c \in 1..MaxAsked : asked[c].read \in Statuses /\ asked[c].at \in {"new", "compare", "tell", "done"}
InitPackages ==
    /\ packages = "none" /\ consent = FALSE /\ told = {}
    /\ asked \in [1..MaxAsked -> [at : {"new"}, want : Wants, read : {"none"}]]

Request == packages = "none" /\ packages' = "requested" /\ UNCHANGED <<asked, consent, told>>
Goes(c, step) == asked' = [asked EXCEPT ![c].at = step]
(* What each call compares with; a call whose goal is reached already has nothing to set. *)
From(c) == CASE asked[c].want = "approve" -> {"requested"}
             [] asked[c].want = "reject" -> {"requested", "approved", "failed"}
             [] asked[c].want = "begin" -> {"approved", "failed"}
             [] OTHER -> {"provisioning"}
Tells(want) == IF want \in {"reject", "complete"} THEN "tell" ELSE "done"
Read ==
    /\ packages # "none"
    /\ \E c \in 1..MaxAsked :
         /\ asked[c].at = "new"
         /\ asked' = [asked EXCEPT ![c] = [@ EXCEPT !.read = packages, !.at =
              IF packages \in From(c) THEN "compare" ELSE IF packages = Goal[asked[c].want] THEN Tells(asked[c].want) ELSE "done"]]
    /\ UNCHANGED <<packages, consent, told>>
(* Transition: it reads once more, and then its update names the status that the call read. *)
Transition ==
    /\ \E c \in 1..MaxAsked : LET want == asked[c].want IN
         /\ asked[c].at = "compare"
         /\ IF packages = Goal[want] \/ packages = asked[c].read
            THEN packages' = Goal[want] /\ Goes(c, Tells(want))
            ELSE UNCHANGED packages /\ Goes(c, "done")
         /\ consent' = IF packages' = packages \/ want \notin {"approve", "reject"} THEN consent ELSE want = "approve"
    /\ UNCHANGED told
(* The answer goes to the lead under an ID of the request's own, so it is told once. *)
Tell ==
    /\ \E c \in 1..MaxAsked : asked[c].at = "tell" /\ told' = told \union {Goal[asked[c].want]} /\ Goes(c, "done")
    /\ UNCHANGED <<packages, consent>>
NextPackages == Request \/ Read \/ Transition \/ Tell

(* Packages are approved, provisioned or installed for the agents only while the user wants them, and the
   lead hears of a decision that stands. *)
ConsentIsKept == packages \in {"approved", "provisioning", "ready", "failed"} <=> consent
PackagesAreSound == PackagesTypeOK /\ ConsentIsKept /\ told \subseteq {packages}
SpecPackages == InitPackages /\ [][NextPackages]_packageVars
==================================================================================
