------------------------------- MODULE RunClaim -------------------------------
(***************************************************************************)
(* Who works on a run: the in-memory claim of one run                      *)
(* (orchestration/remote_lead.go: claim, release), turns that end or are   *)
(* refused (requireReview), refused turns handed straight back to their    *)
(* agent (orchestration/self_correction.go) and the Continue of a user,    *)
(* the assistant or an automatic retry (RecoverBlockerWithDirective).      *)
(*                                                                         *)
(* Processes are goroutines.  A turn's goroutine (launch, reattach) keeps  *)
(* the claim until it releases it; the goroutines of parallel              *)
(* implementation turns (launchAdmitted, reattachAdmitted) never had it.   *)
(***************************************************************************)
EXTENDS Integers, FiniteSets

CONSTANTS Procs,          \* goroutines
          Agents,         \* the agents whose turns run together: the lead, or in a
                          \* parallel implementation the lead and the reviewer
          Continues,      \* Continue requests, however they were made
          MaxCorrections  \* MaxSelfCorrections

ASSUME ConstantsAssumption ==
  /\ IsFiniteSet(Procs) /\ Agents # {}
  /\ Continues \in Nat /\ MaxCorrections \in Nat

VARIABLES
  run,        \* "running", "blocked" (waiting on a blocker), or "waiting" otherwise
  active,     \* starter.active holds the run
  pending,    \* starter.corrections[run]: "none", or what is known of the refused turn
  pc,         \* each goroutine's place
  claimed,    \* each goroutine's duty to release the claim
  correcting, \* the goroutines that run a correction, not a Continue
  tried,      \* self-corrections recorded for the failure
  requests,   \* Continue requests so far
  sawRunning, \* whether the run ran when the goroutine's waitRun read it
  owed,       \* pairs of parallel turns the goroutine has yet to start
  working,    \* agents whose session is active (running, or asked to pause)
  turn        \* the agent whose turn a goroutine observes

vars == <<run, active, pending, pc, claimed, correcting, tried, requests, sawRunning, owed,
          working, turn>>

turns == <<working, turn>>

(* An implementation with independent acceptance tests: the turns of both  *)
(* agents go on without the claim. *)
Parallel == \E a, b \in Agents : a # b

Idle == {g \in Procs : pc[g] = "idle"}

Init ==
  /\ run = "waiting" /\ active = FALSE /\ pending = "none"
  /\ pc = [g \in Procs |-> "idle"]
  /\ claimed = [g \in Procs |-> FALSE]
  /\ correcting = {}
  /\ tried = 0 /\ requests = 0
  /\ sawRunning = [g \in Procs |-> FALSE]
  /\ owed = [g \in Procs |-> 0]
  /\ working = {} /\ turn \in [Procs -> Agents] /\ \A g, h \in Procs : turn[g] = turn[h]

GoTo(g, next) == pc' = [pc EXCEPT ![g] = next]

(* Where a goroutine goes when a piece of its work is over. *)
Rest(g) == IF owed[g] > 0 THEN "spawn" ELSE IF claimed[g] THEN "release" ELSE "idle"

(* New goroutines start, one on the turn of each agent in by's domain. *)
Start(g, by, claim, next) ==
  LET started == {by[a] : a \in DOMAIN by} IN
  /\ started \subseteq Idle /\ \A a, b \in DOMAIN by : by[a] = by[b] => a = b
  /\ pc' = [h \in Procs |-> IF h \in started THEN "turn" ELSE IF h = g THEN next ELSE pc[h]]
  /\ claimed' = [h \in Procs |-> IF h \in started THEN claim ELSE claimed[h]]
  /\ turn' = [h \in Procs |-> IF h \in started THEN CHOOSE a \in DOMAIN by : by[a] = h ELSE turn[h]]

----------------------------------------------------------------------------
(* Starting and ending turns.                                              *)

(* A start request, or a run advancing on its own, takes the claim before  *)
(* the turn's admission. *)
Claim(g) ==
  /\ pc[g] = "idle" /\ run = "waiting" /\ ~active
  /\ active' = TRUE
  /\ GoTo(g, "admit")
  /\ UNCHANGED <<run, pending, claimed, correcting, tried, requests, sawRunning, owed, turns>>

(* The admission is durable, for a run that waits and agents that do too.  *)
(* Parallel turns go on without the claim, which is released first. *)
Admit(g, by) ==
  /\ pc[g] = "admit" /\ run # "running" /\ working = {}
  /\ run' = "running" /\ working' = Agents
  /\ IF Parallel
     THEN GoTo(g, "unclaim") /\ UNCHANGED <<claimed, turn>>
     ELSE DOMAIN by = Agents /\ Start(g, by, TRUE, Rest(g))
  /\ UNCHANGED <<active, pending, correcting, tried, requests, sawRunning, owed>>

(* The admission fails: the claim is released. *)
AdmitFails(g) ==
  /\ pc[g] = "admit"
  /\ claimed' = [claimed EXCEPT ![g] = TRUE]
  /\ GoTo(g, "release")
  /\ UNCHANGED <<run, active, pending, correcting, tried, requests, sawRunning, owed, turns>>

(* advanceWaitingRun fails after the release: requireReview, unclaimed. *)
AdvanceFails(g) ==
  /\ pc[g] = "idle" /\ run = "waiting"
  /\ GoTo(g, "block")
  /\ UNCHANGED <<run, active, pending, claimed, correcting, tried, requests, sawRunning, owed, turns>>

(* The turn's result is accepted and its session waits.  The run goes on   *)
(* while the other agent works; then it waits for what comes next.  A      *)
(* second observer of a turn finds nothing to do. *)
Complete(g) ==
  /\ pc[g] = "turn"
  /\ working' = working \ {turn[g]}
  /\ run' = IF turn[g] \in working /\ working = {turn[g]} /\ run = "running" THEN "waiting" ELSE run
  /\ GoTo(g, Rest(g))
  /\ UNCHANGED <<active, pending, claimed, correcting, tried, requests, sawRunning, owed, turn>>

(* requireReview of an interruption or a failure: the run will block. *)
Fail(g) ==
  /\ pc[g] = "turn"
  /\ GoTo(g, "block")
  /\ UNCHANGED <<run, active, pending, claimed, correcting, tried, requests, sawRunning, owed, turns>>

(* planSelfCorrection gives the refused turn back while tries are left. *)
Refuse(g) ==
  /\ pc[g] = "turn" /\ tried < MaxCorrections
  /\ GoTo(g, "hold")
  /\ UNCHANGED <<run, active, pending, claimed, correcting, tried, requests, sawRunning, owed, turns>>

(* holdForCorrection: keep the run held from before its blocker is noted;  *)
(* when another goroutine holds it, its release will hand the run over.    *)
HoldForCorrection(g) ==
  /\ pc[g] = "hold"
  /\ IF active
     THEN pending' = "noting" /\ UNCHANGED <<active, correcting>>
     ELSE active' = TRUE /\ correcting' = correcting \cup {g} /\ UNCHANGED pending
  /\ GoTo(g, "note")
  /\ UNCHANGED <<run, claimed, tried, requests, sawRunning, owed, turns>>

(* waitRun reads the run... *)
ReadRun(g) ==
  /\ pc[g] \in {"block", "note"}
  /\ sawRunning' = [sawRunning EXCEPT ![g] = run = "running"]
  /\ GoTo(g, IF pc[g] = "block" THEN "blocking" ELSE "noting")
  /\ UNCHANGED <<run, active, pending, claimed, correcting, tried, requests, owed, turns>>

(* ...and blocks it, a compare-and-set whose failure requireReview ignores; *)
(* a refused turn's correction comes next. *)
WaitRun(g) ==
  /\ pc[g] \in {"blocking", "noting"}
  /\ run' = IF (run = "running") = sawRunning[g] THEN "blocked" ELSE run
  /\ IF pc[g] = "blocking" THEN GoTo(g, Rest(g)) ELSE GoTo(g, "correct")
  /\ UNCHANGED <<active, pending, claimed, correcting, tried, requests, sawRunning, owed, turns>>

(* correctWhenFree: correct at once when the run is the correction's,      *)
(* otherwise leave the correction to the holder's release. *)
CorrectWhenFree(g) ==
  /\ pc[g] = "correct"
  /\ IF g \notin correcting /\ pending \in {"noting", "ready"}
     THEN pending' = "ready" /\ GoTo(g, Rest(g)) /\ UNCHANGED correcting
     ELSE /\ pending' = IF g \in correcting THEN pending ELSE "none"
          /\ correcting' = correcting \cup {g}
          /\ GoTo(g, "begin")
  /\ UNCHANGED <<run, active, claimed, tried, requests, sawRunning, owed, turns>>

----------------------------------------------------------------------------
(* Letting the run go.                                                     *)

(* Fault: a correction that is ready is forgotten, the run stays held. *)
LetGoForgetting(g, after) ==
  /\ active' = (pending # "none")
  /\ pending' = IF pending = "noting" THEN "released" ELSE "none"
  /\ GoTo(g, after)
  /\ UNCHANGED correcting

(* Fault: the run is released before the correction takes it off its blocker. *)
LetGoFirst(g, after) ==
  /\ active' = FALSE
  /\ pending' = "none"
  /\ GoTo(g, IF pending = "ready" THEN "begin" ELSE after)
  /\ correcting' = IF pending = "ready" THEN correcting \cup {g} ELSE correcting

(* release: the run is free, stays held for a correction that is still     *)
(* being noted, or is handed to one that is ready, which this goroutine    *)
(* then runs. *)
LetGo(g, after) ==
  CASE pending = "none" ->
         active' = FALSE /\ GoTo(g, after) /\ UNCHANGED <<pending, correcting>>
    [] pending = "noting" ->
         pending' = "released" /\ GoTo(g, after) /\ UNCHANGED <<active, correcting>>
    [] pending = "ready" ->
         /\ pending' = "none" /\ GoTo(g, "begin")
         /\ correcting' = correcting \cup {g} /\ UNCHANGED active
    [] pending = "released" ->
         GoTo(g, after) /\ UNCHANGED <<active, pending, correcting>>

(* A turn's goroutine, or a failed admission, ends. *)
Release(g) ==
  /\ pc[g] = "release"
  /\ LetGo(g, "idle")
  /\ claimed' = [claimed EXCEPT ![g] = FALSE]
  /\ UNCHANGED <<run, tried, requests, sawRunning, owed, turns>>

(* Parallel turns are about to go on without the claim. *)
Unclaim(g) ==
  /\ pc[g] = "unclaim"
  /\ owed' = [owed EXCEPT ![g] = @ + 1]
  /\ LetGo(g, "spawn")
  /\ UNCHANGED <<run, claimed, tried, requests, sawRunning, turns>>

SpawnParallel(g, by) ==
  /\ pc[g] = "spawn" /\ DOMAIN by = Agents
  /\ owed' = [owed EXCEPT ![g] = @ - 1]
  /\ Start(g, by, FALSE, IF owed[g] > 1 THEN "spawn" ELSE IF claimed[g] THEN "release" ELSE "idle")
  /\ UNCHANGED <<run, active, pending, correcting, tried, requests, sawRunning, working>>

----------------------------------------------------------------------------
(* Recovery: RecoverBlockerWithDirective, and correct().                   *)

(* A Continue from the user, the assistant or a retry that is due. *)
Continue(g) ==
  /\ pc[g] = "idle" /\ requests < Continues
  /\ requests' = requests + 1
  /\ GoTo(g, "begin")
  /\ UNCHANGED <<run, active, pending, claimed, correcting, tried, sawRunning, owed, turns>>

(* beginRecovery: the run must wait on a blocker; the recovery is noted.   *)
BeginRecovery(g) ==
  /\ pc[g] = "begin"
  /\ IF run = "blocked"
     THEN GoTo(g, "recheck") /\ tried' = tried + (IF g \in correcting THEN 1 ELSE 0)
     ELSE GoTo(g, IF g \in correcting THEN "drop" ELSE Rest(g)) /\ UNCHANGED tried
  /\ UNCHANGED <<run, active, pending, claimed, correcting, requests, sawRunning, owed, turns>>

(* TransitionRun, a compare-and-set from waiting to running; a run that    *)
(* runs already is left as it is. *)
Recheck(g) ==
  /\ pc[g] = "recheck"
  /\ run' = "running"
  /\ GoTo(g, CASE g \in correcting -> IF run # "running" THEN "free" ELSE "drop"
               [] OTHER -> IF run # "running" THEN "recover" ELSE Rest(g))
  /\ UNCHANGED <<active, pending, claimed, correcting, tried, requests, sawRunning, owed, turns>>

(* correct() lets the run go, having moved it off its blocker or not. *)
Free(g) ==
  /\ pc[g] \in {"free", "drop"}
  /\ active' = FALSE
  /\ correcting' = correcting \ {g}
  /\ GoTo(g, IF pc[g] = "free" THEN "recover" ELSE Rest(g))
  /\ UNCHANGED <<run, pending, claimed, tried, requests, sawRunning, owed, turns>>

(* Fault: the run is taken whether or not another goroutine holds it. *)
RecoverUnclaimed(g, by) ==
  /\ pc[g] = "recover"
  /\ active' = TRUE
  /\ \E a \in IF working = {} THEN Agents ELSE working :
       DOMAIN by = {a} /\ working' = working \cup {a} /\ Start(g, by, TRUE, Rest(g))
  /\ UNCHANGED <<run, pending, correcting, tried, requests, sawRunning, owed>>

(* finishRecovery: recoverWithDirective claims the run and reattaches to   *)
(* its one active turn, to both of a parallel implementation, or takes up  *)
(* the idle run again. *)
Recover(g, by) ==
  /\ pc[g] = "recover" /\ ~active
  /\ active' = TRUE
  /\ IF Parallel /\ working = Agents
     THEN GoTo(g, "unclaim") /\ UNCHANGED <<claimed, turn, working>>
     ELSE \E a \in IF working = {} THEN Agents ELSE working :
            DOMAIN by = {a} /\ working' = working \cup {a} /\ Start(g, by, TRUE, Rest(g))
  /\ UNCHANGED <<run, pending, correcting, tried, requests, sawRunning, owed>>

(* A run that is claimed is left to its holder (ErrRunAlreadyActive). *)
LeaveToHolder(g) ==
  /\ pc[g] = "recover" /\ active
  /\ GoTo(g, Rest(g))
  /\ UNCHANGED <<run, active, pending, claimed, correcting, tried, requests, sawRunning, owed, turns>>

(* Any other error blocks the run again. *)
RecoverFails(g) ==
  /\ pc[g] = "recover"
  /\ GoTo(g, "block")
  /\ UNCHANGED <<run, active, pending, claimed, correcting, tried, requests, sawRunning, owed, turns>>

----------------------------------------------------------------------------
(* Which idle goroutines could start on whose turns. *)
Starts == UNION {[agents -> Procs] : agents \in SUBSET Agents \ {{}}}

Step(g) ==
  \/ Claim(g) \/ AdmitFails(g) \/ AdvanceFails(g) \/ Complete(g) \/ Fail(g) \/ Refuse(g)
  \/ HoldForCorrection(g) \/ ReadRun(g) \/ WaitRun(g) \/ CorrectWhenFree(g)
  \/ Release(g) \/ Unclaim(g)
  \/ Continue(g) \/ BeginRecovery(g) \/ Recheck(g) \/ Free(g)
  \/ LeaveToHolder(g) \/ RecoverFails(g)
  \/ \E by \in Starts : Admit(g, by) \/ SpawnParallel(g, by) \/ Recover(g, by)

Next == \E g \in Procs : Step(g)

Spec == Init /\ [][Next]_vars

(* What a goroutine does on its own once a turn is over: nothing in it     *)
(* waits for anyone. *)
Proceed(g) ==
  \/ HoldForCorrection(g) \/ ReadRun(g) \/ WaitRun(g) \/ CorrectWhenFree(g)
  \/ Release(g) \/ Unclaim(g) \/ BeginRecovery(g) \/ Recheck(g) \/ Free(g)

FairSpec == Spec /\ \A g \in Procs : WF_vars(Proceed(g))

----------------------------------------------------------------------------
Places == {"idle", "admit", "turn", "hold", "block", "note", "blocking", "noting", "correct",
           "release", "unclaim", "spawn", "begin", "recheck", "free", "drop", "recover"}

TypeOK ==
  /\ run \in {"running", "blocked", "waiting"}
  /\ active \in BOOLEAN
  /\ pending \in {"none", "noting", "ready", "released"}
  /\ pc \in [Procs -> Places]
  /\ claimed \in [Procs -> BOOLEAN]
  /\ correcting \subseteq Procs
  /\ tried \in Nat /\ requests \in Nat
  /\ sawRunning \in [Procs -> BOOLEAN]
  /\ owed \in [Procs -> Nat]
  /\ working \subseteq Agents /\ turn \in [Procs -> Agents]

(* Goroutines that have the run and will let it go. *)
Holders == {g \in Procs : claimed[g] \/ pc[g] \in {"admit", "unclaim"} \/ g \in correcting}

(* A run has one holder at a time, however its claim is handed on: turn to *)
(* correction, correction to the turn it continues. *)
OneHolder == \A g, h \in Holders : g = h

(* A refused turn on its way back to its agent. *)
Noting == {g \in Procs : pc[g] \in {"note", "noting", "correct"}}
GoingBack == Noting \cup {g \in correcting : pc[g] = "begin"}

(* A run is never left claimed with nobody who will release it: its holder *)
(* does, or the correction the holder's release left it to. *)
ClaimHasOwner == active => Holders # {} \/ (pending = "released" /\ Noting # {})

(* "so no one sees the run free and blocked in between" (holdForCorrection, *)
(* release): while a refused turn goes back to its agent, a blocked run is *)
(* held. *)
NeverFreeAndBlocked ==
  run = "blocked" /\ (pending # "none" \/ GoingBack # {}) => active

(* Continues that have yet to move the run off its blocker. *)
Continuing == {g \in Procs \ correcting : pc[g] \in {"begin", "recheck"}}

(* A refused turn is handed back: its correction is recorded, whatever the *)
(* other goroutines do, unless a Continue takes the run up first. *)
RefusedTurnGoesBack ==
  \A g \in Procs : \A k \in 0 .. MaxCorrections : \A r \in 0 .. Continues :
    pc[g] = "hold" /\ tried = k /\ requests = r /\ Continuing = {}
      ~> tried > k \/ requests > r
=============================================================================
