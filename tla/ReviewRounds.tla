----------------------------- MODULE ReviewRounds -----------------------------
(***************************************************************************)
(* One work order from its implementation turn to its merge: the lead and  *)
(* the reviewer in turns, acceptance tests written beside the              *)
(* implementation, what is verified at each turn's end, the preview check  *)
(* at the merge gate, updates onto main, and pauses, refused results,      *)
(* pushes by somebody else and restarts anywhere between                   *)
(* (orchestration/remote_lead.go, base_update.go, preview_check.go,        *)
(* workspace/service.go).  Whose turn it is to merge is MergeLine's        *)
(* subject; how a failed turn is continued is RunClaim's.                  *)
(***************************************************************************)
EXTENDS RunLedger

CONSTANTS
  RoundLimit,     \* the run's implementation review round limit
  MaxFixes,       \* maxPreviewFixes
  MaxTrouble,     \* how many pauses, refusals, pushes by others and restarts come, together
  MaxContinues,   \* how often the user answers a blocker
  MaxUpdates      \* how often main moves past an approved commit

ASSUME RoundAssumption == RoundLimit \in Nat \ {0} /\ MaxFixes \in Nat

VARIABLES
  steps,     \* the run's steps: code review, independent acceptance tests, preview check
  run, feature,
  sess,      \* each role's session
  att,       \* each role's checkpoint: kind and number
  result,    \* what the worker says of the checkpointed attempt: commit and decision
  log,       \* the verification events, with what was verified
  tests,     \* the acceptance tests: the commit they are pinned to, their results, and the
             \* commit these are of
  branch,    \* the branch head, the approved and the merged commit
  checks,    \* the preview checks: of which commit, which attempt, and how they stand
  told,      \* the reported checks that are about to be acted on
  intent,    \* an update onto main was requested and not yet admitted
  pc,        \* each role's goroutine
  joinMu,    \* acceptanceJoinMu
  down, trouble, continues

vars == <<steps, run, feature, sess, att, result, log, tests, branch, checks, told, intent, pc, joinMu,
          down, trouble, continues>>
bounds == <<trouble, continues>>

Attempt(kind, n) == [kind |-> kind, n |-> n]
NoTurn == Attempt("planning", 1)
Kinds == {"planning", "implementation", "acceptance", "review", "correction", "readiness", "update"}
NoResult == [commit |-> 0, says |-> "none"]
Rest == [at |-> "idle", next |-> NoTurn]
Facts == {"none", "published", "nothing", "approved", "changes", "ready", "concern", "written"}

Init ==
  /\ steps \in {s \in [review : BOOLEAN, tests : BOOLEAN, preview : BOOLEAN] : s.tests => s.review}
  /\ run = [status |-> "running", kind |-> "none", paused |-> FALSE, from |-> "none", why |-> "none"]
  /\ feature = "implementing"
  /\ att = [lead |-> Attempt("implementation", 1),
            reviewer |-> IF steps.tests THEN Attempt("acceptance", 1) ELSE NoTurn]
  /\ sess = [lead |-> "running", reviewer |-> IF steps.tests THEN "running" ELSE "waiting"]
  /\ result = [r \in Roles |-> NoResult] /\ log = {}
  /\ tests = [commit |-> 0, status |-> "none", ran |-> 0]
  /\ branch = [head |-> 0, approved |-> 0, merged |-> 0]
  /\ checks = {} /\ told = {} /\ intent = FALSE
  /\ pc = [r \in Roles |-> IF sess[r] = "running" THEN [Rest EXCEPT !.at = "turn"] ELSE Rest]
  /\ joinMu = "none" /\ down = FALSE
  /\ trouble = 0 /\ continues = 0

----------------------------------------------------------------------------
(* Rows.                                                                   *)

Busy == \E r \in Roles : pc[r].at # "idle"
Moved(row, to, kind, why) == [TransitionRun([run |-> row, ivs |-> <<>>], to, kind).run EXCEPT !.why = why]
Waits(row, kind, why) == run' = IF row.status \in RunEnds THEN row ELSE Moved(row, "waiting", kind, why)
Runs(row) == run' = IF row.status = "running" THEN row ELSE Moved(row, "running", "none", "none")
waitRun(kind, why) == Waits(run, kind, why)
Done(r) == pc' = [pc EXCEPT ![r] = Rest]
Verified(kind, n, commit, says) == [kind |-> kind, n |-> n, commit |-> commit, says |-> says]
Is(r, kind) == att[r].kind = kind
Tip == branch.head

(* implementationReviewRoundLimitReached *)
RoundLimitReached(n) == n >= RoundLimit

(* stopAtPauseBoundary: at a boundary a paused run stops. *)
StopAtPauseBoundary(r) == waitRun("phase_checkpoint", "boundary") /\ Done(r)

(* What comes next is started by the goroutine of the turn that ended, as  *)
(* a chained turn of the role. *)
Next1(r, to, a) == /\ pc' = [pc EXCEPT ![r] = Rest, ![to] = [at |-> "admit", next |-> a]]
                   /\ UNCHANGED run

(* requireReview: what could not be verified waits for the user. *)
RequireReview(r) == waitRun("blocker", "refused") /\ Done(r)

Troubled == trouble < MaxTrouble /\ trouble' = trouble + 1

----------------------------------------------------------------------------
(* Turns.                                                                  *)

(* What an agent may return for the attempt it was given.  A review is of  *)
(* the commit that the branch is at. *)
Results(r) ==
  CASE att[r].kind \in {"implementation", "update"} ->
         {[commit |-> Tip + 1, says |-> "published"], [commit |-> 0, says |-> "nothing"]}
    [] att[r].kind = "correction" ->
         {[commit |-> Tip + 1, says |-> "published"], [commit |-> Tip, says |-> "published"]}
    [] att[r].kind = "readiness" -> {[commit |-> 0, says |-> s] : s \in {"ready", "concern"}}
    [] att[r].kind = "review"    -> {[commit |-> Tip, says |-> s] : s \in {"approved", "changes"}}
    [] OTHER                     -> {[commit |-> 0, says |-> "written"]}

(* The turn ends: pushed commits move the branch, and the reviewer has     *)
(* recorded the results of the acceptance tests, or left them as they were. *)
EndTurn(r, res, recorded) ==
  /\ pc[r].at = "turn" /\ ~down
  /\ res \in Results(r)
  /\ result' = [result EXCEPT ![r] = res]
  /\ sess' = [sess EXCEPT ![r] = "waiting"]
  /\ branch' = [branch EXCEPT !.head = IF res.commit > @ THEN res.commit ELSE @]
  /\ tests' = IF Is(r, "acceptance") THEN [commit |-> 0, status |-> "pending", ran |-> 0]
              ELSE IF Is(r, "review") /\ steps.tests /\ recorded # "pending"
              THEN [tests EXCEPT !.status = recorded, !.ran = res.commit] ELSE tests
  /\ (recorded # "passed" => Is(r, "review") /\ steps.tests)
  /\ pc' = [pc EXCEPT ![r].at = "verify"]
  /\ IF res.says = "nothing" \/ recorded = "pending" THEN Troubled ELSE UNCHANGED trouble
  /\ UNCHANGED <<steps, run, feature, att, log, checks, told, intent, joinMu, down, continues>>

(* Admission: BeginChainedTurnInState, or BeginAutonomousTurn for an       *)
(* update of a run that waits.  A pause that came in between refuses it. *)
MayAdmit(r, a) ==
  /\ ~run.paused /\ sess[r] = "waiting"
  /\ IF run.status = "running" THEN \A x \in Roles : sess[x] = "waiting"
     ELSE run.status = "waiting" /\ a.kind = "update"

(* Fault: the lock is kept when the review is refused. *)
UnlockedIfAdmitted(ok) == IF ok THEN "none" ELSE joinMu

Unlocked(ok) == "none"

Admit(r) ==
  /\ pc[r].at = "admit" /\ ~down
  /\ LET a == pc[r].next
     IN  /\ IF MayAdmit(r, a)
            THEN /\ att' = [att EXCEPT ![r] = a] /\ sess' = [sess EXCEPT ![r] = "running"]
                 /\ result' = [result EXCEPT ![r] = NoResult]
                 /\ pc' = [pc EXCEPT ![r] = [Rest EXCEPT !.at = "turn"]]
                 /\ intent' = IF a.kind = "update" THEN FALSE ELSE intent
                 /\ Runs(run)
            ELSE RequireReview(r) /\ UNCHANGED <<att, sess, result, intent>>
         /\ joinMu' = Unlocked(MayAdmit(r, a))
  /\ UNCHANGED <<steps, feature, log, tests, branch, checks, told, down, bounds>>

(* startImplementationReview: round n follows round n - 1; for a new       *)
(* commit the acceptance results start over. *)
MayReview(n) == /\ sess["reviewer"] = "waiting"
                /\ IF Is("reviewer", "review") THEN att["reviewer"].n = n - 1 ELSE n = 1
AlreadyReviewed(n) == Is("reviewer", "review") /\ att["reviewer"].n >= n

(* Fault: results of an earlier commit are kept. *)
PinnedAsTheyAre(n, commit) == IF steps.tests THEN [tests EXCEPT !.commit = commit] ELSE tests

Pinned(n, commit) == IF steps.tests /\ n > 1 /\ tests.commit # commit
                     THEN [commit |-> commit, status |-> "pending", ran |-> 0] ELSE tests

StartReview(r, n, commit) ==
  IF AlreadyReviewed(n) THEN Done(r) /\ UNCHANGED <<run, feature, tests>>
  ELSE IF ~MayReview(n) THEN RequireReview(r) /\ UNCHANGED <<feature, tests>>
  ELSE /\ tests' = Pinned(n, commit)
       /\ feature' = IF feature = "implementing" THEN "reviewing" ELSE feature
       /\ Next1(r, "reviewer", Attempt("review", n))

----------------------------------------------------------------------------
(* What is verified when a turn has ended.                                 *)

(* Request: the latest check of the commit, or a new one if there is none  *)
(* or it is overdue. *)
Check(c, n, status) == [commit |-> c, attempt |-> n, status |-> status]
Of(c) == {k \in checks : k.commit = c}
LatestCheck(c) == CHOOSE k \in Of(c) : \A x \in Of(c) : x.attempt <= k.attempt
CheckStatus(c) == IF Of(c) = {} THEN "none" ELSE LatestCheck(c).status
Requested(c) ==
  CASE CheckStatus(c) = "none" -> checks \cup {Check(c, 1, "pending")}
    [] CheckStatus(c) = "late" -> (checks \ {LatestCheck(c)}) \cup
                                    {[LatestCheck(c) EXCEPT !.status = "expired"],
                                     Check(c, LatestCheck(c).attempt + 1, "pending")}
    [] OTHER -> checks
Failures == Cardinality({k \in checks : k.status = "failed"})

(* RecordMergeReady and enterMergeGate, up to the wait at the gate, where  *)
(* a failed check of the commit is left to the user. *)
AtTheGate(row, c) ==
  \/ /\ steps.preview /\ CheckStatus(c) = "failed"
     /\ Waits(row, "blocker", "preview_failed") /\ UNCHANGED checks
  \/ /\ steps.preview /\ CheckStatus(c) \notin {"passed", "failed"}
     /\ Waits(row, "merge_gate", "preview") /\ checks' = Requested(c)
  \/ /\ steps.preview => CheckStatus(c) = "passed"
     /\ Waits(row, "merge_gate", "ready") /\ UNCHANGED checks

EnterMergeGate(r, commit) ==
  IF Tip # commit THEN RequireReview(r) /\ UNCHANGED <<feature, branch, checks>>
  ELSE /\ branch' = [branch EXCEPT !.approved = commit]
       /\ feature' = "ready_to_merge" /\ Done(r)
       /\ IF run.paused THEN waitRun("phase_checkpoint", "boundary") /\ UNCHANGED checks ELSE AtTheGate(run, commit)

(* tryStartAcceptanceReview: whoever of the two finishes last starts the   *)
(* review, once the lead's publication is verified. *)
TryStartAcceptanceReview(r) ==
  /\ joinMu = "none"
  /\ LET ready == /\ \A x \in Roles : sess[x] = "waiting"
                  /\ \E v \in log : v.kind = "implementation" /\ v.n = att["lead"].n
         commit == result["lead"].commit
     IN  IF ~ready THEN Done(r) /\ UNCHANGED <<run, feature, tests, joinMu>>
         ELSE IF ~(Is("lead", "implementation") /\ Is("reviewer", "acceptance"))
         THEN RequireReview(r) /\ UNCHANGED <<feature, tests, joinMu>>
         ELSE IF run.paused
         THEN StopAtPauseBoundary(r) /\ tests' = [tests EXCEPT !.commit = commit] /\ UNCHANGED <<feature, joinMu>>
         ELSE /\ tests' = [tests EXCEPT !.commit = commit] /\ feature' = "reviewing"
              /\ joinMu' = r /\ Next1(r, "reviewer", Attempt("review", 1))

(* The lead's first publication must be the branch head. *)
VerifyImplementation ==
  LET c == result["lead"].commit
  IN  IF result["lead"].says = "nothing" \/ c # Tip
      THEN RequireReview("lead") /\ UNCHANGED <<feature, tests, branch, checks, log, joinMu>>
      ELSE /\ log' = log \cup {Verified("implementation", att["lead"].n, c, "published")}
           /\ \/ ~steps.review /\ EnterMergeGate("lead", c) /\ UNCHANGED <<tests, joinMu>>
              \/ /\ steps.review /\ steps.tests /\ pc' = [pc EXCEPT !["lead"].at = "join"]
                 /\ UNCHANGED <<run, feature, tests, branch, checks, joinMu>>
              \/ /\ steps.review /\ ~steps.tests /\ run.paused /\ StopAtPauseBoundary("lead")
                 /\ UNCHANGED <<feature, tests, branch, checks, joinMu>>
              \/ /\ steps.review /\ ~steps.tests /\ ~run.paused /\ StartReview("lead", 1, c)
                 /\ UNCHANGED <<branch, checks, joinMu>>

(* The acceptance results belong to the reviewed commit, are complete, and *)
(* an approval has no failed one; the branch is still at that commit. *)
ReviewRefused(res) ==
  \/ steps.tests /\ (tests.commit # res.commit \/ tests.status = "pending")
  \/ steps.tests /\ tests.status = "failed" /\ res.says = "approved"
  \/ Tip # res.commit

(* The lead's answer to the review before this one, or its update to a     *)
(* base that moved: what a correction must follow. *)
AnsweredBefore(n) ==
  CASE att["lead"].kind \in {"correction", "readiness"} -> att["lead"].n
    [] Is("lead", "update")                              -> n - 1
    [] OTHER                                             -> 0
(* The lead answers a review once, and in the order of the reviews. *)
StartAnswer(n, kind) ==
  \/ AnsweredBefore(n) >= n /\ Done("reviewer") /\ UNCHANGED run
  \/ AnsweredBefore(n) = n - 1 /\ Next1("reviewer", "lead", Attempt(kind, n))
  \/ AnsweredBefore(n) < n - 1 /\ RequireReview("reviewer")

VerifyReview ==
  LET res == result["reviewer"]
      n == att["reviewer"].n
  IN  IF ReviewRefused(res) THEN RequireReview("reviewer") /\ UNCHANGED log
      ELSE /\ log' = log \cup {Verified("review", n, res.commit, res.says)}
           /\ \/ run.paused /\ StopAtPauseBoundary("reviewer")
              \/ ~run.paused /\ StartAnswer(n, IF res.says = "approved" THEN "readiness" ELSE "correction")

(* The answer to a review that asks for changes. *)
VerifyCorrection ==
  LET n == att["lead"].n
      c == result["lead"].commit
      review == result["reviewer"]
      follows == Is("reviewer", "review") /\ att["reviewer"].n = n /\ review.says = "changes" /\ c = Tip
  IN  IF ~follows THEN RequireReview("lead") /\ UNCHANGED <<log, feature, tests>>
      ELSE /\ log' = log \cup {Verified("correction", n, c, "published")}
           /\ \/ /\ RoundLimitReached(n) /\ waitRun("round_cap", "rounds") /\ Done("lead")
                 /\ UNCHANGED <<feature, tests>>
              \/ /\ ~RoundLimitReached(n) /\ run.paused /\ StopAtPauseBoundary("lead")
                 /\ tests' = Pinned(n + 1, c) /\ UNCHANGED feature
              \/ ~RoundLimitReached(n) /\ ~run.paused /\ StartReview("lead", n + 1, c)

(* The lead's acknowledgement goes with a verified approval of its round. *)
Acknowledges ==
  /\ Is("reviewer", "review") /\ att["reviewer"].n = att["lead"].n /\ result["reviewer"].says = "approved"
  /\ \E v \in log : v.kind = "review" /\ v.n = att["lead"].n

VerifyReadiness ==
  LET n == att["lead"].n
      c == result["reviewer"].commit
  IN  IF ~Acknowledges \/ c # Tip
      THEN RequireReview("lead") /\ UNCHANGED <<log, feature, tests, branch, checks>>
      ELSE /\ log' = log \cup {Verified("readiness", n, c, result["lead"].says)}
           /\ \/ result["lead"].says = "ready" /\ EnterMergeGate("lead", c) /\ UNCHANGED tests
              \/ /\ result["lead"].says = "concern" /\ RoundLimitReached(n)
                 /\ waitRun("round_cap", "rounds") /\ Done("lead") /\ UNCHANGED <<feature, tests, branch, checks>>
              \/ /\ result["lead"].says = "concern" /\ ~RoundLimitReached(n) /\ run.paused
                 /\ StopAtPauseBoundary("lead") /\ UNCHANGED <<feature, tests, branch, checks>>
              \/ /\ result["lead"].says = "concern" /\ ~RoundLimitReached(n) /\ ~run.paused
                 /\ StartReview("lead", n + 1, c) /\ UNCHANGED <<branch, checks>>

(* ClearMergeReady: what was approved is not what will be merged. *)
Released(c) == [branch EXCEPT !.approved = IF @ = c THEN @ ELSE 0]

VerifyBaseUpdate ==
  LET c == result["lead"].commit
  IN  IF result["lead"].says = "nothing" \/ c # Tip
      THEN RequireReview("lead") /\ UNCHANGED <<log, feature, tests, branch, checks>>
      ELSE /\ log' = log \cup {Verified("update", att["lead"].n, c, "published")}
           /\ \/ ~steps.review /\ EnterMergeGate("lead", c) /\ UNCHANGED tests
              \/ /\ steps.review /\ run.paused /\ StopAtPauseBoundary("lead") /\ branch' = Released(c)
                 /\ tests' = Pinned(2, c) /\ UNCHANGED <<feature, checks>>
              \/ /\ steps.review /\ ~run.paused /\ branch' = Released(c) /\ UNCHANGED checks
                 /\ StartReview("lead", att["reviewer"].n + 1, c)

Verify(r) ==
  /\ pc[r].at = "verify" /\ ~down
  /\ CASE Is(r, "implementation") -> VerifyImplementation
       [] Is(r, "acceptance")     -> /\ pc' = [pc EXCEPT ![r].at = "join"]
                                     /\ UNCHANGED <<run, feature, tests, branch, checks, log, joinMu>>
       [] Is(r, "review")         -> VerifyReview /\ UNCHANGED <<feature, tests, branch, checks, joinMu>>
       [] Is(r, "correction")     -> VerifyCorrection /\ UNCHANGED <<branch, checks, joinMu>>
       [] Is(r, "readiness")      -> VerifyReadiness /\ UNCHANGED joinMu
       [] OTHER                   -> VerifyBaseUpdate /\ UNCHANGED joinMu
  /\ UNCHANGED <<steps, sess, att, result, told, intent, down, bounds>>

Join(r) ==
  /\ pc[r].at = "join" /\ ~down
  /\ TryStartAcceptanceReview(r)
  /\ UNCHANGED <<steps, sess, att, result, log, branch, checks, told, intent, down, bounds>>

(* Forgejo or the worker refuses what is verified for another reason. *)
Refuse(r) ==
  /\ pc[r].at = "verify" /\ ~down
  /\ Troubled /\ RequireReview(r)
  /\ UNCHANGED <<steps, feature, sess, att, result, log, tests, branch, checks, told, intent, joinMu, down, continues>>

----------------------------------------------------------------------------
(* At the gate: the preview check, updates onto main, the merge.           *)

AtGate == run.status = "waiting" /\ run.kind = "merge_gate" /\ ~run.paused

(* Fault: the successor of a review is the next round. *)
AgainInANewRound(a) == [a EXCEPT !.n = @ + 1]

(* The attempt that takes over from a refused or failed one. *)
Again(a) == IF a.kind \in {"implementation", "acceptance", "update"} THEN [a EXCEPT !.n = @ + 1] ELSE a

Answer(r) == /\ pc' = [pc EXCEPT ![r] = [at |-> "admit", next |-> Again(att[r])]]
             /\ UNCHANGED <<feature, branch, checks>>

(* previewCheckFailed: the lead fixes what the check found, if it is the   *)
(* implementation that was checked and not too many fixes were tried. *)
MayFix(chosen) == (Failures <= MaxFixes \/ chosen) /\ Is("lead", "implementation")

PreviewCheckFailed(row, chosen) ==
  IF ~MayFix(chosen) THEN Waits(row, "blocker", "preview_failed") /\ UNCHANGED <<pc, feature, branch>>
  ELSE /\ branch' = [branch EXCEPT !.approved = 0] /\ feature' = "implementing"
       /\ Runs(row)
       /\ pc' = [pc EXCEPT !["lead"] = [at |-> "admit", next |-> Again(att["lead"])]]

(* The desktop app reports a check it ran; a repeated report changes no    *)
(* row and is acted on again. *)
CompleteCheck(k, status) ==
  /\ ~down /\ k.status \in {"pending", "late", status}
  /\ LET done == [k EXCEPT !.status = status]
     IN  /\ checks' = (checks \ {k}) \cup {done} /\ done \notin told /\ told' = told \cup {done}
  /\ UNCHANGED <<steps, run, feature, sess, att, result, log, tests, branch, intent, pc, joinMu, down, bounds>>

(* waitsOnPreviewCheck and the conditions of continueAfterPreviewCheck. *)
WaitsOnPreviewCheck(k) ==
  /\ run.status = "waiting" /\ ~run.paused /\ run.why \in {"preview", "no_desktop"}
  /\ feature = "ready_to_merge" /\ branch.approved = k.commit /\ branch.merged = 0

(* recoverIdleReadyToMergeRun: the gate again, where a failed check of the *)
(* commit goes to the lead. *)
RecoverAtGate(row, chosen) ==
  /\ ~intent /\ feature = "ready_to_merge"
  /\ IF steps.preview /\ CheckStatus(branch.approved) = "failed"
     THEN PreviewCheckFailed(row, chosen) /\ UNCHANGED checks
     ELSE AtTheGate(row, branch.approved) /\ UNCHANGED <<pc, feature, branch>>

PreviewCheckCompleted(k) ==
  /\ k \in told /\ ~down /\ told' = told \ {k}
  /\ IF WaitsOnPreviewCheck(k) THEN RecoverAtGate(run, FALSE) ELSE UNCHANGED <<run, pc, feature, branch, checks>>
  /\ UNCHANGED <<steps, sess, att, result, log, tests, intent, joinMu, down, bounds>>

(* BlockOverduePreviewChecks: no app took the check, or it did not finish. *)
BlockOverdueCheck(k) ==
  /\ ~down /\ k.status = "pending" /\ run.status = "waiting" /\ run.kind = "merge_gate" /\ run.why = "preview"
  /\ LatestCheck(k.commit) = k
  /\ checks' = (checks \ {k}) \cup {[k EXCEPT !.status = "late"]} /\ waitRun("blocker", "no_desktop")
  /\ UNCHANGED <<steps, feature, sess, att, result, log, tests, branch, told, intent, pc, joinMu, down, bounds>>

Updates == Cardinality({v \in log : v.kind = "update"}) + (IF Is("lead", "update") THEN 1 ELSE 0)
NextUpdate == LET tried == {v.n : v \in {x \in log : x.kind = "update"}}
                             \cup (IF Is("lead", "update") THEN {att["lead"].n} ELSE {0})
              IN  CHOOSE n \in {m + 1 : m \in tried} : \A m \in tried : m < n

MayUpdate == /\ ~run.paused /\ run.status \notin RunEnds /\ sess["lead"] = "waiting"
             /\ branch.approved # 0 /\ branch.merged = 0

(* beginBaseUpdate: main has moved past what was approved. *)
StartBaseUpdate ==
  /\ ~down /\ ~Busy /\ AtGate /\ run.why = "ready" /\ feature = "ready_to_merge" /\ MayUpdate
  /\ Updates < MaxUpdates
  /\ intent' = TRUE /\ feature' = IF steps.review THEN "reviewing" ELSE "implementing"
  /\ pc' = [pc EXCEPT !["lead"] = [at |-> "admit", next |-> Attempt("update", NextUpdate)]]
  /\ UNCHANGED <<steps, run, sess, att, result, log, tests, branch, checks, told, joinMu, down, bounds>>

(* merge and MergeApproved, as far as one order is concerned. *)
MayMerge == /\ branch.approved # 0 /\ Tip = branch.approved
            /\ steps.preview => CheckStatus(branch.approved) = "passed"

Merge ==
  /\ ~down /\ feature = "ready_to_merge" /\ AtGate /\ MayMerge
  /\ branch' = [branch EXCEPT !.merged = branch.head] /\ feature' = "completed"
  /\ run' = Moved(run, "succeeded", "none", "none")
  /\ UNCHANGED <<steps, sess, att, result, log, tests, checks, told, intent, pc, joinMu, down, bounds>>

----------------------------------------------------------------------------
(* Pauses, Continue, restarts, and somebody else's pushes.                 *)

(* Whose result is looked at again (recoverIdleReviewingRun). *)
Speaker ==
  LET answering == att["lead"].kind \in {"correction", "readiness"}
  IN  IF feature = "implementing" THEN "lead"
      ELSE IF Is("lead", "update") /\ result["reviewer"].commit # result["lead"].commit THEN "lead"
      ELSE IF Is("reviewer", "review") /\ (~answering \/ att["reviewer"].n > att["lead"].n) THEN "reviewer"
      ELSE "lead"

(* recoverWithDirective, for a run none of whose sessions is at work.  An  *)
(* answered blocker (chosen) may give the agent another turn. *)
RecoverIdle(chosen) ==
  \/ /\ intent /\ feature # "completed" /\ UNCHANGED <<feature, branch, checks>>
     /\ pc' = [pc EXCEPT !["lead"] = [at |-> "admit", next |-> Attempt("update", NextUpdate)]]
  \/ /\ ~intent /\ feature \in {"implementing", "reviewing"}
     /\ \/ pc' = [pc EXCEPT ![Speaker] = [Rest EXCEPT !.at = "verify"]] /\ UNCHANGED <<feature, branch, checks>>
        \/ chosen /\ Answer(Speaker)

Resting == \A r \in Roles : sess[r] # "running"
Reattached == [r \in Roles |-> IF sess[r] = "running" THEN [Rest EXCEPT !.at = "turn"] ELSE pc[r]]

(* Recovery of a run that waits or runs again, once its row is as given. *)
Recover(row, chosen) ==
  \/ ~Resting /\ run' = row /\ pc' = Reattached /\ UNCHANGED <<feature, branch, checks>>
  \/ Resting /\ RecoverIdle(chosen) /\ run' = row
  \/ Resting /\ RecoverAtGate(row, chosen)

Pause ==
  /\ ~down /\ Troubled /\ ~run.paused /\ run.status \notin RunEnds
  /\ run' = Paused(run)
  /\ UNCHANGED <<steps, feature, sess, att, result, log, tests, branch, checks, told, intent, pc, joinMu, down,
                 continues>>

(* The wait is restored.  A phase checkpoint goes on by itself; the run    *)
(* waits still while it does, so that the next turn is refused. *)
Resume ==
  /\ ~down /\ run.paused
  /\ LET row == Unpaused(run)
     IN  IF row.status = "waiting" /\ row.kind = "phase_checkpoint" /\ ~Busy
         THEN Recover(row, FALSE)
         ELSE run' = row /\ UNCHANGED <<pc, feature, branch, checks>>
  /\ UNCHANGED <<steps, sess, att, result, log, tests, told, intent, joinMu, down, bounds>>

(* The user answers a blocker. *)
Continue ==
  /\ ~down /\ ~Busy /\ continues < MaxContinues
  /\ run.status = "waiting" /\ run.kind = "blocker" /\ ~run.paused
  /\ continues' = continues + 1 /\ Recover(Moved(run, "running", "none", "none"), TRUE)
  /\ UNCHANGED <<steps, sess, att, result, log, tests, told, intent, joinMu, down, trouble>>

(* External: somebody pushes to the work order's branch. *)
Push ==
  /\ Troubled /\ branch.merged = 0 /\ branch' = [branch EXCEPT !.head = @ + 1]
  /\ UNCHANGED <<steps, run, feature, sess, att, result, log, tests, checks, told, intent, pc, joinMu, down,
                 continues>>

(* The goroutines and the lock are gone; the worker's turns go on. *)
Crash ==
  /\ ~down /\ Troubled /\ run.status \notin RunEnds
  /\ down' = TRUE /\ told' = {} /\ joinMu' = "none" /\ pc' = [r \in Roles |-> Rest]
  /\ UNCHANGED <<steps, run, feature, sess, att, result, log, tests, branch, checks, intent, continues>>

Lost == run.status = "running" \/ ~Resting \/ (run.kind = "phase_checkpoint" /\ ~run.paused)

(* RecoverAll: two sessions at work contradict each other, and block a     *)
(* running run; a paused run stays at its boundary. *)
Restart ==
  /\ down /\ down' = FALSE
  /\ IF ~Lost THEN UNCHANGED <<run, pc, feature, branch, checks>>
     ELSE IF \A r \in Roles : sess[r] = "running"
     THEN /\ run' = IF run.status = "running" THEN Moved(run, "waiting", "blocker", "refused") ELSE run
          /\ UNCHANGED <<pc, feature, branch, checks>>
     ELSE IF Resting /\ run.paused
     THEN waitRun("phase_checkpoint", "boundary") /\ UNCHANGED <<pc, feature, branch, checks>>
     ELSE Recover(run, FALSE)
  /\ UNCHANGED <<steps, sess, att, result, log, tests, told, intent, joinMu, bounds>>

Recorded == {"passed", "failed", "pending"}
TurnEnds(r) == \E res \in Results(r), recorded \in Recorded : EndTurn(r, res, recorded)

Next ==
  \/ \E r \in Roles : TurnEnds(r) \/ Admit(r) \/ Verify(r) \/ Join(r) \/ Refuse(r)
  \/ \E k \in checks : (\E s \in {"passed", "failed"} : CompleteCheck(k, s)) \/ BlockOverdueCheck(k)
  \/ \E k \in told : PreviewCheckCompleted(k)
  \/ StartBaseUpdate \/ Merge
  \/ Pause \/ Resume \/ Continue \/ Push \/ Crash \/ Restart

Spec == Init /\ [][Next]_vars

(* A worker ends every turn, and a goroutine takes its next step.  Nothing *)
(* is assumed of users, of the desktop app, or of a restart. *)
Fairness ==
  /\ \A r \in Roles : WF_vars(TurnEnds(r)) /\ WF_vars(Admit(r)) /\ WF_vars(Verify(r)) /\ WF_vars(Join(r))
  /\ WF_vars(\E k \in told : PreviewCheckCompleted(k))
FairSpec == Spec /\ Fairness

----------------------------------------------------------------------------
(* Properties.                                                             *)

(* Every row has one of its values. *)
TypeOK ==
  /\ run.status \in RunStatuses /\ run.kind \in WaitKinds \cup {"none", "paused"}
  /\ run.paused <=> run.kind = "paused"
  /\ feature \in {"implementing", "reviewing", "ready_to_merge", "completed"}
  /\ \A r \in Roles : /\ sess[r] \in {"running", "waiting"} /\ att[r].kind \in Kinds /\ att[r].n \in Nat \ {0}
                       /\ result[r].commit \in Nat /\ result[r].says \in Facts
                       /\ pc[r].at \in {"idle", "turn", "verify", "join", "admit"}
  /\ tests.commit \in Nat /\ tests.status \in Recorded \cup {"none"}
  /\ branch.head \in Nat /\ branch.approved \in Nat /\ branch.merged \in Nat
  /\ joinMu \in Roles \cup {"none"}

(* What is ready to merge was approved, by a review whose acceptance       *)
(* results are of that very commit and passed, and acknowledged by the     *)
(* lead; without a review it is a verified publication. *)
ApprovedWasReviewed ==
  branch.approved # 0 =>
    IF steps.review
    THEN /\ \E v \in log : /\ v = Verified("review", v.n, branch.approved, "approved")
                          /\ Verified("readiness", v.n, branch.approved, "ready") \in log
         /\ steps.tests => tests = [commit |-> branch.approved, status |-> "passed", ran |-> branch.approved]
    ELSE \E v \in log : v.kind \in {"implementation", "update"} /\ v.commit = branch.approved

(* What is merged is what was approved, and the desktop app saw it pass. *)
MergedIsApproved ==
  branch.merged # 0 => /\ branch.merged = branch.approved
                       /\ steps.preview => CheckStatus(branch.merged) = "passed"

(* The review rounds of a run follow one another, up to the limit: the     *)
(* lead answered every earlier round, or main was taken in. *)
RoundsFollow ==
  \A v \in log : (v.kind = "review" /\ v.n > 1) =>
    \E w \in log : \/ w.kind \in {"correction", "readiness"} /\ w.n = v.n - 1 /\ v.n <= RoundLimit
                   \/ w.kind = "update"

(* A restart found the lead done and not yet verified, and waited for the  *)
(* reviewer alone: its end starts nothing (tryStartAcceptanceReview).      *)
Forgotten ==
  /\ steps.tests /\ feature = "implementing" /\ Resting /\ Is("reviewer", "acceptance")
  /\ ~\E v \in log : v.kind = "implementation" /\ v.n = att["lead"].n

(* A running run has somebody at work on it, so that it does not hang: but *)
(* for the one a restart forgot. *)
RunningIsOwned == (run.status = "running" /\ ~down) => Busy \/ Forgotten

(* The lead gets MaxFixes turns to fix what the app finds, and one more    *)
(* for each time the user says so: the two do not go on with each other.   *)
FixesAreLimited == Failures <= MaxFixes + 1 + continues

(* Only what was approved and seen to pass is merged, and rounds, turns    *)
(* and checks agree at every moment. *)
RoundsAreSound == TypeOK /\ MergedIsApproved /\ RoundsFollow /\ RunningIsOwned /\ FixesAreLimited

(* A run at work comes to a stop: it waits for somebody, or has merged. *)
RoundsEnd == run.status = "running" ~> (run.status # "running" \/ down \/ Forgotten)

=============================================================================
