---------------------------- MODULE RunLifecycle ----------------------------
(***************************************************************************)
(* A run of a work order while it plans, with the user's hands on it: the  *)
(* turns of the lead and the reviewer, pause and resume, interventions,    *)
(* replanning, Continue, and restarts of the coordinator                   *)
(* (orchestration/remote_lead.go on the rows of RunLedger).                *)
(*                                                                         *)
(* A step is what happens between two reads of the database that another   *)
(* actor can get in between.  The claim of the run is held while live is   *)
(* not idle; who may hold it at once is RunClaim's subject.  What happens  *)
(* after the first implementation turn is ReviewRounds'.                   *)
(***************************************************************************)
EXTENDS RunLedger

CONSTANTS
  PauseKeys,    \* idempotency keys of pause requests
  ResumeKeys,   \* idempotency keys of resume requests
  Guidance,     \* the interventions users may send
  Replies,      \* the messages users may send to the implementing lead
  Autonomous,   \* autonomy policy run_to_completion
  RoundLimit,   \* the run's planning round limit
  MaxMessages,  \* by its message of this number the lead submits a plan
  MaxReturns,   \* how often the reviewer sends a plan back
  MaxFaults     \* how many turns end badly and restarts come, together

\* CreateRun takes the limit of the planning rounds; 0 is no limit.
ASSUME LimitAssumption == RoundLimit \in Nat

VARIABLES
  db,        \* the rows of the run; plan has the planning messages of its version,
             \* work each role's last attempt that was no intervention
  outcome,   \* what the worker says of each role's checkpointed attempt
  known,     \* and of the approval attempts it has seen the end of
  live,      \* the goroutine that holds the run: where it is, for which role and attempt
  calls,     \* advanceWaitingRun calls on their way, by who makes them
  resuming,  \* what each resume request has read
  checking,  \* a Continue has taken the run up and not yet recovered it
  down,      \* the coordinator is restarting
  overrun,   \* a resume acted on what it read before an intervention came
  refused,   \* a start that held the run was refused at its admission
  failures, crashes

vars == <<db, outcome, known, live, calls, resuming, checking, down, overrun, refused, failures, crashes>>
others == <<known, calls, resuming, checking, down, overrun, refused, failures, crashes>>

Outcomes == {"none", "live", "completed", "changes", "failed", "stopped", "lost"}
Places == {"idle", "turn", "reattach", "chain", "publish", "implement", "replan", "release"}
Idle == [pc |-> "idle", role |-> "lead", next |-> NoAttempt, key |-> "none"]
At(pc, r, a) == [pc |-> pc, role |-> r, next |-> a, key |-> "none"]
NoPlan == [msgs |-> 0, submitted |-> FALSE, published |-> FALSE, subs |-> 0]
Claimed == live.pc # "idle"

Init ==
  /\ db = [CreateSession(CreateRun([feature |-> "planning", ivs |-> <<>>, acts |-> {}, cmds |-> {},
                                    revs |-> {}, plan |-> NoPlan, run |-> <<>>,
                                    att |-> [r \in Roles |-> NoAttempt],
                                    work |-> [r \in Roles |-> NoAttempt],
                                    sess |-> [r \in Roles |-> [status |-> "absent", provider |-> FALSE]]],
                                   RoundLimit), "lead")
           EXCEPT !.att["lead"] = [kind |-> "planning", v |-> 1, n |-> 1, t |-> 0],
                  !.work["lead"] = [kind |-> "planning", v |-> 1, n |-> 1, t |-> 0]]
  /\ outcome = [r \in Roles |-> IF r = "lead" THEN "live" ELSE "none"]
  /\ live = At("turn", "lead", NoAttempt) /\ known = {}
  /\ calls = {} /\ resuming = [k \in ResumeKeys |-> "idle"] /\ checking = FALSE /\ down = FALSE
  /\ overrun = FALSE /\ refused = FALSE /\ failures = 0 /\ crashes = 0

----------------------------------------------------------------------------
(* Attempts and messages.                                                  *)

Attempt(kind, v, n) == [kind |-> kind, v |-> v, n |-> n, t |-> 0]
LeadMessages(d) == (d.plan.msgs + 1) \div 2
ReviewerMessages(d) == d.plan.msgs \div 2
LastIsLead(d) == d.plan.msgs % 2 = 1
planningRoundLimitReached(d) == d.run.limit > 0 /\ d.plan.msgs \div 2 >= d.run.limit
isPlanningTurn(a, v, n) == a.kind = "planning" /\ a.v = v /\ a.n = n

planningStageForAttempt(r, a) ==
  CASE a.kind = "approval"                                 -> "approval"
    [] a.kind = "planning" /\ r = "lead" /\ a.n = 1        -> "proposal"
    [] a.kind = "planning" /\ r = "reviewer" /\ a.n = 1    -> "first_review"
    [] a.kind = "planning" /\ r = "lead" /\ a.n > 1        -> "lead_response"
    [] a.kind = "planning" /\ r = "reviewer" /\ a.n > 1    -> "reviewer_response"
    [] OTHER                                               -> "none"

(* The attempt that takes over a failed one; an intervention has none. *)
HasSuccessor(a) == a.kind \in {"planning", "approval", "implementation"}
recoverySuccessorAttemptID(a) == IF a.kind = "planning" THEN [a EXCEPT !.t = @ + 1]
                                 ELSE [a EXCEPT !.n = @ + 1]

(* LinkPlanningMessage: a turn's message joins the discussion once. *)
LinkPlanningMessage(d, r, submits) ==
  LET a == d.att[r]
      place == IF r = "lead" THEN 2 * a.n - 1 ELSE 2 * a.n
  IN  IF place <= d.plan.msgs THEN d
      ELSE [d EXCEPT !.plan = [d.plan EXCEPT !.msgs = place, !.submitted = submits,
                                             !.published = FALSE,
                                             !.subs = IF submits THEN @ + 1 ELSE @]]

waitRun(d, kind) == IF d.run.status \in RunEnds THEN d ELSE TransitionRun(d, "waiting", kind)

Settled(d, r) == d.sess[r].status = "waiting" /\ d.sess[r].provider
Completed(r) == outcome[r] \in {"completed", "changes"}

(* What a step of a goroutine or a handler comes to: the rows, where the   *)
(* goroutine is, and whether it failed. *)
Res(d, l, err) == [d |-> d, l |-> l, err |-> err]
Begun(d, r, a) == Res(BeginAutonomousTurn(d, r, a), At("turn", r, NoAttempt), FALSE)

----------------------------------------------------------------------------
(* What follows a turn.                                                    *)

(* The reviewer or the lead speaks next, unless the run is paused or the   *)
(* rounds are used up. *)
NextSpeaker(d) ==
  IF d.run.paused THEN Res(waitRun(d, "phase_checkpoint"), At("release", "lead", NoAttempt), FALSE)
  ELSE IF planningRoundLimitReached(d)
  THEN Res(waitRun(d, "round_cap"), At("release", "lead", NoAttempt), FALSE)
  ELSE IF LastIsLead(d)
  THEN Res(d, At("chain", "reviewer", Attempt("planning", d.run.version, ReviewerMessages(d) + 1)), FALSE)
  ELSE Res(d, At("chain", "lead", Attempt("planning", d.run.version, LeadMessages(d) + 1)), FALSE)

(* Fault: whatever the reviewer decided publishes the plan. *)
PublishWhateverDecided(d) ==
  LET asked == d.att["reviewer"].kind = "approval" /\ d.att["reviewer"].n = d.plan.subs
      away == At("release", "lead", NoAttempt)
  IN  CASE d.plan.published \/ (asked /\ outcome["reviewer"] \in {"completed", "changes"}) ->
             Res(waitRun([d EXCEPT !.plan.published = TRUE], "phase_checkpoint"), away, FALSE)
        [] ~d.plan.published /\ ~asked ->
             Res(d, At("chain", "reviewer", Attempt("approval", d.run.version, d.plan.subs)), FALSE)
        [] OTHER -> Res(waitRun(d, "blocker"), away, TRUE)

(* continueSubmittedPlan: a plan is published once the reviewer approved   *)
(* it, and goes back to the lead when the reviewer asks for changes. *)
ContinueSubmittedPlan(d) ==
  LET approval == Attempt("approval", d.run.version, d.plan.subs)
      asked == d.att["reviewer"].kind = "approval" /\ d.att["reviewer"].v = d.run.version
                 /\ d.att["reviewer"].n = d.plan.subs
      published == [d EXCEPT !.plan.published = TRUE]
      returned == [d EXCEPT !.plan = [d.plan EXCEPT !.msgs = @ + 1, !.submitted = FALSE]]
      away == At("release", "lead", NoAttempt)
  IN  CASE d.plan.published -> Res(waitRun(d, "phase_checkpoint"), away, FALSE)
        [] ~d.plan.published /\ asked /\ outcome["reviewer"] = "completed" ->
             Res(waitRun(published, "phase_checkpoint"), away, FALSE)
        [] ~d.plan.published /\ asked /\ outcome["reviewer"] = "changes" -> NextSpeaker(returned)
        [] ~d.plan.published /\ ~asked /\ d.run.paused ->
             Res(waitRun(d, "phase_checkpoint"), away, FALSE)
        [] ~d.plan.published /\ ~asked /\ ~d.run.paused /\ Settled(d, "reviewer") ->
             Res(d, At("chain", "reviewer", approval), FALSE)
        [] OTHER -> Res(waitRun(d, "blocker"), away, TRUE)

(* finish, for a completed turn: the session rests, the message is linked, *)
(* and the turn's stage says what follows. *)
Finished(d0, r, submits) ==
  LET stage == planningStageForAttempt(r, d0.att[r])
      linked == IF stage \in {"none", "approval"} THEN d0 ELSE LinkPlanningMessage(d0, r, submits)
      d == TransitionSession(linked, r, "waiting")
      away == At("release", r, NoAttempt)
  IN  CASE stage = "approval" \/ (stage = "lead_response" /\ d.plan.submitted) -> ContinueSubmittedPlan(d)
        [] stage = "lead_response" /\ ~d.plan.submitted -> NextSpeaker(d)
        [] stage = "reviewer_response" -> NextSpeaker(d)
        [] OTHER -> Res(waitRun(d, "phase_checkpoint"), away, FALSE)

(* requireReview: a turn nobody can account for blocks the run. *)
RequireReview(d, r) ==
  waitRun(IF d.sess[r].status = "running" THEN WithStatus(d, r, "pause_requested") ELSE d, "blocker")

(* pauseFailedTurn: a failed turn is kept, to be tried again. *)
PauseFailedTurn(d, r) ==
  waitRun(IF d.sess[r].status = "starting"
          THEN [d EXCEPT !.sess[r] = [status |-> "pause_requested", provider |-> TRUE]]
          ELSE IF d.sess[r].status = "running" THEN WithStatus(d, r, "pause_requested")
          ELSE d, "blocker")

----------------------------------------------------------------------------
(* Starting turns.                                                         *)

Refused(d) == Res(d, live, TRUE)
Nothing(d) == Res(d, live, FALSE)

(* advanceIntervention: the queued one is delivered when the run rests. *)
Deliverable(d) ==
  HasLatest(d) /\ d.ivs[Latest(d)].status = "queued" /\ AtRestPaused(d)
AdvanceIntervention(d) ==
  LET i == Latest(d)
      a == Attempt("intervention", d.run.version, i)
  IN  IF Claimed THEN Nothing(d)
      ELSE IF MayBeginInterventionTurn(d, i)
      THEN Res(BeginInterventionTurn(d, i, a), At("turn", d.ivs[i].target, NoAttempt), FALSE)
      ELSE Refused(d)

(* A turn of a conversation at rest, by a handler that takes the claim. *)
StartTurn(d, r, a) ==
  IF ~Claimed /\ MayBeginAutonomousTurn(d, r, d.att[r], "planning", FALSE, FALSE)
  THEN Begun(d, r, a) ELSE Refused(d)

StartFirstReview(d) ==
  LET a == Attempt("planning", 1, 1) IN
  IF d.sess["reviewer"].status # "absent"
  THEN IF isPlanningTurn(d.att["reviewer"], 1, 1) THEN Nothing(d) ELSE Refused(d)
  ELSE IF /\ d.sess["lead"].status = "waiting" /\ isPlanningTurn(d.att["lead"], 1, 1) /\ Completed("lead")
          /\ ~Claimed /\ MayBeginNewSessionTurn(d, "reviewer")
       THEN Res(BeginNewSessionTurn(d, "reviewer", a), At("turn", "reviewer", NoAttempt), FALSE)
       ELSE Refused(d)

StartReplanningReview(d) ==
  LET v == d.run.version IN
  IF ~(/\ d.plan.msgs >= 1 /\ Settled(d, "lead") /\ isPlanningTurn(d.att["lead"], v, 1) /\ Completed("lead"))
  THEN Refused(d)
  ELSE IF isPlanningTurn(d.att["reviewer"], v, 1) THEN Nothing(d)
  ELSE IF d.plan.msgs = 1 /\ d.run.status = "waiting" /\ Settled(d, "reviewer") /\ Completed("reviewer")
  THEN StartTurn(d, "reviewer", Attempt("planning", v, 1))
  ELSE Refused(d)

StartPlanningReview(d) ==
  IF d.run.paused \/ d.feature # "planning" THEN Refused(d)
  ELSE IF d.run.version > 1 THEN StartReplanningReview(d)
  ELSE StartFirstReview(d)

(* StartPlanningRound: at the round cap, another round is granted once per *)
(* key; an unpublished plan goes on to its publication. *)
StartPlanningRound(d, key) ==
  LET capped == d.plan.msgs > 0 /\ planningRoundLimitReached(d) /\ ~d.plan.submitted
      granted == IF capped THEN ExtendPlanningRoundLimit(d, key) ELSE d
      next == IF LastIsLead(d) THEN "reviewer" ELSE "lead"
      turn == IF LastIsLead(d) THEN ReviewerMessages(d) + 1 ELSE LeadMessages(d) + 1
  IN  CASE d.run.paused \/ d.feature # "planning" -> Refused(d)
        [] ~d.run.paused /\ d.feature = "planning" /\ d.run.status = "running" -> Nothing(d)
        [] OTHER ->
           IF d.run.status # "waiting" \/ \E r \in Roles : ~Settled(d, r) THEN Refused(d)
           ELSE IF capped /\ d.run.kind # "round_cap" THEN Res(waitRun(d, "round_cap"), live, FALSE)
           ELSE IF capped /\ (Claimed \/ ~MayExtendRounds(d, key, d.run.limit)) THEN Nothing(d)
           ELSE IF d.plan.submitted
           THEN IF d.plan.published THEN Nothing(d)
                ELSE IF Claimed THEN Refused(d)
                ELSE Res(TransitionRun(d, "running", "none"), At("publish", "lead", NoAttempt), FALSE)
           ELSE IF d.plan.msgs < 2 \/ (LastIsLead(d) /\ d.plan.msgs < 3) THEN Refused(granted)
           ELSE IF Completed(next) THEN StartTurn(granted, next, Attempt("planning", d.run.version, turn))
           ELSE Refused(granted)

(* StartImplementation, up to the feature's move.  The published plan is   *)
(* confirmed on a branch no implementation turn has touched. *)
StartImplementation(d) ==
  LET first == Attempt("implementation", d.run.version, 1)
      untouched == d.work["lead"].kind = "planning"
  IN
  IF d.run.paused \/ ~(d.plan.submitted /\ d.plan.published) THEN Refused(d)
  ELSE IF d.att["lead"] = first THEN Nothing(d)
  ELSE IF untouched /\ ~Claimed /\ d.run.status = "waiting" /\ Settled(d, "lead") /\ Settled(d, "reviewer") /\ Completed("lead")
  THEN Res([d EXCEPT !.feature = "implementing"],
           At("implement", "lead", first), FALSE)
  ELSE Refused(d)

(* recoverIdlePlanningRun. *)
RecoverIdlePlanning(d) ==
  LET v == d.run.version
      checkpoint == waitRun(d, "phase_checkpoint")
      next == IF LastIsLead(d) THEN "reviewer" ELSE "lead"
      turn == IF LastIsLead(d) THEN ReviewerMessages(d) + 1 ELSE LeadMessages(d) + 1
  IN  IF ~(Settled(d, "lead") /\ Settled(d, "reviewer")) THEN Refused(d)
      ELSE IF d.plan.msgs < 2
      THEN IF v > 1 /\ d.plan.msgs = 1
           THEN IF Autonomous /\ ~d.run.paused THEN StartPlanningReview(checkpoint) ELSE Nothing(checkpoint)
           ELSE Refused(d)
      ELSE IF d.plan.submitted
      THEN IF Claimed THEN Refused(d) ELSE Res(d, At("publish", "lead", NoAttempt), FALSE)
      ELSE IF planningRoundLimitReached(d) THEN Nothing(waitRun(d, "round_cap"))
      ELSE IF d.plan.msgs = 2
      THEN IF Autonomous /\ ~d.run.paused THEN StartPlanningRound(checkpoint, "recovery") ELSE Nothing(checkpoint)
      ELSE IF ~Claimed /\ MayBeginAutonomousTurn(d, next, d.att[next], "planning", TRUE, FALSE)
      THEN Begun(d, next, Attempt("planning", v, turn))
      ELSE Refused(d)

(* advanceWaitingRun. *)
AdvanceWaitingRun(d) ==
  IF Deliverable(d) THEN AdvanceIntervention(d)
  ELSE IF d.run.paused \/ d.run.status # "waiting" \/ d.run.kind # "phase_checkpoint" \/ ~Autonomous
  THEN Nothing(d)
  ELSE IF d.feature # "planning" THEN IF d.work["lead"].kind = "implementation" THEN Nothing(d) ELSE Refused(d)
  ELSE IF d.plan.msgs = 0 THEN Refused(d)
  ELSE IF d.plan.submitted /\ d.plan.published THEN StartImplementation(d)
  ELSE IF d.sess["reviewer"].status = "absent" THEN StartPlanningReview(d)
  ELSE IF d.plan.msgs >= 2 /\ ~d.plan.submitted THEN StartPlanningRound(d, "autonomy")
  ELSE RecoverIdlePlanning(d)

(* recoverWithDirective: one active session is reattached to. *)
RecoverActive(d, r) ==
  LET a == d.att[r]
      answering == HasLatest(d) /\ d.ivs[Latest(d)].status = "being_answered"
      expected == IF answering THEN d.ivs[Latest(d)].attempt = a /\ d.ivs[Latest(d)].target = r
                  ELSE IF d.feature = "planning" THEN a.kind \in {"planning", "approval"} /\ a.v = d.run.version
                  ELSE a.kind = "implementation" /\ r = "lead"
  IN  IF expected /\ ~Claimed THEN Res(d, At("reattach", r, NoAttempt), FALSE) ELSE Refused(d)

Recover(d) ==
  LET latest == d.ivs[Latest(d)].status
      rested == waitRun(d, "phase_checkpoint")
  IN  IF HasLatest(d) /\ latest = "queued"
      THEN IF AtRestPaused(d) THEN AdvanceIntervention(d) ELSE Nothing(d)
      ELSE IF d.run.status = "waiting" /\ ~d.run.paused /\ d.run.kind = "phase_checkpoint" /\ Autonomous
      THEN AdvanceWaitingRun(d)
      ELSE IF Active(d) = {} /\ d.run.paused
      THEN IF HasLatest(d) /\ latest = "being_answered" THEN Refused(d)
           ELSE IF Deliverable(rested) THEN AdvanceIntervention(rested) ELSE Nothing(rested)
      ELSE IF Active(d) # {} THEN RecoverActive(d, CHOOSE r \in Roles : r \in Active(d))
      ELSE IF d.feature # "planning" THEN Refused(d)
      ELSE IF d.sess["reviewer"].status # "absent" THEN RecoverIdlePlanning(d)
      ELSE RecoverActive(d, "lead")

----------------------------------------------------------------------------
(* The steps of the goroutine that holds the run.                          *)

(* The rows and the place of a result.  An attempt that begins is live,    *)
(* unless the worker knows it already (PutAttempt answers with it). *)
Apply(res) ==
  /\ live' = res.l
  /\ db' = [res.d EXCEPT !.work = [r \in Roles |-> IF res.d.att[r].kind = "intervention" THEN db.work[r]
                                                   ELSE res.d.att[r]]]
  /\ outcome' = [r \in Roles |-> IF res.d.att[r] # db.att[r] THEN IF \E k \in known : k.att = res.d.att[r] /\ r = "reviewer"
                                        THEN (CHOOSE k \in known : k.att = res.d.att[r]).out ELSE "live"
                                   ELSE outcome[r]]

(* The provider's turn ends (external).  By its last message the lead      *)
(* submits; a reviewer asked to approve may ask for changes. *)
EndTurn(r) ==
  /\ outcome[r] = "live"
  /\ \/ outcome' = [outcome EXCEPT ![r] = "completed"] /\ UNCHANGED failures
     \/ /\ db.att[r].kind = "approval" /\ db.plan.subs <= MaxReturns
        /\ outcome' = [outcome EXCEPT ![r] = "changes"] /\ UNCHANGED failures
     \/ /\ failures + crashes < MaxFaults /\ failures' = failures + 1
        /\ \E o \in {"failed", "stopped", "lost"} : outcome' = [outcome EXCEPT ![r] = o]
  /\ known' = IF db.att[r].kind = "approval" THEN known \cup {[att |-> db.att[r], out |-> outcome'[r]]}
              ELSE known
  /\ UNCHANGED <<db, live, calls, resuming, checking, down, overrun, refused, crashes>>

(* captureProviderSession: the conversation's name is stored when the      *)
(* worker first tells it. *)
CaptureProviderSession(r) ==
  /\ live.pc = "turn" /\ live.role = r /\ ~down /\ db.sess[r].status = "starting"
  /\ db' = TransitionSession(db, r, "running")
  /\ UNCHANGED <<outcome, live, others>>

(* finish. *)
Intervening(r) == db.att[r].kind = "intervention"

FinishTurn(r) ==
  /\ live.pc = "turn" /\ live.role = r /\ ~down /\ ~Intervening(r)
  /\ outcome[r] \in {"completed", "changes"}
  /\ \E submits \in BOOLEAN :
       /\ submits => planningStageForAttempt(r, db.att[r]) = "lead_response"
       /\ (planningStageForAttempt(r, db.att[r]) = "lead_response" /\ db.plan.msgs + 1 >= MaxMessages) => submits
       /\ Apply(Finished(db, r, submits))
  /\ UNCHANGED others

FinishIntervention(r) ==
  /\ live.pc = "turn" /\ live.role = r /\ ~down /\ Intervening(r) /\ outcome[r] = "completed"
  /\ \E e \in Effects :
       LET i == Latest(db) IN
       IF MayCompleteIntervention(db, i, db.att[r])
       THEN Apply(Res(CompleteIntervention(db, i, e), At("release", r, NoAttempt), FALSE))
       ELSE Apply(Res(RequireReview(db, r), At("release", r, NoAttempt), FALSE))
  /\ UNCHANGED others

FinishBadly(r) ==
  /\ live.pc = "turn" /\ live.role = r /\ ~down
  /\ \/ /\ outcome[r] = "failed"
        /\ Apply(Res(PauseFailedTurn(db, r), At("release", r, NoAttempt), FALSE))
     \/ /\ outcome[r] = "lost"
        /\ Apply(Res(RequireReview(db, r), At("release", r, NoAttempt), FALSE))
     \/ /\ outcome[r] = "stopped"
        /\ Apply(Res(TransitionRun(MoveSession(db, r, "stopped"), "stopped", "none"),
                     At("release", r, NoAttempt), FALSE))
  /\ UNCHANGED others

(* The next turn is admitted, unless the run was paused since it was read. *)
Chain ==
  /\ live.pc = "chain" /\ ~down
  /\ IF MayBeginAutonomousTurn(db, live.role, db.att[live.role], "planning", TRUE, FALSE)
     THEN Apply(Begun(db, live.role, live.next))
     ELSE Apply(Res(waitRun(db, "blocker"), At("release", live.role, NoAttempt), TRUE))
  /\ UNCHANGED others

(* launchPlanPublication. *)
Publish ==
  /\ live.pc = "publish" /\ ~down
  /\ Apply(ContinueSubmittedPlan(db))
  /\ UNCHANGED others

(* StartImplementation, after the feature's move.  A refused admission     *)
(* lets the run go; the goroutine of a turn blocks it then. *)
Implement ==
  /\ live.pc = "implement" /\ ~down
  /\ IF MayBeginAutonomousTurn(db, "lead", db.att["lead"], "implementing", FALSE, FALSE)
     THEN Apply(Begun(db, "lead", live.next)) /\ UNCHANGED refused
     ELSE /\ Apply(Res(IF live.key = "turn" THEN waitRun(db, "blocker") ELSE db, Idle, TRUE))
          /\ refused' = TRUE
  /\ UNCHANGED <<known, calls, resuming, checking, down, overrun, failures, crashes>>

(* reattach: a failed or lost turn has one successor, in the same          *)
(* conversation; any other is observed to its end. *)
Reattach ==
  /\ live.pc = "reattach" /\ ~down
  /\ LET r == live.role
         a == db.att[r]
         rested == TransitionSession(db, r, "waiting")
     IN  IF outcome[r] \in {"failed", "lost"}
         THEN IF /\ db.sess[r].status \in {"running", "pause_requested", "waiting"} /\ HasSuccessor(a)
                 /\ MayBeginAutonomousTurn(rested, r, a, db.feature, TRUE, FALSE)
              THEN Apply(Begun(rested, r, recoverySuccessorAttemptID(a)))
              ELSE Apply(Res(RequireReview(IF db.sess[r].status = "starting" THEN db ELSE rested, r),
                             At("release", r, NoAttempt), TRUE))
         ELSE Apply(Res(db, At("turn", r, NoAttempt), FALSE))
  /\ UNCHANGED others

(* The holder lets the run go and sees what it waits for. *)
Release ==
  /\ live.pc = "release" /\ ~down
  /\ live' = Idle /\ calls' = calls \cup {"turn"}
  /\ UNCHANGED <<known, db, outcome, resuming, checking, down, overrun, failures, refused, crashes>>

(* A call that a turn's goroutine makes reports its failure by blocking    *)
(* the run; the user hears of the others. *)
Advance(c) ==
  /\ c \in calls /\ ~down
  /\ LET res == IF c = "queue"
                THEN IF Deliverable(db) THEN AdvanceIntervention(db) ELSE Nothing(db)
                ELSE AdvanceWaitingRun(db)
     IN  IF res.err /\ c = "turn" THEN Apply([res EXCEPT !.d = waitRun(@, "blocker")])
         ELSE IF res.l # live THEN Apply([res EXCEPT !.l.key = c]) ELSE Apply(res)
  /\ calls' = calls \ {c}
  /\ UNCHANGED <<known, resuming, checking, down, overrun, failures, refused, crashes>>

----------------------------------------------------------------------------
(* The user's requests.                                                    *)

Requested(res) == res.d # db \/ res.l # live

StartReviewRequest ==
  /\ ~down /\ Requested(StartPlanningReview(db)) /\ Apply(StartPlanningReview(db))
  /\ UNCHANGED others

StartRoundRequest(k) ==
  /\ ~down /\ Requested(StartPlanningRound(db, k)) /\ Apply(StartPlanningRound(db, k))
  /\ UNCHANGED others

StartImplementationRequest ==
  /\ ~down /\ Requested(StartImplementation(db)) /\ Apply(StartImplementation(db))
  /\ UNCHANGED others

(* SendCommand: a message to the lead between its implementation turns. *)
SendCommand(c) ==
  /\ ~down /\ ~Claimed /\ Completed("lead")
  /\ MayBeginWorkerTurn(db, c, "lead", db.att["lead"], FALSE)
  /\ db.work["lead"].kind = "implementation" /\ db.work["lead"].v = db.run.version
  /\ Settled(db, "reviewer") /\ db.plan.submitted /\ db.plan.published
  /\ Apply(Res(BeginWorkerTurn(db, c, "lead", [db.work["lead"] EXCEPT !.n = @ + 1]),
               At("turn", "lead", NoAttempt), FALSE))
  /\ UNCHANGED others

(* applyReply: the worker has the message. *)
ApplyReply(c) ==
  /\ live.pc = "turn" /\ ~down /\ c \in Pending(db, live.role)
  /\ db' = ResolveCommand(db, c, "applied")
  /\ UNCHANGED <<outcome, live, others>>

Pause(k) ==
  /\ ~down /\ MayApply(db, k)
  /\ db' = ApplyPause(db, k)
  /\ UNCHANGED <<outcome, live, others>>

QueueGuidance(g, r) ==
  /\ ~down /\ MayQueueIntervention(db, g, r)
  /\ db' = QueueIntervention(db, g, r) /\ calls' = calls \cup {"queue"}
  /\ UNCHANGED <<known, outcome, live, resuming, checking, down, overrun, failures, refused, crashes>>

(* A repeated request asks for the delivery again. *)
RepeatGuidance ==
  /\ ~down /\ Deliverable(db)
  /\ calls' = calls \cup {"queue"}
  /\ UNCHANGED <<known, db, outcome, live, resuming, checking, down, overrun, failures, refused, crashes>>

(* Resume reads the latest intervention, *)
ReadForResume(k) ==
  /\ ~down /\ resuming[k] = "idle"
  /\ LET i == Latest(db)
         open == HasLatest(db) /\ db.ivs[i].status = "answered" /\ ~db.ivs[i].resolved
     IN  /\ HasLatest(db) => db.ivs[i].status = "answered"
         /\ open => db.ivs[i].effect # "clarification_required"
         /\ resuming' = [resuming EXCEPT ![k] = IF open THEN db.ivs[i].effect ELSE "plain"]
  /\ UNCHANGED <<known, db, outcome, live, calls, checking, down, overrun, failures, refused, crashes>>

(* and then acts on what it read. *)
ActOnResume(k) ==
  /\ ~down /\ resuming[k] \in {"plain", "guidance_applied"}
  /\ LET i == Latest(db) IN
     IF resuming[k] = "plain" /\ MayApply(db, k)
     THEN /\ db' = ApplyResume(db, k) /\ calls' = calls \cup {"resume"}
          /\ overrun' = (overrun \/ Unfinished(db) # {})
     ELSE IF resuming[k] = "guidance_applied" /\ MayResolveGuidance(db, k, i)
     THEN db' = ResolveInterventionGuidance(db, k, i) /\ calls' = calls \cup {"resume"} /\ UNCHANGED overrun
     ELSE db' = db /\ UNCHANGED overrun /\ calls' = IF Applied(db, k) THEN calls \cup {"resume"} ELSE calls
  /\ resuming' = [resuming EXCEPT ![k] = "idle"]
  /\ UNCHANGED <<known, outcome, live, checking, down, failures, refused, crashes>>

(* resumeIntoReplanning: the feature returns to planning, *)
ResumeIntoReplanning(k) ==
  /\ ~down /\ resuming[k] = "replanning_required"
  /\ resuming' = [resuming EXCEPT ![k] = "idle"]
  /\ IF /\ AtRestPaused(db) /\ db.plan.submitted /\ Settled(db, "lead") /\ Completed("lead") /\ ~Claimed
     THEN /\ db' = [db EXCEPT !.feature = "planning"]
          /\ live' = [At("replan", "lead", Attempt("planning", db.run.version + 1, 1)) EXCEPT !.key = k]
     ELSE UNCHANGED <<db, live>>
  /\ UNCHANGED <<known, outcome, calls, checking, down, overrun, failures, refused, crashes>>

(* and the lead plans again. *)
Replan ==
  /\ live.pc = "replan" /\ ~down
  /\ LET i == Latest(db) IN
     IF MayBeginReplanning(db, live.key, i, db.run.version + 1, db.att["lead"])
     THEN Apply(Res([BeginReplanningTurn(db, live.key, i, live.next) EXCEPT !.plan = NoPlan],
                    At("turn", "lead", NoAttempt), FALSE)) /\ UNCHANGED refused
     ELSE Apply(Res(db, Idle, TRUE)) /\ refused' = TRUE
  /\ UNCHANGED <<known, calls, resuming, checking, down, overrun, failures, crashes>>

(* RecoverBlocker: a blocked run is taken up *)
Continue ==
  /\ ~down /\ ~Claimed /\ ~checking
  /\ db.run.status = "waiting" /\ ~db.run.paused /\ db.run.kind = "blocker"
  /\ db' = TransitionRun(db, "running", "none") /\ checking' = TRUE
  /\ UNCHANGED <<known, outcome, live, calls, resuming, down, overrun, failures, refused, crashes>>

(* and recovered, or blocked again. *)
FinishRecovery ==
  /\ checking /\ ~down
  /\ LET res == Recover(db) IN
     IF res.err THEN Apply([res EXCEPT !.d = waitRun(@, "blocker")]) ELSE Apply(res)
  /\ checking' = FALSE
  /\ UNCHANGED <<known, calls, resuming, down, overrun, failures, refused, crashes>>

(* The coordinator stops: its goroutines and requests are gone. *)
Crash ==
  /\ ~down /\ failures + crashes < MaxFaults
  /\ down' = TRUE /\ crashes' = crashes + 1
  /\ live' = Idle /\ calls' = {} /\ checking' = FALSE
  /\ resuming' = [k \in ResumeKeys |-> "idle"]
  /\ UNCHANGED <<known, db, outcome, overrun, refused, failures>>

(* RecoverAll. *)
Restart ==
  /\ down /\ down' = FALSE
  /\ IF Recoverable(db, Autonomous) THEN Apply(Recover(db)) ELSE UNCHANGED <<db, outcome, live>>
  /\ UNCHANGED <<known, calls, resuming, checking, overrun, failures, refused, crashes>>

----------------------------------------------------------------------------
Goroutine ==
  \/ \E r \in Roles : \/ CaptureProviderSession(r) \/ FinishTurn(r)
                      \/ FinishIntervention(r) \/ FinishBadly(r)
  \/ Chain \/ Publish \/ Implement \/ Reattach \/ Release \/ Replan
  \/ \E c \in db.cmds : ApplyReply(c)

Callers == {"turn", "resume", "queue"}

Requests ==
  \/ StartReviewRequest \/ StartImplementationRequest
  \/ \E k \in ResumeKeys : StartRoundRequest(k)
  \/ \E c \in Replies : SendCommand(c)
  \/ \E k \in PauseKeys : Pause(k)
  \/ \E g \in Guidance, r \in Roles : QueueGuidance(g, r)
  \/ RepeatGuidance \/ Continue
  \/ \E k \in ResumeKeys : ReadForResume(k) \/ ActOnResume(k) \/ ResumeIntoReplanning(k)

Next ==
  \/ Goroutine \/ FinishRecovery \/ (\E c \in Callers : Advance(c)) \/ Requests
  \/ (\E r \in Roles : EndTurn(r)) \/ Crash \/ Restart

Spec == Init /\ [][Next]_vars

(* Goroutines run, providers end their turns, and a started request is     *)
(* carried out; nobody has to make one. *)
FairSpec ==
  /\ Spec /\ WF_vars(Goroutine) /\ WF_vars(FinishRecovery) /\ \A c \in Callers : WF_vars(Advance(c))
  /\ \A r \in Roles : WF_vars(EndTurn(r))

----------------------------------------------------------------------------
(* Every stored row satisfies its own rules, whatever the interleaving. *)
TypeOK ==
  /\ RunValid(db.run) /\ db.run.limit >= RoundLimit
  /\ \A i \in DOMAIN db.ivs : InterventionValid(db.ivs[i])
  /\ \A r \in Roles : db.sess[r].status \in SessionStatuses /\ outcome[r] \in Outcomes
  /\ live.pc \in Places /\ live.role \in Roles /\ calls \subseteq Callers

(* Pause is a gate: a paused run that rests knows the wait it returns to   *)
(* (run_pause_store.go, TransitionRun). *)
PauseRemembersItsWait ==
  (db.run.status = "waiting" /\ db.run.paused) => db.run.from \in WaitKinds

(* One agent at a time has a turn, and it is the one the goroutine is on:  *)
(* a session at work always has somebody who observes it, or is held by a  *)
(* blocker for the user. *)
OneAgentAtWork ==
  /\ Cardinality(Active(db)) <= 1
  /\ \A r \in Active(db) : \/ live.role = r /\ live.pc \in {"turn", "reattach", "release"}
                           \/ db.run.status = "waiting" /\ "blocker" \in {db.run.kind, db.run.from}
                           \/ down \/ checking \/ overrun

(* While a run is paused no workflow turn is admitted: pausing holds at    *)
(* every admission, whoever makes it. *)
PauseIsAGate ==
  [][\A r \in Roles : (db.att'[r] # db.att[r] /\ db.att'[r].kind # "intervention")
                        => ~db.run.paused \/ db'.run.version > db.run.version]_vars

(* Interventions are delivered one at a time, each once, and only the last *)
(* may be unfinished. *)
OneInterventionAtATime ==
  /\ Unfinished(db) \subseteq {Latest(db)}
  /\ \A i, j \in DOMAIN db.ivs : i # j => db.ivs[i].id # db.ivs[j].id

(* Every plan after the first was asked for by an intervention of its own. *)
PlansAreAskedFor ==
  /\ db.run.version = 1 + Cardinality(db.revs)
  /\ \A x, y \in db.revs : x # y => x.iv # y.iv /\ x.version # y.version
  /\ \A x \in db.revs : db.ivs[x.iv].resolved /\ db.ivs[x.iv].effect = "replanning_required"

(* The rows agree with themselves and with each other after every step. *)
LedgerIsSound == TypeOK /\ PauseRemembersItsWait /\ OneInterventionAtATime /\ PlansAreAskedFor

(* The plan that is implemented is the submission the reviewer approved in *)
(* a turn of its own, through returns, failed turns, restarts and new plan *)
(* versions (continueSubmittedPlan, StartImplementation). *)
ImplementedPlanWasApproved ==
  db.work["lead"].kind = "implementation" =>
     [att |-> Attempt("approval", db.work["lead"].v, db.plan.subs), out |-> "completed"] \in known

(* A delivered intervention is answered, or the run ended, or a failed     *)
(* turn holds a session for the user, or a resume ran past it, or a start  *)
(* that held the run was refused, or                                       *)
(* a restart came before its delivery (a paused run without a session at   *)
(* work is not taken up by RecoverAll; the repeated request delivers it). *)
InterventionsAreAnswered ==
  (Unfinished(db) # {} /\ db.run.paused) ~>
     (\/ Unfinished(db) = {} \/ overrun \/ refused \/ crashes > 0 \/ db.run.status \in RunEnds
      \/ \E r \in Active(db) : outcome[r] \in {"failed", "lost"})
=============================================================================
