------------------------------ MODULE RunLedger ------------------------------
(***************************************************************************)
(* The coordinator's durable rows of one run, and the transactions on them *)
(* (database/execution_store.go and its companions; execution/model.go has *)
(* the rules of the rows).  A transaction is a pair of operators: MayX is  *)
(* its guard, X(d, ...) the rows it commits.  A transaction whose guard    *)
(* fails returns an error and commits nothing.                             *)
(*                                                                         *)
(* The rows d of a run are a record:                                       *)
(*   run      [status, kind, paused, from, version, limit]                 *)
(*   feature  the state of the work order                                  *)
(*   sess     each role's session, [status, provider]; provider says that  *)
(*            the provider's conversation is known                         *)
(*   att      the worker attempt checkpointed for each session: its kind,  *)
(*            the plan version, the turn and how often it was tried        *)
(*   ivs      the interventions, oldest first                              *)
(*   acts     the applied run actions, <<key, action>>                     *)
(*   cmds     the commands, [id, role, status]                             *)
(*   revs     the plan revisions, [version, iv]                            *)
(* Texts, times and the events a transaction logs are left out.            *)
(***************************************************************************)
EXTENDS Integers, Sequences, FiniteSets

Roles == {"lead", "reviewer"}
RunEnds == {"succeeded", "stopped", "failed"}
RunStatuses == {"running", "waiting"} \cup RunEnds
WaitKinds == {"phase_checkpoint", "round_cap", "blocker", "merge_gate", "clarification"}
SessionEnds == {"completed", "stopped", "failed"}
SessionStatuses == {"absent", "starting", "running", "waiting", "pause_requested", "paused"}
                     \cup SessionEnds
NoAttempt == [kind |-> "none", v |-> 0, n |-> 0, t |-> 0]
Effects == {"guidance_applied", "clarification_required", "replanning_required"}

(* Run.Validate: what every stored run satisfies. *)
RunValid(r) ==
  /\ r.status \in RunStatuses /\ r.version >= 1 /\ r.limit >= 0
  /\ r.paused <=> r.kind = "paused"
  /\ r.status = "waiting" => r.kind # "none"
  /\ (r.status # "waiting" /\ ~r.paused) => r.kind = "none"
  /\ r.from # "none" => r.paused /\ r.from \in WaitKinds

(* Intervention.Validate. *)
InterventionValid(i) ==
  /\ i.status \in {"waiting_for_boundary", "queued", "being_answered", "answered"}
  /\ i.attempt = NoAttempt <=> i.status \in {"waiting_for_boundary", "queued"}
  /\ i.effect \in Effects <=> i.status = "answered"
  /\ i.resolved => i.status = "answered"

(* ListActiveSessions: the sessions that are not at rest. *)
Active(d) == {r \in Roles : d.sess[r].status \notin {"absent", "waiting"} \cup SessionEnds}

(* The runs that a restarted coordinator takes up again. *)
Recoverable(d, autonomous) ==
  \/ d.run.status = "running"
  \/ d.run.status = "waiting" /\ Active(d) # {}
  \/ d.run.status = "waiting" /\ autonomous /\ d.run.kind = "phase_checkpoint"

----------------------------------------------------------------------------
(* Runs and sessions.                                                      *)

WithRun(d, r) == [d EXCEPT !.run = r]
WithStatus(d, r, s) == [d EXCEPT !.sess[r].status = s]

(* CreateRun and CreateSession for a run that plans: no key is used yet.   *)
CreateRun(d, limit) ==
  WithRun(d, [status |-> "running", kind |-> "none", paused |-> FALSE, from |-> "none",
              version |-> 1, limit |-> limit])
CreateSession(d, r) == [d EXCEPT !.sess[r] = [status |-> "starting", provider |-> FALSE]]

(* Interventions that waited for the turn's end may be delivered. *)
Queued(ivs) == [i \in DOMAIN ivs |-> IF ivs[i].status = "waiting_for_boundary"
                                     THEN [ivs[i] EXCEPT !.status = "queued"] ELSE ivs[i]]

(* Fault: the wait kind a paused run returns to is not kept. *)
TransitionRunForgetting(d, to, kind) ==
  LET r == d.run
      moved == IF to \in RunEnds
               THEN [r EXCEPT !.status = to, !.paused = FALSE, !.kind = "none", !.from = "none"]
               ELSE IF r.paused THEN [r EXCEPT !.status = to]
               ELSE [r EXCEPT !.status = to, !.kind = kind, !.from = "none"]
  IN  [d EXCEPT !.run = moved, !.ivs = IF to = "waiting" /\ moved.paused THEN Queued(@) ELSE @]

(* Fault: the boundary is reached and nothing is queued for delivery. *)
TransitionRunUnqueued(d, to, kind) ==
  LET r == d.run
      moved == IF to \in RunEnds
               THEN [r EXCEPT !.status = to, !.paused = FALSE, !.kind = "none", !.from = "none"]
               ELSE IF r.paused
               THEN [r EXCEPT !.status = to, !.kind = "paused", !.from = IF kind \in WaitKinds THEN kind ELSE @]
               ELSE [r EXCEPT !.status = to, !.kind = kind, !.from = "none"]
  IN  [d EXCEPT !.run = moved]

(* A paused run stays paused, and keeps the wait kind it is to return to.  *)
(* At a paused boundary the intervention that waited for it is queued. *)
TransitionRun(d, to, kind) ==
  LET r == d.run
      moved == IF to \in RunEnds
               THEN [r EXCEPT !.status = to, !.paused = FALSE, !.kind = "none", !.from = "none"]
               ELSE IF r.paused
               THEN [r EXCEPT !.status = to, !.kind = "paused", !.from = IF kind \in WaitKinds THEN kind ELSE @]
               ELSE [r EXCEPT !.status = to, !.kind = kind, !.from = "none"]
  IN  [d EXCEPT !.run = moved, !.ivs = IF to = "waiting" /\ moved.paused THEN Queued(@) ELSE @]

(* A move that names the provider's conversation records it; one made      *)
(* before the conversation is known keeps the row without it. *)
TransitionSession(d, r, to) == [d EXCEPT !.sess[r] = [status |-> to, provider |-> TRUE]]
MoveSession(d, r, to) == WithStatus(d, r, to)

----------------------------------------------------------------------------
(* Pause and resume: each key is applied once.                             *)

Applied(d, id) == \E x \in d.acts : x[1] = id
MayApply(d, id) == ~Applied(d, id) /\ d.run.status \notin RunEnds

Paused(r) == IF r.paused THEN r
             ELSE [r EXCEPT !.paused = TRUE, !.kind = "paused",
                            !.from = IF r.status = "waiting" THEN r.kind ELSE @]

(* The wait the pause interrupted is restored. *)
Unpaused(r) ==
  [r EXCEPT !.paused = FALSE, !.from = "none",
            !.kind = IF r.status # "waiting" THEN "none"
                     ELSE IF r.from = "none" THEN "blocker" ELSE r.from]

ApplyPause(d, id) == [d EXCEPT !.run = Paused(@), !.acts = @ \cup {<<id, "pause">>}]
ApplyResume(d, id) == [d EXCEPT !.run = IF @.paused THEN Unpaused(@) ELSE @,
                                !.acts = @ \cup {<<id, "resume">>}]

(* One more planning round at the round cap. *)
MayExtendRounds(d, id, expected) ==
  /\ ~Applied(d, id) /\ d.run.status = "waiting" /\ ~d.run.paused
  /\ d.run.kind = "round_cap" /\ d.run.limit = expected
ExtendPlanningRoundLimit(d, id) ==
  [d EXCEPT !.run.limit = @ + 1, !.acts = @ \cup {<<id, "extend">>}]

----------------------------------------------------------------------------
(* Interventions.                                                          *)

Unfinished(d) == {i \in DOMAIN d.ivs : d.ivs[i].status # "answered"}
Latest(d) == Len(d.ivs)
HasLatest(d) == d.ivs # <<>>

(* The conversation of a role that can be asked. *)
SelectTarget(d, r) == d.sess[r].status \notin {"absent"} \cup SessionEnds

MayQueueIntervention(d, id, r) ==
  /\ \A i \in DOMAIN d.ivs : d.ivs[i].id # id
  /\ d.run.status \notin RunEnds
  /\ SelectTarget(d, r)
  /\ Unfinished(d) = {}

(* The intervention and the pause it asks for are one transaction. *)
QueueIntervention(d, id, r) ==
  [d EXCEPT !.run = Paused(@),
            !.ivs = Append(@, [id |-> id, target |-> r, effect |-> "none", attempt |-> NoAttempt,
                               resolved |-> FALSE,
                               status |-> IF d.run.status = "waiting" THEN "queued"
                                          ELSE "waiting_for_boundary"])]

AtRestPaused(d) == d.run.status = "waiting" /\ d.run.paused

(* Fault: delivered although another agent is at work. *)
MayInterruptTheOther(d, i) ==
  /\ d.ivs[i].status = "queued"
  /\ d.sess[d.ivs[i].target].status = "waiting" /\ d.sess[d.ivs[i].target].provider
  /\ AtRestPaused(d)

(* Delivered to the role's conversation, when nothing else is at work. *)
MayBeginInterventionTurn(d, i) ==
  /\ d.ivs[i].status = "queued"
  /\ d.sess[d.ivs[i].target].status = "waiting" /\ d.sess[d.ivs[i].target].provider
  /\ AtRestPaused(d) /\ Active(d) = {}
BeginInterventionTurn(d, i, next) ==
  [d EXCEPT !.att[d.ivs[i].target] = next,
            !.sess[d.ivs[i].target].status = "running",
            !.ivs[i] = [@ EXCEPT !.status = "being_answered", !.attempt = next]]

MayCompleteIntervention(d, i, attempt) ==
  LET r == d.ivs[i].target IN
  /\ d.ivs[i].status = "being_answered" /\ d.ivs[i].attempt = attempt
  /\ d.sess[r].status = "running" /\ d.att[r] = attempt
  /\ AtRestPaused(d)
CompleteIntervention(d, i, effect) ==
  [d EXCEPT !.sess[d.ivs[i].target].status = "waiting",
            !.ivs[i] = [@ EXCEPT !.status = "answered", !.effect = effect]]

(* The latest answer still to be acted on. *)
Answered(d, i, effect) ==
  /\ i = Latest(d) /\ d.ivs[i].status = "answered"
  /\ d.ivs[i].effect = effect /\ ~d.ivs[i].resolved

MayResolveGuidance(d, id, i) ==
  ~Applied(d, id) /\ Answered(d, i, "guidance_applied") /\ AtRestPaused(d)
ResolveInterventionGuidance(d, id, i) ==
  [d EXCEPT !.run = Unpaused(@), !.ivs[i].resolved = TRUE, !.acts = @ \cup {<<id, "resume">>}]

(* The answer asks for a new plan: the lead plans again, on a new version. *)
MayBeginReplanning(d, id, i, version, previous) ==
  /\ ~Applied(d, id) /\ Answered(d, i, "replanning_required")
  /\ AtRestPaused(d) /\ d.run.version + 1 = version
  /\ d.feature = "planning"
  /\ d.sess["lead"].status = "waiting" /\ d.sess["lead"].provider
  /\ Active(d) = {} /\ d.att["lead"] = previous

BeginReplanningTurn(d, id, i, next) ==
  [d EXCEPT !.ivs[i].resolved = TRUE,
            !.att["lead"] = next,
            !.sess["lead"].status = "running",
            !.revs = d.revs \cup {[version |-> d.run.version + 1, iv |-> i]},
            !.run = [d.run EXCEPT !.status = "running", !.kind = "none", !.paused = FALSE,
                                  !.from = "none", !.version = @ + 1],
            !.acts = d.acts \cup {<<id, "resume">>}]

----------------------------------------------------------------------------
(* Turns.  The run is running again, the session too, and the checkpoint   *)
(* names the new attempt: in one transaction.                              *)

Turned(d, r, next) ==
  [d EXCEPT !.att[r] = next, !.sess[r].status = "running",
            !.run = [@ EXCEPT !.status = "running", !.kind = "none", !.from = "none"]]

(* Fault: admission does not look at the pause. *)
MayBeginThoughPaused(d, r, previous, state, active, alongside) ==
  /\ d.sess[r].status = "waiting" /\ d.sess[r].provider
  /\ d.run.status = IF active THEN "running" ELSE "waiting"
  /\ d.feature = state /\ d.att[r] = previous
  /\ active /\ ~alongside => Active(d) = {}

(* The next turn of a conversation at rest.  A turn chained to the one     *)
(* before (active) finds the run running; alongside is for a turn next to  *)
(* the other agent's. *)
MayBeginAutonomousTurn(d, r, previous, state, active, alongside) ==
  /\ ~d.run.paused
  /\ d.sess[r].status = "waiting" /\ d.sess[r].provider
  /\ d.run.status = IF active THEN "running" ELSE "waiting"
  /\ d.feature = state /\ d.att[r] = previous
  /\ active /\ ~alongside => Active(d) = {}
BeginAutonomousTurn(d, r, next) == Turned(d, r, next)

(* A message to the agent, with its command. *)
MayBeginWorkerTurn(d, id, r, previous, first) ==
  /\ \A c \in d.cmds : c.id # id
  /\ d.sess[r].status = "waiting" /\ d.sess[r].provider = ~first
  /\ d.run.status = "waiting" /\ ~d.run.paused
  /\ d.feature = "implementing"
  /\ d.att[r] = IF first THEN NoAttempt ELSE previous
BeginWorkerTurn(d, id, r, next) ==
  [Turned(d, r, next) EXCEPT !.cmds = @ \cup {[id |-> id, role |-> r, status |-> "pending"]}]

(* A role's first turn: its session is created with it. *)
MayBeginNewSessionTurn(d, r) ==
  /\ d.sess[r].status = "absent"
  /\ d.run.status = "waiting" /\ ~d.run.paused
  /\ d.feature = "planning" /\ Active(d) = {}
BeginNewSessionTurn(d, r, next) ==
  [d EXCEPT !.sess[r] = [status |-> "starting", provider |-> FALSE], !.att[r] = next,
            !.run = [@ EXCEPT !.status = "running", !.kind = "none", !.from = "none"]]

(* A command is resolved once. *)
Pending(d, r) == {c \in d.cmds : c.role = r /\ c.status = "pending"}
ResolveCommand(d, c, status) ==
  [d EXCEPT !.cmds = (@ \ {c}) \cup {[c EXCEPT !.status = status]}]
=============================================================================
