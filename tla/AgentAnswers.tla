------------------------------ MODULE AgentAnswers ------------------------------
(***************************************************************************)
(* The structured answer that ends an agent's turn: what each contract     *)
(* offers, what an answer must and must not carry (structured_output.go),  *)
(* the correction a rejected answer is asked for (workerservice/events.go) *)
(* and the checks the result passes before it is recorded                  *)
(* (workerhttp/validation.go).  A field is absent, good, bad, or good to   *)
(* the contract and over a limit of the record.                            *)
(***************************************************************************)
EXTENDS Naturals
VARIABLES
    provider,     \* "claude" or "codex"
    contract,     \* what the turn was asked for
    stage,        \* "asked", "answered", "unusable", "recorded" or "indeterminate"
    answer,       \* the agent's last answer
    result,       \* what it came to
    corrections   \* how often a rejected answer was sent back
answerVars == <<provider, contract, stage, answer, result, corrections>>

Says(event, disposition, needs, bars, valid, claim) ==
    [event |-> event, disposition |-> disposition, needs |-> needs, bars |-> bars, valid |-> valid, claim |-> claim]
Message(needs, bars, valid, claim) == Says("message", "succeeded", needs, bars, valid, claim)
Objects(needs, claim) == Says("message", "changes_requested", needs, {}, {}, claim)
Question(needs, bars, claim) == Says("input_required", "input_required", needs, bars, {}, claim)

(* Of each action: the event and the disposition it becomes, the fields it *)
(* needs, those it must not have, those that must be valid if present, and *)
(* what it claims.                                                         *)
GoalClarification ==
    [ask |-> Message({"questions"}, {}, {"goal"}, "goal"), propose |-> Message({"goal"}, {"questions"}, {}, "goal")]
PlanningLead ==
    [respond |-> Message({}, {"plan"}, {}, "none"), submit_plan |-> Says("plan_submitted", "succeeded", {"plan"}, {}, {}, "plan")]
ImplementationLead ==
    [published |-> Message({"commit", "pull"}, {"packages"}, {"findings"}, "publication"),
     blocked |-> Question({"pull"}, {"commit", "packages"}, "none"),
     environment_required |-> Question({"packages"}, {"commit", "pull"}, "environment")]
AcceptanceTests == [authored |-> Message({"commit", "tests"}, {}, {}, "tests"), blocked |-> Question({}, {"commit", "tests"}, "none")]
ImplementationReview ==
    [approved |-> Message({"commit", "pull", "review"}, {}, {}, "review"),
     changes_requested |-> Objects({"commit", "pull", "review"}, "review"),
     blocked |-> Question({"pull"}, {"commit", "review"}, "none")]
WorkOrderBrief == [ask |-> Question({}, {}, "none"), propose |-> Message({"brief"}, {}, {}, "brief")]
AssistantTurn == [says |-> Message({}, {}, {"assistant"}, "assistant")]
AssistantPlanningTurn == [says |-> Message({"build_plan"}, {}, {"assistant"}, "assistant")]
VisionPlan == [ask |-> Question({}, {}, "none"), propose |-> Message({"vision"}, {}, {}, "vision")]
SessionOpening == [says |-> Message({}, {}, {}, "title")]
PlanApproval == [approve |-> Message({}, {}, {}, "none"), request_changes |-> Objects({}, "none")]
Readiness == [ready_to_merge |-> Message({}, {}, {}, "none"), concern |-> Objects({}, "none"), blocked |-> Question({}, {}, "none")]
Intervention == [e \in {"guidance_applied", "clarification_required", "replanning_required"} |-> Message({}, {}, {}, "effect")]
ToolchainSetup ==
    [ask |-> Question({}, {"tools", "services", "run"}, "none"), propose |-> Message({"tools"}, {}, {"services"}, "toolchain")]

Rules ==
    [goal |-> GoalClarification, plan |-> PlanningLead, implementation |-> ImplementationLead, tests |-> AcceptanceTests,
     review |-> ImplementationReview, brief |-> WorkOrderBrief, assistant |-> AssistantTurn,
     planning |-> AssistantPlanningTurn, vision |-> VisionPlan, opening |-> SessionOpening, approval |-> PlanApproval,
     readiness |-> Readiness, intervention |-> Intervention, toolchain |-> ToolchainSetup]
Contracts == DOMAIN Rules

(* What the schema given to the provider offers: actions and fields. *)
Actions(c) ==
    CASE c \in {"goal", "brief", "vision", "toolchain"} -> {"ask", "propose"} [] c = "plan" -> {"respond", "submit_plan"}
      [] c = "implementation" -> {"published", "blocked", "environment_required"} [] c = "tests" -> {"authored", "blocked"}
      [] c = "review" -> {"approved", "changes_requested", "blocked"} [] c = "approval" -> {"approve", "request_changes"}
      [] c = "readiness" -> {"ready_to_merge", "concern", "blocked"}
      [] c = "intervention" -> {"guidance_applied", "clarification_required", "replanning_required"}
      [] OTHER -> {"says"}
Fields(c) ==
    CASE c = "goal" -> {"questions", "goal"} [] c = "plan" -> {"plan"} [] c = "brief" -> {"brief"} [] c = "vision" -> {"vision"}
      [] c = "implementation" -> {"commit", "pull", "packages", "findings"} [] c = "tests" -> {"commit", "tests"}
      [] c = "review" -> {"commit", "pull", "review"} [] c = "assistant" -> {"assistant"}
      [] c = "planning" -> {"assistant", "build_plan"} [] c = "opening" -> {"title"}
      [] c = "toolchain" -> {"tools", "services", "run"} [] OTHER -> {}
Values(f) ==
    CASE f \in {"questions", "title"} -> {"none", "good"} [] f \in {"tools", "services"} -> {"none", "good", "bad", "over"}
      [] f = "run" -> {"none", "good", "over"} [] OTHER -> {"none", "good", "bad"}
(* A text may be longer than an error message (4 KB) or a summary (64 KB). *)
Texts == {"none", "short", "long", "over"}
Filled(c) == {v \in [Fields(c) -> {"none", "good", "bad", "over"}] : \A f \in Fields(c) : v[f] \in Values(f)}
Answers(c) == [action : Actions(c) \cup {"other", "failed"}, text : Texts, fields : Filled(c)]

NoAnswer == [action |-> "other", text |-> "none", fields |-> [f \in {} |-> "none"]]
NoResult == [outcome |-> "none"]
InitAnswers ==
    /\ provider \in {"claude", "codex"} /\ contract \in Contracts
    /\ stage = "asked" /\ answer = NoAnswer /\ result = NoResult /\ corrections = 0

-----------------------------------------------------------------------------
(* An answer that breaks its contract is not used at all. *)
Usable(c, a) ==
    /\ a.action \in DOMAIN Rules[c] /\ a.text # "none"
    /\ LET rule == Rules[c][a.action] IN
       /\ \A f \in rule.needs : a.fields[f] \in {"good", "over"}
       /\ \A f \in rule.bars : a.fields[f] = "none"
       /\ \A f \in rule.valid : a.fields[f] # "bad"
Resolved(c, a) ==
    LET rule == Rules[c][a.action] IN
    [outcome |-> "completed", event |-> rule.event, disposition |-> rule.disposition,
     claim |-> IF rule.claim \in DOMAIN a.fields /\ a.fields[rule.claim] = "none" THEN "none" ELSE rule.claim]

(* What a result may claim goes with its disposition: the worker's own     *)
(* check, which only the Claude adapter asks, knows some of the claims.    *)
Disposes(claim) ==
    CASE claim \in {"none", "effect"} -> {"succeeded", "changes_requested", "input_required"}
      [] claim = "review" -> {"succeeded", "changes_requested"} [] claim = "environment" -> {"input_required"}
      [] OTHER -> {"succeeded"}
ResultValid(r) ==
    r.outcome = "completed" /\ r.claim \in {"goal", "plan", "tests", "publication", "review", "environment"}
        => r.disposition \in Disposes(r.claim)
TerminalValid(a, r) ==
    IF r.outcome = "failed" THEN a.text \in {"none", "short"}  \* an empty one is given a text
    ELSE /\ a.text # "over" /\ r.disposition \in Disposes(r.claim)
         /\ r.claim = "toolchain" => \A f \in DOMAIN a.fields : a.fields[f] # "over"

(* The turn ends: with an answer, or with the provider's failure. *)
Outcome(c, a) == IF a.action = "failed" THEN [outcome |-> "failed"] ELSE IF Usable(c, a) THEN Resolved(c, a) ELSE NoResult
Answer ==
    /\ stage = "asked" /\ answer' \in Answers(contract)
    /\ result' = Outcome(contract, answer')
    /\ stage' = IF result'.outcome = "none" THEN "unusable" ELSE "answered"
    /\ UNCHANGED <<provider, contract, corrections>>
(* While the attempt runs, a rejected answer is asked for again in the     *)
(* same conversation, twice at most; otherwise the attempt has failed with *)
(* a result nothing can refuse.                                            *)
MaxResultCorrections == 2
Correct ==
    /\ stage = "unusable" /\ corrections < MaxResultCorrections
    /\ stage' = "asked" /\ corrections' = corrections + 1 /\ answer' = NoAnswer
    /\ UNCHANGED <<provider, contract, result>>
Incomplete == [outcome |-> "incomplete"]
Finish ==
    /\ stage \in {"answered", "unusable"}
    /\ IF stage = "unusable" \/ (provider = "claude" /\ ~ResultValid(result))
       THEN stage' = "recorded" /\ result' = Incomplete
       ELSE stage' = (IF TerminalValid(answer, result) THEN "recorded" ELSE "indeterminate") /\ UNCHANGED result
    /\ UNCHANGED <<provider, contract, answer, corrections>>
NextAnswers == Answer \/ Correct \/ Finish

-----------------------------------------------------------------------------
(* What must hold *)

AnswersTypeOK ==
    /\ provider \in {"claude", "codex"} /\ contract \in Contracts /\ corrections \in 0..MaxResultCorrections
    /\ stage \in {"asked", "answered", "unusable", "recorded", "indeterminate"}

(* An answer the contract takes is recorded as what it says, and one it    *)
(* does not take is never the result; only a text or a toolchain beyond    *)
(* the record's limits, which the contract does not check, leaves a turn   *)
(* that ended without a known result.                                      *)
AnswersAreRecorded ==
    /\ stage = "recorded" /\ result # Incomplete /\ result.outcome = "completed" => result = Resolved(contract, answer)
    /\ stage = "recorded" /\ result = Incomplete => ~Usable(contract, answer)
    /\ stage = "indeterminate" =>
          \/ answer.text = "over"
          \/ result.outcome = "failed" /\ answer.text = "long"
          \/ result.outcome = "completed" /\ result.claim = "toolchain" /\ \E f \in Fields("toolchain") : answer.fields[f] = "over"

(* A question waits for the user and claims nothing but what it asks for;  *)
(* a plan is announced if and only if there is one; a claim is backed by   *)
(* what the coordinator will look for.                                     *)
ClaimsAreBacked ==
    result.outcome = "completed" =>
        /\ result.event = "input_required" <=> result.disposition = "input_required"
        /\ result.disposition = "input_required" => result.claim \in {"none", "environment"}
        /\ result.event = "plan_submitted" <=> result.claim = "plan"
        /\ result.claim \in {"publication", "review", "tests"} => answer.fields["commit"] = "good"
        /\ result.claim = "none" => \A f \in {"commit", "packages", "plan", "review", "tests"} \cap Fields(contract) :
                                        answer.fields[f] = "none"

(* Whatever the schema offers can be answered. *)
OffersAreTaken ==
    stage = "asked" => \A action \in Actions(contract) : \E v \in Filled(contract) :
        LET a == [action |-> action, text |-> "short", fields |-> v]
        IN  Usable(contract, a) /\ TerminalValid(a, Resolved(contract, a))

AnswersAreSound == AnswersTypeOK /\ AnswersAreRecorded /\ ClaimsAreBacked /\ OffersAreTaken
SpecAnswers == InitAnswers /\ [][NextAnswers]_answerVars
=============================================================================
