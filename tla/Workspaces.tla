------------------------------- MODULE Workspaces -------------------------------
(***************************************************************************)
(* The managed workspace of one work order (src/internal/workspace,        *)
(* forgejo, gitworkspace and workorder): its record in the database, its   *)
(* branch and pull requests in Forgejo, and the lead's and the reviewer's  *)
(* checkouts.  Three calls may be under way at once: one that the          *)
(* orchestration makes under the run's claim (work), the merge, which lets *)
(* the claim go first (merge), and the user's return to Ready or deletion, *)
(* which stops the run but waits for neither (clean).  Every call is a     *)
(* chain of requests; between two of them the lead's agent pushes, other   *)
(* work orders move the default branch, and the call may die, with the     *)
(* last request carried out or not.                                        *)
(*                                                                         *)
(* A commit is the set of changes it contains, so that an ancestor is a    *)
(* subset: 0 is the first commit, 1..MaxMoves the changes of other work    *)
(* orders, 101.. this order's, 201.. its merges into the default branch.   *)
(***************************************************************************)
EXTENDS Integers, Sequences, FiniteSets
CONSTANTS
    MaxMoves,     \* how often other work orders move the default branch
    MaxCommits,   \* how many commits the lead makes
    MaxTroubles   \* how many calls die on the way, and how often the user returns the order to Ready,
                  \* deletes it or asks for a revised plan, together
ASSUME WorkspacesAssumption == {MaxMoves, MaxCommits, MaxTroubles} \subseteq Nat

VARIABLES
    feature,    \* the feature's state, "gone" once deleted
    codeReview, \* Steps.CodeReview: the run has a reviewer
    run,        \* the order's run: none, active, stopped, succeeded
    rec,        \* the row of feature_workspaces
    main,       \* the head of the default branch
    branch,     \* the head of the feature branch in Forgejo
    pulls,      \* its pull requests, by number
    protected,  \* the default branch's protection
    checkout,   \* the two checkouts
    turn,       \* what the lead's turn is for
    note,       \* the comment that turn must post: none, right, wrong
    review,     \* the reviewer's last review: the commit and the decision
    reviewed,   \* the commit of the review that the lead answers
    plan, baseline, \* the plan's version, and the commit a revised plan starts from
    work, merge, clean, \* the three calls
    claimed,    \* the row of feature_deletions: no run may start any more
    accepted,   \* commits whose approval was verified
    excused,    \* races the code loses, see README
    commits, troubles
vars == <<feature, codeReview, run, rec, main, branch, pulls, protected, checkout, turn, note, review, reviewed,
          plan, baseline, work, merge, clean, claimed, accepted, excused, commits, troubles>>
forgejo == <<main, branch, pulls, protected>>
talk == <<turn, note, review, reviewed>>
plans == <<plan, baseline>>
bounds == <<commits, troubles>>
still == <<codeReview, claimed, accepted, excused, commits, troubles>>

None == {}
Ours == 101..(100 + MaxCommits)
Commit == SUBSET (0..MaxMoves \union Ours \union {201, 202})
Who == {"lead", "reviewer"}
NoRecord == [status |-> "none", base |-> None, checkout |-> FALSE, pr |-> 0, approved |-> None, merged |-> None]
NoCheckout == [on |-> "absent", head |-> None, clean |-> TRUE]
NoReview == [commit |-> None, state |-> "none"]
Trouble == troubles < MaxTroubles /\ troubles' = troubles + 1
Idle == [op |-> "none", at |-> "idle", rec |-> NoRecord, seen |-> None, pr |-> 0]
NoClean == [at |-> "idle", op |-> "none", rec |-> NoRecord, state |-> "draft"]

(* Workspace.Validate: which fields of a row go together. *)
Valid(r) ==
    \/ r = NoRecord
    \/ /\ r.status \in {"preparing", "branch_ready"} /\ r.base # None
       /\ r.status = "preparing" => r.pr = 0
       /\ r.pr > 0 => r.checkout
       /\ r.approved # None => r.pr > 0
       /\ r.merged # None => r.approved # None

TypeOK ==
    /\ feature \in {"draft", "ready", "planning", "implementing", "reviewing", "ready_to_merge", "completed", "gone"}
    /\ run \in {"none", "active", "stopped", "succeeded"} /\ Valid(rec)
    /\ main \in Commit /\ branch \in Commit /\ protected \in BOOLEAN
    /\ \A n \in DOMAIN pulls : /\ pulls[n].state \in {"open", "closed", "merged"}
                               /\ pulls[n].merge # None <=> pulls[n].state = "merged"
    /\ \A w \in Who : checkout[w].on \in {"absent", "broken", "base", "feature"}
    /\ turn \in {"none", "initial", "review", "response", "readiness", "update"}
    /\ note \in {"none", "right", "wrong"}

Init ==
    /\ feature \in {"draft", "ready"} /\ codeReview \in BOOLEAN /\ run = "none"
    /\ rec = NoRecord /\ main = {0} /\ branch = None /\ pulls = <<>> /\ protected = FALSE
    /\ checkout = [w \in Who |-> NoCheckout]
    /\ turn = "none" /\ note = "none" /\ review = NoReview /\ reviewed = None /\ plan = 1 /\ baseline = None
    /\ work = Idle /\ merge = Idle /\ clean = NoClean
    /\ claimed = FALSE /\ accepted = {} /\ excused = {} /\ commits = 0 /\ troubles = 0

(* Feature.CanTransitionTo, as far as these calls use it. *)
CanGo(from, to) ==
    to \in CASE from = "draft" -> {"ready", "planning"}
             [] from = "ready" -> {"draft", "planning"}
             [] from = "planning" -> {"draft", "ready", "implementing"}
             [] from = "implementing" -> {"planning", "ready", "reviewing", "ready_to_merge"}
             [] from = "reviewing" -> {"planning", "ready", "ready_to_merge"}
             [] from = "ready_to_merge" -> {"planning", "ready", "implementing", "reviewing", "completed"}
             [] OTHER -> {}
(* A transition that is not allowed changes nothing. *)
Transitioned(to) == IF CanGo(feature, to) THEN to ELSE feature

Go(next) == work' = [work EXCEPT !.at = next]
Fails == work' = Idle
(* A step of the claimed call: it goes on, or an error ends the call. *)
Check(ok, next) == IF ok THEN Go(next) ELSE Fails

(***************************************************************************)
(* Git: what a checkout must look like.  A spec names the branch, the      *)
(* commit it starts from, the head it must have, and how strict it is.     *)
(***************************************************************************)
SpecOf(b, base) == [branch |-> b, base |-> base, head |-> None, ready |-> TRUE, baseline |-> FALSE, clean |-> FALSE]
Reconciles(k, s) ==
    /\ k.on = s.branch
    /\ IF s.ready
       THEN /\ s.baseline => k.head = s.base
            /\ s.base \subseteq k.head
            /\ s.head # None => k.head = s.head
            /\ s.baseline \/ s.clean => k.clean
       ELSE k.head = s.base /\ k.clean
Clone(b) == IF b = "base" THEN [on |-> b, head |-> main, clean |-> TRUE]
            ELSE IF branch = None THEN NoCheckout ELSE [on |-> b, head |-> branch, clean |-> TRUE]
(* Ensure clones a checkout that is not there, unless the record says it is. *)
Ensured(w, s) == IF checkout[w].on = "absent" /\ ~s.ready THEN Clone(s.branch) ELSE checkout[w]
Ensure(w, s, next) ==
    /\ checkout' = [checkout EXCEPT ![w] = Ensured(w, s)]
    /\ Check(Reconciles(Ensured(w, s), s), next)
(* Promote moves a clean checkout at the planning baseline onto the feature branch. *)
Promotes(w, base) == checkout[w].on \in {"base", "feature"} /\ checkout[w].head = base /\ checkout[w].clean
Promotion(w, next) ==
    LET base == work.rec.base IN
    /\ checkout' = IF Promotes(w, base) THEN [checkout EXCEPT ![w].on = "feature"] ELSE checkout
    /\ Check(Promotes(w, base), next)
Without(w) == [checkout EXCEPT ![w] = NoCheckout]

(***************************************************************************)
(* Forgejo: what the client reads of a pull request and does to it.        *)
(***************************************************************************)
HeadOf(n) == IF pulls[n].state = "open" THEN branch ELSE pulls[n].head
Open(n) == n \in DOMAIN pulls /\ pulls[n].state = "open"
Set(n, f, v) == [pulls EXCEPT ![n] = [@ EXCEPT ![f] = v]]
Closed(n) == [pulls EXCEPT ![n] = [@ EXCEPT !.state = "closed", !.head = branch]]
(* The pull requests findPullRequest counts: closed ones that were not merged belong to an earlier start. *)
Found == {n \in DOMAIN pulls : pulls[n].state # "closed"}
(* validateManagedPullRequest for one that was just made. *)
Managed(n, base) == Open(n) /\ pulls[n].draft /\ branch = base
(* validatePlanPullRequest and the audit's check of the body: the current plan is the last one in it. *)
Published(n, c, v) == Open(n) /\ pulls[n].draft /\ branch = c /\ pulls[n].plan = v
(* A deleted branch takes its open pull requests with it. *)
Orphaned == [n \in DOMAIN pulls |-> IF Open(n) THEN [pulls[n] EXCEPT !.state = "closed", !.head = branch] ELSE pulls[n]]
(* Forgejo merges what the request names, approved once, if it does not conflict. *)
Merges(n, c) == Open(n) /\ ~pulls[n].draft /\ branch = c /\ (protected => pulls[n].approved)
MergeOf == main \union branch \union {201 + Cardinality(main \intersect {201, 202})}

(***************************************************************************)
(* Preparing the checkouts: while the order is a draft, and at its start.  *)
(***************************************************************************)
PrepareForClarification ==
    /\ work = Idle /\ feature = "draft"
    /\ work' = [Idle EXCEPT !.op = "clarify", !.at = "access"]
    /\ UNCHANGED <<feature, run, rec, checkout, merge, clean>> /\ UNCHANGED <<forgejo, talk, plans, still>>

(* The user marks a draft as ready. *)
Ready ==
    /\ feature = "draft" /\ feature' = "ready"
    /\ UNCHANGED <<run, rec, checkout, work, merge, clean>> /\ UNCHANGED <<forgejo, talk, plans, still>>

RepinBase(r, base) == [r EXCEPT !.base = base, !.checkout = FALSE]
(* A start reads the default branch anew, and drops the checkouts that no record holds. *)
PrepareForStart ==
    /\ work = Idle /\ feature = "ready"
    /\ rec' = IF rec.status = "preparing" /\ rec.base # main THEN RepinBase(rec, main) ELSE rec
    /\ work' = [Idle EXCEPT !.op = "start",
                            !.at = IF rec.status = "preparing" /\ ~rec'.checkout THEN "remove lead" ELSE "access"]
    /\ UNCHANGED <<feature, run, checkout, merge, clean>> /\ UNCHANGED <<forgejo, talk, plans, still>>

RemoveStale ==
    /\ \/ work.at = "remove lead" /\ checkout' = Without("lead") /\ Go("remove reviewer")
       \/ work.at = "remove reviewer" /\ checkout' = Without("reviewer") /\ Go("access")
    /\ UNCHANGED <<feature, run, rec, merge, clean>> /\ UNCHANGED <<forgejo, talk, plans, still>>

(* Collaborators and the default branch's protection, before anything is cloned. *)
EnsureRepositoryAccess ==
    /\ work.at = "access" /\ protected' = TRUE /\ Go("reserve")
    /\ UNCHANGED <<feature, run, rec, main, branch, pulls, checkout, merge, clean>> /\ UNCHANGED <<talk, plans, still>>

Reserve ==
    /\ work.at = "reserve"
    /\ rec' = IF rec = NoRecord THEN [NoRecord EXCEPT !.status = "preparing", !.base = main] ELSE rec
    /\ work' = [work EXCEPT !.at = "lead", !.rec = rec']
    /\ UNCHANGED <<feature, run, checkout, merge, clean>> /\ UNCHANGED <<forgejo, talk, plans, still>>

PrepareCheckout ==
    /\ LET on == IF work.rec.status = "branch_ready" THEN "feature" ELSE "base"
           fresh == [SpecOf(on, work.rec.base) EXCEPT !.ready = FALSE] IN
       \/ work.at = "lead" /\ Ensure("lead", [fresh EXCEPT !.ready = work.rec.checkout], "reviewer")
       \/ work.at = "reviewer" /\ Ensure("reviewer", fresh, "checked out")
    /\ UNCHANGED <<feature, run, rec, merge, clean>> /\ UNCHANGED <<forgejo, talk, plans, still>>
(* A clone that is killed leaves a directory that is no working tree. *)
CloneKilled ==
    /\ Trouble
    /\ work.at \in Who /\ checkout[work.at].on = "absent"
    /\ checkout' = [checkout EXCEPT ![work.at] = [NoCheckout EXCEPT !.on = "broken"]] /\ Fails
    /\ UNCHANGED <<feature, codeReview, claimed, run, rec, merge, clean, accepted, excused, commits>>
    /\ UNCHANGED <<forgejo, talk, plans>>

MarkCheckoutReady ==
    /\ work.at = "checked out"
    /\ rec' = IF rec # NoRecord THEN [rec EXCEPT !.checkout = TRUE] ELSE rec
    /\ Check(rec # NoRecord /\ work.op = "start", "begin")
    /\ UNCHANGED <<feature, run, checkout, merge, clean>> /\ UNCHANGED <<forgejo, talk, plans, still>>

(* StartWithModels: the run is made and the feature enters planning. *)
Start ==
    /\ work.at = "begin" /\ Fails
    /\ IF CanGo(feature, "planning") /\ ~claimed
       THEN /\ feature' = "planning" /\ run' = "active" /\ turn' = "none" /\ note' = "none"
            /\ review' = NoReview /\ reviewed' = None /\ plan' = 1 /\ baseline' = None
       ELSE UNCHANGED <<feature, run, turn, note, review, reviewed, plan, baseline>>
    /\ UNCHANGED <<rec, checkout, merge, clean>> /\ UNCHANGED <<forgejo, still>>

(***************************************************************************)
(* Publishing a plan: the branch, the pull request and the plan in its     *)
(* body.  A revised plan only adds its text.                               *)
(***************************************************************************)
Quiet == UNCHANGED <<feature, run, merge, clean>> /\ UNCHANGED <<talk, plans, still>>
PublishPlan ==
    /\ work = Idle /\ feature = "planning" /\ run = "active" /\ rec.checkout
    /\ work' = [Idle EXCEPT !.op = "publish", !.rec = rec,
                            !.at = IF rec.pr > 0 THEN "plan head"
                                   ELSE IF rec.status = "preparing" THEN "promote lead"
                                   ELSE "check branch"]
    /\ UNCHANGED <<rec, checkout>> /\ Quiet /\ UNCHANGED forgejo

Promote ==
    /\ \/ work.at = "promote lead" /\ Promotion("lead", "promote reviewer")
       \/ work.at = "promote reviewer" /\ Promotion("reviewer", "ensure branch")
    /\ UNCHANGED rec /\ Quiet /\ UNCHANGED forgejo

(* A branch that is already there must be at the commit the record names. *)
EnsureBranch ==
    /\ \/ work.at = "ensure branch" /\ branch = None
          /\ branch' = work.rec.base /\ Go("mark branch")
       \/ work.at = "ensure branch" /\ branch # None
          /\ Check(branch = work.rec.base, "mark branch") /\ UNCHANGED branch
       \/ work.at = "check branch"
          /\ Check(branch = work.rec.base, "baseline lead") /\ UNCHANGED branch
    /\ UNCHANGED <<rec, checkout, main, pulls, protected>> /\ Quiet

MarkBranchReady ==
    /\ work.at = "mark branch"
    /\ rec' = IF rec # NoRecord THEN [rec EXCEPT !.status = "branch_ready"] ELSE rec
    /\ work' = IF rec # NoRecord THEN [work EXCEPT !.at = "baseline lead", !.rec = rec'] ELSE Idle
    /\ excused' = IF rec # NoRecord THEN excused ELSE excused \union {"unrecorded"}
    /\ UNCHANGED <<feature, codeReview, claimed, run, checkout, merge, clean, accepted, commits, troubles>>
    /\ UNCHANGED <<forgejo, talk, plans>>

PlanningBaseline ==
    /\ LET s == [SpecOf("feature", work.rec.base) EXCEPT !.baseline = TRUE] IN
       \/ work.at = "baseline lead" /\ Ensure("lead", s, "baseline reviewer")
       \/ work.at = "baseline reviewer" /\ Ensure("reviewer", s, "pull")
    /\ UNCHANGED rec /\ Quiet /\ UNCHANGED forgejo

EnsureDraftPullRequest ==
    /\ work.at = "pull"
    /\ \/ /\ Found = {} /\ branch # None
          /\ pulls' = Append(pulls, [state |-> "open", head |-> None, draft |-> TRUE, approved |-> FALSE, plan |-> 0, merge |-> None])
          /\ work' = IF branch = work.rec.base THEN [work EXCEPT !.at = "mark pull", !.pr = Len(pulls')] ELSE Idle
       \/ /\ Found = {} /\ branch = None /\ Fails /\ UNCHANGED pulls
       \/ \E n \in Found : /\ work' = IF Found = {n} /\ Managed(n, work.rec.base) THEN [work EXCEPT !.at = "mark pull", !.pr = n] ELSE Idle
                           /\ UNCHANGED pulls
    /\ UNCHANGED <<rec, checkout, main, branch, protected>> /\ Quiet

MarkPullRequestReady ==
    /\ work.at = "mark pull"
    /\ LET ok == rec.checkout /\ rec.status = "branch_ready" /\ rec.pr \in {0, work.pr} IN
       /\ rec' = IF ok THEN [rec EXCEPT !.pr = work.pr] ELSE rec
       /\ work' = IF ok THEN [work EXCEPT !.at = "plan head", !.rec = rec'] ELSE Idle
    /\ UNCHANGED checkout /\ Quiet /\ UNCHANGED forgejo

(* The plan is written on a branch that is still where planning began. *)
ReconcileSubmittedPlan ==
    /\ LET expected == IF baseline = None THEN work.rec.base ELSE baseline IN
       \/ /\ work.at = "plan head" /\ UNCHANGED pulls
          /\ Check(branch = expected /\ Reconciles(checkout["lead"],
                      [SpecOf("feature", work.rec.base) EXCEPT !.head = expected, !.baseline = baseline = None]), "plan body")
       \/ /\ work.at = "plan body"
          /\ LET ok == Open(work.rec.pr) /\ pulls[work.rec.pr].draft /\ branch = expected IN
             /\ pulls' = IF ok THEN Set(work.rec.pr, "plan", plan) ELSE pulls
             /\ Check(ok, "implement")
    /\ UNCHANGED <<rec, checkout, main, branch, protected>> /\ Quiet

(* A turn begins only in a run that goes on; the feature moves before that is known. *)
Admitted(t) == IF run = "active" THEN t ELSE turn
StartImplementation ==
    /\ work.at = "implement" /\ Fails
    /\ IF CanGo(feature, "implementing")
       THEN feature' = "implementing" /\ turn' = Admitted("initial") /\ note' = "none" ELSE UNCHANGED <<feature, turn, note>>
    /\ UNCHANGED <<run, rec, checkout, merge, clean, review, reviewed>> /\ UNCHANGED <<forgejo, plans, still>>

(***************************************************************************)
(* The lead's agent works in its checkout, pushes and comments; the        *)
(* reviewer's posts a review.  Neither runs while their result is checked. *)
(***************************************************************************)
Working == run = "active" /\ work = Idle /\ turn \in {"initial", "response", "readiness", "update"} /\ checkout["lead"].on = "feature"
Outside == UNCHANGED <<feature, run, rec, work, merge, clean, turn, review, reviewed>> /\ UNCHANGED plans
LeadEdits ==
    /\ Working /\ checkout["lead"].clean
    /\ checkout' = [checkout EXCEPT !["lead"].clean = FALSE]
    /\ UNCHANGED note /\ Outside /\ UNCHANGED <<forgejo, still>>
LeadCommits ==
    /\ Working /\ ~checkout["lead"].clean /\ commits < MaxCommits /\ commits' = commits + 1
    /\ checkout' = [checkout EXCEPT !["lead"] = [@ EXCEPT !.head = @ \union {101 + commits}, !.clean = TRUE]]
    /\ UNCHANGED <<note, codeReview, claimed, accepted, excused, troubles>> /\ Outside /\ UNCHANGED forgejo
LeadMergesMain ==
    /\ Working /\ turn = "update" /\ checkout["lead"].clean /\ ~ main \subseteq checkout["lead"].head
    /\ checkout' = [checkout EXCEPT !["lead"].head = @ \union main]
    /\ UNCHANGED note /\ Outside /\ UNCHANGED <<forgejo, still>>
LeadPushes ==
    /\ Working /\ branch # None /\ branch' = checkout["lead"].head
    /\ branch # branch' /\ branch \subseteq branch'
    /\ UNCHANGED <<note, checkout, main, pulls, protected>> /\ Outside /\ UNCHANGED still
LeadComments ==
    /\ Working /\ note' \in {"right", "wrong"} \ {note} /\ note # "right"
    /\ UNCHANGED checkout /\ Outside /\ UNCHANGED <<forgejo, still>>
ReviewerPosts ==
    /\ run = "active" /\ work = Idle /\ turn = "review" /\ Open(rec.pr) /\ review.state = "none"
    /\ \E state \in {"APPROVED", "REQUEST_CHANGES"} :
         /\ review' = [commit |-> branch, state |-> state]
         /\ pulls' = IF state = "APPROVED" THEN Set(rec.pr, "approved", TRUE) ELSE pulls
    /\ UNCHANGED <<note, checkout, main, branch, protected, feature, run, rec, work, merge, clean, turn, reviewed>>
    /\ UNCHANGED <<plans, still>>
(* Other work orders merge. *)
MainMoves ==
    /\ \E i \in 1..MaxMoves : main' = main \union {i} /\ i = 1 + Cardinality(main \intersect 1..MaxMoves)
    /\ UNCHANGED <<note, checkout, branch, pulls, protected>> /\ Outside /\ UNCHANGED still

(***************************************************************************)
(* Checking what the lead reports: the branch and its checkout first, then *)
(* the pull request and its comment.                                       *)
(***************************************************************************)
AuditStates == CASE turn \in {"initial", "update"} -> {"implementing", "reviewing"} [] OTHER -> {"reviewing"}
AuditBase(r) == CASE turn = "initial" -> IF baseline = None THEN r.base ELSE baseline
                  [] turn = "response" -> reviewed
                  [] turn = "update" -> r.approved
                  [] OTHER -> r.base
LeadReports ==
    /\ Working /\ feature \in AuditStates /\ rec.checkout /\ rec.pr > 0
    /\ turn = "update" => rec.approved # None /\ rec.merged = None
    /\ \E c \in {branch, checkout["lead"].head} :
         /\ turn = "readiness" => c = reviewed
         /\ turn = "update" => c # rec.approved
         /\ work' = [Idle EXCEPT !.op = "audit", !.at = "audit head", !.rec = rec, !.seen = c]
    /\ UNCHANGED <<rec, checkout>> /\ Quiet /\ UNCHANGED forgejo

Clean(base, c) == [SpecOf("feature", base) EXCEPT !.head = c, !.clean = TRUE]
AuditHead ==
    /\ work.at = "audit head"
    /\ Check(branch = work.seen /\ Reconciles(checkout["lead"], Clean(AuditBase(work.rec), work.seen)),
             IF turn = "update" THEN "to draft" ELSE "publication")
    /\ UNCHANGED <<rec, checkout>> /\ Quiet /\ UNCHANGED forgejo
ReturnPullRequestToDraft ==
    /\ work.at = "to draft"
    /\ pulls' = IF Open(work.rec.pr) THEN Set(work.rec.pr, "draft", TRUE) ELSE pulls
    /\ Check(Open(work.rec.pr), "publication")
    /\ UNCHANGED <<rec, checkout, main, branch, protected>> /\ Quiet
VerifyPublication ==
    /\ work.at = "publication"
    /\ Check(Published(work.rec.pr, work.seen, plan) /\ note = "right", IF turn = "update" THEN "clear" ELSE "advance")
    /\ UNCHANGED <<rec, checkout>> /\ Quiet /\ UNCHANGED forgejo
(* An update is verified: the commit approved before it is forgotten. *)
ClearMergeReady ==
    /\ work.at = "clear" /\ Go("advance")
    /\ rec' = IF rec.merged = None THEN [rec EXCEPT !.approved = None] ELSE rec
    /\ UNCHANGED checkout /\ Quiet /\ UNCHANGED forgejo
Advance ==
    /\ work.at = "advance"
    /\ IF turn = "readiness" \/ ~codeReview
       THEN Go("gate head") /\ UNCHANGED <<feature, turn, review, reviewed>> /\ accepted' = accepted \union {work.seen}
       ELSE /\ Fails /\ turn' = Admitted("review") /\ review' = NoReview /\ reviewed' = None /\ UNCHANGED accepted
            /\ feature' = Transitioned("reviewing")
    /\ UNCHANGED <<note, codeReview, claimed, run, rec, checkout, merge, clean, excused, commits, troubles>>
    /\ UNCHANGED <<forgejo, plans>>

(***************************************************************************)
(* The reviewer's review is checked against Forgejo's; an approved commit  *)
(* goes to the lead for its acknowledgement, any other for a response.     *)
(***************************************************************************)
ReviewerReports ==
    /\ run = "active" /\ work = Idle /\ turn = "review" /\ feature = "reviewing" /\ review # NoReview
    /\ rec.checkout /\ rec.pr > 0
    /\ work' = [Idle EXCEPT !.op = "review", !.at = "review head", !.rec = rec, !.seen = review.commit]
    /\ UNCHANGED <<rec, checkout>> /\ Quiet /\ UNCHANGED forgejo
VerifyReview ==
    /\ \/ /\ work.at = "review head" /\ UNCHANGED <<turn, note, reviewed>>
          /\ Check(branch = work.seen /\ Reconciles(checkout["lead"], Clean(work.rec.base, work.seen)), "review")
       \/ /\ work.at = "review" /\ Fails
          /\ IF Published(work.rec.pr, work.seen, plan) /\ review.commit = branch
             THEN turn' = (IF review.state = "APPROVED" THEN "readiness" ELSE "response") /\ note' = "none" /\ reviewed' = work.seen
             ELSE UNCHANGED <<turn, note, reviewed>>
    /\ UNCHANGED <<feature, run, rec, checkout, merge, clean, review>> /\ UNCHANGED <<forgejo, plans, still>>

(* RecordMergeReady and the transition behind it. *)
RecordMergeReady ==
    /\ \/ /\ work.at = "gate head" /\ UNCHANGED <<feature, rec, turn>>
          /\ LET r == rec IN
             work' = IF /\ feature \in {"implementing", "reviewing", "ready_to_merge"} /\ r.pr > 0 /\ r.checkout
                        /\ branch = work.seen /\ Reconciles(checkout["lead"], Clean(r.base, work.seen))
                     THEN [work EXCEPT !.at = "gate mark", !.rec = r] ELSE Idle
       \/ /\ work.at = "gate mark" /\ UNCHANGED <<feature, turn>>
          /\ LET ok == rec.pr > 0 /\ rec.approved \in {None, work.seen} IN
             rec' = (IF ok THEN [rec EXCEPT !.approved = work.seen] ELSE rec) /\ Check(ok, "gate")
       \/ /\ work.at = "gate" /\ Fails /\ UNCHANGED rec
          /\ IF CanGo(feature, "ready_to_merge") THEN feature' = "ready_to_merge" /\ turn' = "none" ELSE UNCHANGED <<feature, turn>>
    /\ UNCHANGED <<run, checkout, merge, clean, note, review, reviewed>> /\ UNCHANGED <<forgejo, plans, still>>

(***************************************************************************)
(* Merging.  The call reads the order and its record once, closes a pull   *)
(* request that brings nothing, or makes it ready, approves it where no    *)
(* reviewer did, and merges it at the commit that was approved.            *)
(***************************************************************************)
Step(next) == merge' = [merge EXCEPT !.at = next]
Ends == merge' = Idle
MChecks(ok, next) == IF ok THEN Step(next) ELSE Ends
Aside == UNCHANGED <<run, work, clean>> /\ UNCHANGED <<plans, still>>
(* validateMergePullRequest, for the commit of this call. *)
Names(n) == branch # None /\ HeadOf(n) = merge.rec.approved
MergeApproved ==
    /\ merge = Idle /\ run = "active" /\ feature = "ready_to_merge" /\ rec.approved # None
    /\ merge' = IF rec.merged # None THEN [Idle EXCEPT !.op = "merge", !.at = "complete", !.rec = rec]
                ELSE IF branch = rec.approved /\ Reconciles(checkout["lead"], Clean(rec.base, rec.approved))
                THEN [Idle EXCEPT !.op = "merge", !.at = "empty", !.rec = rec, !.pr = rec.pr] ELSE Idle
    /\ UNCHANGED <<feature, rec, checkout>> /\ Aside /\ UNCHANGED <<forgejo, talk>>
CloseEmptyPullRequest ==
    /\ \/ /\ merge.at = "empty" /\ UNCHANGED pulls
          /\ IF ~Names(merge.pr) THEN Ends
             ELSE Step(IF pulls[merge.pr].state # "merged" /\ merge.rec.approved \subseteq main
                       THEN "close empty" ELSE "undraft")
       \/ /\ merge.at = "close empty"
          /\ pulls' = IF Open(merge.pr) THEN Closed(merge.pr) ELSE pulls
          /\ IF pulls[merge.pr].state = "merged" THEN Ends
             ELSE merge' = [merge EXCEPT !.at = "mark", !.seen = merge.rec.approved]
    /\ UNCHANGED <<feature, rec, checkout, main, branch, protected>> /\ Aside /\ UNCHANGED talk
MarkReadyForMerge ==
    /\ \/ /\ merge.at = "undraft"
          /\ pulls' = IF Names(merge.pr) /\ Open(merge.pr) THEN Set(merge.pr, "draft", FALSE) ELSE pulls
          /\ IF ~Names(merge.pr) \/ pulls[merge.pr].state = "closed" THEN Ends
             ELSE Step(IF pulls[merge.pr].state = "merged" THEN "result" ELSE IF codeReview THEN "post" ELSE "approve")
       \/ /\ merge.at = "approve"
          /\ pulls' = IF Open(merge.pr) THEN Set(merge.pr, "approved", TRUE) ELSE pulls
          /\ MChecks(Open(merge.pr), "post")
    /\ UNCHANGED <<feature, rec, checkout, main, branch, protected>> /\ Aside /\ UNCHANGED talk
(* Forgejo refuses another head than the request's, a draft, a missing approval, or a conflict. *)
PostMerge ==
    /\ merge.at = "post"
    /\ \/ /\ Merges(merge.pr, merge.rec.approved)
          /\ main' = MergeOf
          /\ pulls' = [pulls EXCEPT ![merge.pr] = [@ EXCEPT !.state = "merged", !.head = branch, !.merge = main']]
          /\ Step("result")
       \/ /\ Merges(merge.pr, merge.rec.approved) => ~ main \subseteq branch
          /\ Step("refused") /\ UNCHANGED <<main, pulls>>
    /\ UNCHANGED <<feature, rec, checkout, branch, protected>> /\ Aside /\ UNCHANGED talk
(* What the merge did is read back; a refused one makes it a draft again, and may ask for an update. *)
Reconcile ==
    /\ \/ /\ merge.at = "result" /\ UNCHANGED <<pulls, feature, turn, note>>
          /\ merge' = IF Names(merge.pr) /\ pulls[merge.pr].state = "merged"
                      THEN [merge EXCEPT !.at = "mark", !.seen = pulls[merge.pr].merge] ELSE Idle
       \/ /\ merge.at = "refused" /\ UNCHANGED <<feature, turn, note>>
          /\ IF ~Names(merge.pr) \/ pulls[merge.pr].state = "closed" THEN Ends /\ UNCHANGED pulls
             ELSE IF pulls[merge.pr].state = "merged" THEN Step("result") /\ UNCHANGED pulls
             ELSE pulls' = Set(merge.pr, "draft", TRUE) /\ Step("update")
       \/ /\ merge.at = "update" /\ Ends /\ UNCHANGED pulls
          /\ LET target == IF codeReview THEN "reviewing" ELSE "implementing" IN
             IF run = "active" /\ work = Idle /\ feature = "ready_to_merge" /\ rec.approved # None /\ rec.merged = None
                /\ ~ main \subseteq checkout["lead"].head
             THEN feature' = target /\ turn' = "update" /\ note' = "none" ELSE UNCHANGED <<feature, turn, note>>
    /\ UNCHANGED <<rec, checkout, main, branch, protected, review, reviewed>> /\ Aside
MarkMerged ==
    /\ merge.at = "mark"
    /\ LET ok == rec.approved = merge.rec.approved /\ rec.merged \in {None, merge.seen} IN
       rec' = (IF ok THEN [rec EXCEPT !.merged = merge.seen] ELSE rec) /\ MChecks(ok, "complete")
    /\ UNCHANGED <<feature, checkout>> /\ Aside /\ UNCHANGED <<forgejo, talk>>
Complete ==
    /\ merge.at = "complete" /\ Ends
    /\ feature' = Transitioned("completed")
    /\ run' = IF feature' = "completed" /\ run = "active" THEN "succeeded" ELSE run
    /\ excused' = IF feature' = "completed" /\ rec.merged = None THEN excused \union {"moved on"} ELSE excused
    /\ UNCHANGED <<rec, checkout, work, clean, codeReview, claimed, accepted>> /\ UNCHANGED <<forgejo, talk, plans, bounds>>

(***************************************************************************)
(* Replanning: the branch is where it is; the reviewer gets a new clone of *)
(* it, the lead's checkout must be at it, the old plan must be in the pull *)
(* request.  The new turn forgets the approval.                            *)
(***************************************************************************)
Replan ==
    /\ Trouble
    /\ work = Idle /\ run = "active" /\ feature \in {"planning", "implementing", "reviewing", "ready_to_merge"}
    /\ rec.status = "branch_ready" /\ rec.checkout /\ rec.pr > 0 /\ rec.merged = None /\ branch # None
    /\ work' = [Idle EXCEPT !.op = "replan", !.at = "drop reviewer", !.rec = rec, !.seen = branch]
    /\ UNCHANGED <<feature, codeReview, claimed, run, rec, checkout, merge, clean, accepted, excused, commits>>
    /\ UNCHANGED <<forgejo, talk, plans>>
PrepareReplanningBaseline ==
    /\ \/ work.at = "drop reviewer" /\ checkout' = Without("reviewer") /\ Go("clone reviewer")
       \/ work.at = "clone reviewer" /\ Ensure("reviewer", [SpecOf("feature", work.seen) EXCEPT !.ready = FALSE], "replan head")
       \/ /\ work.at = "replan head" /\ UNCHANGED checkout
          /\ Check(Reconciles(checkout["lead"], [SpecOf("feature", work.rec.base) EXCEPT !.head = work.seen])
                   /\ Published(work.rec.pr, work.seen, plan), "to planning")
    /\ UNCHANGED rec /\ Quiet /\ UNCHANGED forgejo
BeginReplanningTurn ==
    /\ \/ /\ work.at = "to planning" /\ UNCHANGED <<rec, turn, plan, baseline>>
          /\ IF feature = "planning" \/ CanGo(feature, "planning") THEN feature' = "planning" /\ Go("begin replanning")
             ELSE Fails /\ UNCHANGED feature
       \/ /\ work.at = "begin replanning" /\ Fails /\ UNCHANGED feature
          /\ IF run = "active" /\ rec # NoRecord /\ rec.merged = None
             THEN rec' = [rec EXCEPT !.approved = None] /\ turn' = "none" /\ plan' = plan + 1 /\ baseline' = work.seen
             ELSE UNCHANGED <<rec, turn, plan, baseline>>
    /\ UNCHANGED <<run, checkout, merge, clean, note, review, reviewed>> /\ UNCHANGED <<forgejo, still>>

(***************************************************************************)
(* Returning an order to Ready, and deleting it: its agents are stopped,   *)
(* then what the record names is removed, and the record itself last.      *)
(***************************************************************************)
Then(next) == clean' = [clean EXCEPT !.at = next]
Stops == clean' = NoClean
CChecks(ok, next) == IF ok THEN Then(next) ELSE Stops
Beside == UNCHANGED <<work, merge>> /\ UNCHANGED <<talk, plans, still>>
Clear(op, first) ==
    /\ clean = NoClean /\ Trouble
    /\ clean' = [NoClean EXCEPT !.at = first, !.op = op]
    /\ UNCHANGED <<feature, codeReview, claimed, run, rec, checkout, work, merge, accepted, excused, commits>>
    /\ UNCHANGED <<forgejo, talk, plans>>
ReturnToReady == feature \notin {"draft", "gone"} /\ Clear("ready", "stop")
(* Delete leaves a run that waits for the user as it is; ForceDelete stops it. *)
DeleteOrder == feature # "gone" /\ \E first \in {"stop", "claim"} : Clear("delete", first)
StopWorkOrderRuns ==
    /\ clean.at = "stop" /\ Then("claim") /\ run' = IF run = "active" THEN "stopped" ELSE run
    /\ UNCHANGED <<feature, rec, checkout>> /\ Beside /\ UNCHANGED forgejo
(* BeginReturnToReady, BeginDeletion and validateArtifacts. *)
ClaimArtifacts ==
    /\ clean.at = "claim"
    /\ IF /\ run = "active" => clean.op = "delete" /\ work = Idle
          /\ clean.op = "ready" => feature \in {"ready", "planning", "implementing", "reviewing", "ready_to_merge"}
          /\ feature = "completed" /\ rec # NoRecord => rec.merged # None
       THEN /\ clean' = [clean EXCEPT !.at = IF rec = NoRecord THEN "finish" ELSE "close", !.rec = rec, !.state = feature]
            /\ claimed' = (claimed \/ clean.op = "delete")
       ELSE Stops /\ UNCHANGED claimed
    /\ UNCHANGED <<feature, codeReview, run, rec, checkout, work, merge, accepted, excused, commits, troubles>>
    /\ UNCHANGED <<forgejo, talk, plans>>
RemoveArtifactsUnseen ==  \* a mutant: a merged pull request counts as closed
    /\ \/ /\ clean.at = "close" /\ UNCHANGED <<branch, checkout>>
          /\ IF clean.rec.pr = 0 \/ clean.state = "completed" THEN Then("branch") /\ UNCHANGED pulls
             ELSE /\ pulls' = IF Open(clean.rec.pr) THEN Closed(clean.rec.pr) ELSE pulls
                  /\ Then("branch")
       \/ /\ clean.at = "branch" /\ UNCHANGED checkout /\ Then("lead")
          /\ IF clean.rec.status = "branch_ready" THEN branch' = None /\ pulls' = Orphaned ELSE UNCHANGED <<branch, pulls>>
       \/ /\ clean.at = "lead" /\ Then("reviewer") /\ UNCHANGED <<branch, pulls>>
          /\ checkout' = IF clean.rec.checkout THEN Without("lead") ELSE checkout
       \/ /\ clean.at = "reviewer" /\ Then("finish") /\ UNCHANGED <<branch, pulls>>
          /\ checkout' = IF clean.rec.checkout THEN Without("reviewer") ELSE checkout
    /\ UNCHANGED <<feature, run, rec, main, protected>> /\ Beside
RemoveArtifacts ==
    /\ \/ /\ clean.at = "close" /\ UNCHANGED <<branch, checkout>>
          /\ IF clean.rec.pr = 0 \/ clean.state = "completed" THEN Then("branch") /\ UNCHANGED pulls
             ELSE /\ pulls' = IF Open(clean.rec.pr) THEN Closed(clean.rec.pr) ELSE pulls
                  /\ CChecks(pulls[clean.rec.pr].state # "merged", "branch")
       \/ /\ clean.at = "branch" /\ UNCHANGED checkout /\ Then("lead")
          /\ IF clean.rec.status = "branch_ready" THEN branch' = None /\ pulls' = Orphaned ELSE UNCHANGED <<branch, pulls>>
       \/ /\ clean.at = "lead" /\ Then("reviewer") /\ UNCHANGED <<branch, pulls>>
          /\ checkout' = IF clean.rec.checkout THEN Without("lead") ELSE checkout
       \/ /\ clean.at = "reviewer" /\ Then("finish") /\ UNCHANGED <<branch, pulls>>
          /\ checkout' = IF clean.rec.checkout THEN Without("reviewer") ELSE checkout
    /\ UNCHANGED <<feature, run, rec, main, protected>> /\ Beside
(* Begin takes no claim: the record of an order that moved on since is removed unseen. *)
MovedOn == rec # clean.rec \/ (feature = "completed" /\ clean.state # "completed")
Finish ==
    /\ \/ /\ clean.at = "finish" /\ rec' = NoRecord
          /\ excused' = IF MovedOn THEN excused \union {"moved on"} ELSE excused
          /\ IF clean.op = "delete" THEN feature' = "gone" /\ run' = "none" /\ claimed' = FALSE /\ Stops
             ELSE UNCHANGED <<feature, run, claimed>> /\ CChecks(clean.state # "ready", "to ready")
       \/ /\ clean.at = "to ready" /\ Stops /\ UNCHANGED <<run, rec, claimed, excused>>
          /\ feature' = Transitioned("ready")
    /\ UNCHANGED <<checkout, work, merge, codeReview, commits, troubles, accepted>>
    /\ UNCHANGED <<forgejo, talk, plans>>
(* An hour's sweep removes the checkouts of orders merged a day ago. *)
RemoveMergedCheckouts ==
    /\ rec.merged # None /\ \E w \in Who : checkout[w].on # "absent" /\ checkout' = Without(w)
    /\ UNCHANGED <<feature, run, rec, clean>> /\ Beside /\ UNCHANGED forgejo

(* A call dies between two requests, the last one carried out. *)
Abort ==
    /\ Trouble
    /\ \/ work # Idle /\ Fails /\ UNCHANGED <<merge, clean>>
       \/ merge # Idle /\ Ends /\ UNCHANGED <<work, clean>>
       \/ clean # NoClean /\ Stops /\ UNCHANGED <<work, merge>>
    /\ excused' = IF work.at = "mark branch" /\ work' = Idle THEN excused \union {"unrecorded"} ELSE excused
    /\ UNCHANGED <<feature, codeReview, claimed, run, rec, checkout, accepted, commits>>
    /\ UNCHANGED <<forgejo, talk, plans>>

Coordinator ==
    \/ PrepareForClarification \/ PrepareForStart \/ RemoveStale \/ EnsureRepositoryAccess \/ Reserve \/ PrepareCheckout
    \/ CloneKilled \/ MarkCheckoutReady \/ Start
    \/ PublishPlan \/ Promote \/ EnsureBranch \/ MarkBranchReady \/ PlanningBaseline \/ EnsureDraftPullRequest
    \/ MarkPullRequestReady \/ ReconcileSubmittedPlan \/ StartImplementation
    \/ LeadReports \/ AuditHead \/ ReturnPullRequestToDraft \/ VerifyPublication \/ ClearMergeReady \/ Advance
    \/ ReviewerReports \/ VerifyReview \/ RecordMergeReady
    \/ Replan \/ PrepareReplanningBaseline \/ BeginReplanningTurn
Merging == MergeApproved \/ CloseEmptyPullRequest \/ MarkReadyForMerge \/ PostMerge \/ Reconcile \/ MarkMerged \/ Complete
Cleaning == ReturnToReady \/ DeleteOrder \/ StopWorkOrderRuns \/ ClaimArtifacts \/ RemoveArtifacts \/ Finish \/ RemoveMergedCheckouts
Agents == LeadEdits \/ LeadCommits \/ LeadMergesMain \/ LeadPushes \/ LeadComments \/ ReviewerPosts \/ MainMoves \/ Ready
Next == Coordinator \/ Merging \/ Cleaning \/ Agents \/ Abort
Spec == Init /\ [][Next]_vars

(* Only a commit whose review, or whose audit where there is no reviewer, was verified is merged. *)
OnlyReviewedIsMerged == \A n \in DOMAIN pulls : pulls[n].state = "merged" => pulls[n].head \in accepted
(* What was merged is not forgotten: neither a restart nor the deletion of an unfinished order hides it. *)
Merged == \E n \in DOMAIN pulls : pulls[n].state = "merged"
NothingMergedIsForgotten ==
    /\ rec = NoRecord /\ feature # "gone" => ~Merged
    /\ clean.at = "finish" /\ rec = clean.rec /\ clean.state # "completed" => ~Merged
(* A completed order can be handed off: GetCompletedHandoff and GetProjectHandoff read its record. *)
HandoffReady ==
    feature = "completed" =>
        /\ rec.merged # None /\ rec.approved \in accepted
        /\ \/ rec.merged = rec.approved /\ rec.approved \subseteq main
           \/ pulls[rec.pr].merge = rec.merged
(* An order that is Ready again has nothing of its last start in Forgejo. *)
CleanSlate == feature \in {"ready", "gone"} /\ rec = NoRecord => branch = None /\ \A n \in DOMAIN pulls : ~Open(n)
WorkspaceIsSound ==
    /\ TypeOK /\ OnlyReviewedIsMerged
    /\ "moved on" \notin excused => NothingMergedIsForgotten /\ HandoffReady
    /\ excused = {} /\ clean = NoClean /\ work = Idle => CleanSlate
=============================================================================
