------------------------------- MODULE MCPlatform -------------------------------
(***************************************************************************)
(* Nine parts of the system that share no state, checked in one run: a    *)
(* behaviour is of the part that is chosen at the start.  Eight of them    *)
(* take the places of Workspaces' variables, in their order, and leave the *)
(* last ones at 0.                                                         *)
(***************************************************************************)
EXTENDS Workspaces
CONSTANTS
    MaxCommands, MaxRestarts, PlanningRounds, ReviewRounds,  \* SimulatedRuns
    WaitingRuns, MaxAtOnce, MaxRefusals,                     \* Waits
    MaxRequests, MaxSyncs, MaxChanges,                       \* Projects
    MaxAsked,                                                \* PackageRequests
    OutputBuffer, EventBuffer, MaxLines, MaxOdd,             \* ClaudeTurns
    NoticeBuffer, MaxNotices, MaxStray, Commands,            \* CodexTurns
    Tests, Commanded, Notes, NumSteps, Commits, Told, Tries, MaxRevisions  \* FeatureArtifacts
ASSUME PlatformAssumption ==
    /\ {MaxCommands, MaxRestarts, PlanningRounds, ReviewRounds, MaxAtOnce, MaxRefusals} \subseteq Nat
    /\ {MaxRequests, MaxSyncs, MaxChanges, MaxAsked, MaxLines, MaxOdd, MaxNotices, MaxStray} \subseteq Nat
    /\ {OutputBuffer, EventBuffer, NoticeBuffer} \subseteq Nat \ {0} /\ Commands \subseteq {"steer", "interrupt"}
    /\ IsFiniteSet(WaitingRuns) /\ IsFiniteSet(Tests)
    /\ Commanded \subseteq Tests /\ {NumSteps, Commits, Tries, MaxRevisions} \subseteq Nat /\ Told \subseteq 1..Commits
VARIABLE part

Sm == INSTANCE SimulatedRuns WITH MaxTroubles <- MaxRestarts,
    run <- feature, feature <- codeReview, moved <- run, sessions <- rec, commands <- main, policy <- branch,
    scripts <- pulls, runner <- protected, live <- checkout, registered <- turn, cue <- note, calls <- review,
    stopper <- reviewed, taken <- plan, held <- baseline, races <- work, troubles <- merge
Wt == INSTANCE Waits WITH
    status <- feature, paused <- codeReview, turn <- run, says <- rec, retry <- main, login <- branch,
    limit <- pulls, signIn <- protected, account <- checkout, resumer <- turn, spent <- note, slips <- review,
    refusals <- reviewed
Pr == INSTANCE Projects WITH
    projects <- feature, repos <- codeReview, orders <- run, assistants <- rec, deletions <- main, links <- branch,
    remote <- pulls, call <- protected, landed <- checkout, races <- turn, requests <- note, syncs <- review
Pk == INSTANCE PackageRequests WITH
    packages <- feature, asked <- codeReview, consent <- run, told <- rec
Cl == INSTANCE ClaudeTurns WITH
    contract <- feature, process <- codeReview, session <- run, events <- rec, heard <- main, call <- branch,
    aborting <- pulls, said <- protected, odd <- checkout, races <- turn
Cx == INSTANCE CodexTurns WITH
    contract <- feature, process <- codeReview, client <- run, launch <- rec, session <- main, events <- branch,
    heard <- pulls, call <- protected, inbox <- checkout, thread <- turn, turn <- note, said <- review,
    stray <- reviewed
Fa == INSTANCE FeatureArtifacts WITH MaxTroubles <- MaxRestarts,
    docs <- feature, seen <- codeReview, calls <- run, run <- rec, published <- main, jobs <- branch,
    refused <- pulls, slips <- protected, troubles <- checkout
An == INSTANCE AgentAnswers WITH
    provider <- feature, contract <- codeReview, stage <- run, answer <- rec, result <- main, corrections <- branch

from18 == <<clean, claimed, accepted, excused, commits, troubles>>
from14 == <<plan, baseline, work, merge, from18>>
from13 == <<reviewed, from14>>
from11 == <<note, review, from13>>
from10 == <<turn, from11>>
from7 == <<pulls, protected, checkout, from10>>
from5 == <<main, branch, from7>>
No18 == clean = 0 /\ claimed = 0 /\ accepted = 0 /\ excused = 0 /\ commits = 0 /\ troubles = 0
No14 == plan = 0 /\ baseline = 0 /\ work = 0 /\ merge = 0 /\ No18
No13 == reviewed = 0 /\ No14
No11 == note = 0 /\ review = 0 /\ No13
No10 == turn = 0 /\ No11
No7 == pulls = 0 /\ protected = 0 /\ checkout = 0 /\ No10
No5 == main = 0 /\ branch = 0 /\ No7

MCInit ==
    \/ part = "workspaces" /\ Init
    \/ part = "simulation" /\ Sm!Init /\ No18
    \/ part = "waits" /\ Wt!InitWaits /\ No14
    \/ part = "projects" /\ Pr!InitProjects /\ No13
    \/ part = "packages" /\ Pk!InitPackages /\ No5
    \/ part = "claude" /\ Cl!InitClaude /\ No11
    \/ part = "codex" /\ Cx!InitCodex /\ No14
    \/ part = "artifacts" /\ Fa!InitArtifacts /\ No10
    \/ part = "answers" /\ An!InitAnswers /\ No7
MCNext ==
    /\ UNCHANGED part
    /\ \/ part = "workspaces" /\ Next
       \/ part = "simulation" /\ Sm!Next /\ UNCHANGED from18
       \/ part = "waits" /\ Wt!NextWaits /\ UNCHANGED from14
       \/ part = "projects" /\ Pr!NextProjects /\ UNCHANGED from13
       \/ part = "packages" /\ Pk!NextPackages /\ UNCHANGED from5
       \/ part = "claude" /\ Cl!NextClaude /\ UNCHANGED from11
       \/ part = "codex" /\ Cx!NextCodex /\ UNCHANGED from14
       \/ part = "artifacts" /\ Fa!NextArtifacts /\ UNCHANGED from10
       \/ part = "answers" /\ An!NextAnswers /\ UNCHANGED from7
MCSpec == MCInit /\ [][MCNext]_<<part, vars>>

(* Each part keeps what its module promises. *)
WorkspacesAreSound ==
    /\ part = "workspaces" => WorkspaceIsSound
    /\ part = "artifacts" => Fa!ArtifactsAreSound
SimulationIsSound == part = "simulation" => Sm!SimulationIsSound
WaitsAreSound == part = "waits" => Wt!WaitsAreSound
ProjectsAreSound ==
    /\ part = "projects" => Pr!ProjectsAreSound
    /\ part = "packages" => Pk!PackagesAreSound
AgentTurnsAreSound ==
    /\ part = "claude" => Cl!ClaudeTurnIsSound
    /\ part = "codex" => Cx!CodexTurnIsSound
    /\ part = "answers" => An!AnswersAreSound
=============================================================================
