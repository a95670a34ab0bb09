# Commitarium in TLA+

TLA+ models of Commitarium, checked with TLC on small instances and, where a property
matters for every instance, proved with TLAPS. Every definition is translated from the Go
source; `PROJECT.json` ("map") names the lines each one models.

## 1. The system and its parts

Commitarium runs coding agents on a project's work orders. A **coordinator** (Go, SQLite)
plans, starts and reviews agent turns; a **worker** container runs the provider process
(Codex, Claude) of a turn as an *attempt*; a Git host (Forgejo) holds repositories and pull
requests; a desktop app drives the coordinator over HTTP.

```
 desktop --HTTP--> coordinator --HTTP (put, command, force stop, supersede)--> worker
                   runs, sessions,                                             attempts, mutations,
                   session log, checkpoints <--SSE event stream, replayed---   events (journal)
                   work orders, projects  --REST--> Forgejo                    provider process
```

| part (src/internal) | state it keeps | operations | what is hard | module |
|---|---|---|---|---|
| `workerjournal` | attempt, mutation and event rows | create, transition, recover, claim, resolve, append | restarts between transactions; idempotent retries | `WorkerJournal` |
| `workerservice` | owned and unfenced sessions, event lock | PutAttempt, SendCommand, ForceStop, Supersede, supervise, startup recovery | handlers and watcher interleave; unknown delivery; timeouts; crashes | `WorkerService` |
| `workerhttp` streams, `workeringest`, `database` (worker events, turns) | replay, live channel, session log, checkpoint | IngestNext, AppendWorkerEvent, BeginWorkerTurn | slow readers, replays, two pumps, crash between streams | `EventIngest` |
| `claudeadapter`, `codexadapter`, `processsupervisor` | one process, its pipes, one session | launch, send, force stop, read | bounded channels; a stop racing the end; a launch that half succeeds | `ClaudeTurns`, `CodexTurns`, `AgentProcess` |
| `worker` (structured output), `workerhttp` (validation) | an answer and its result | resolve, validate, correct, finish | three validations with limits of their own | `AgentAnswers` |
| `orchestration` (claims, self-correction) | `active`, `corrections` | claim, release, refuse, correct, Continue | handing a claim over while others look | `RunClaim` |
| `execution`, `database` (runs, sessions, interventions), `orchestration` (planning, pause) | rows with compare-and-set | one transaction each; turns, pauses, resumes, guidance, replanning, recovery | users racing turns and each other; restarts | `RunLedger`, `RunLifecycle` |
| `orchestration` (implementation to merge), `validation` | run, rounds, gate, jobs, checks | turns of lead and reviewer, verify, preview check, base update | approvals of what has moved since; two turns that join | `ReviewRounds` |
| `orchestration/merge_queue.go`, `base_update.go` | the stored line | join, leave, sweep, merge, update | three goroutines per order; a merge beside an update; a head that vanishes | `MergeLine` |
| `orchestration` (retry, limit, sign-in waits) | waits and their deadlines | schedule, resume, clear | resumers read lists that go stale | `Waits` |
| `orchestration/runner.go`, `control.go`, `projectdeletion` | runs, sessions, commands of simulated agents | run, pause, stop, recover, retire | commands racing the end of a session | `SimulatedRuns` |
| `conversations` | a file per chat, one shared file, goals | turns, queued messages, events, cards | two files, two locks, no transaction | `Chats`, `Autopilot` |
| `workspace`, `gitworkspace`, `forgejo`, `workorder` | workspace record, checkout, branch, pull request | prepare, publish, merge, replan, return, delete | no transaction spans Git, Forgejo and SQLite | `Workspaces` |
| `project`, `gitimport`, `linkedrepo`, `projectdeletion`, `projectenvironment` | project rows, repositories, links, packages | import, provision, bind, sync, delete, approve | the same, with deletions in between | `Projects`, `PackageRequests` |
| `workflow`, `featureartifact`, `cmd/artifact` | revisioned documents | put, transition, record, pin | composed from one revision, stored over another | `FeatureArtifacts` |
| the rest | | | | section 6 |

What makes each part correct:

- *Journal*: one attempt of a session may be active; histories have no gap and are never
  rewritten; ended attempts and recorded answers are frozen; every row stays valid, also
  those the recovery UPDATE writes without validating them.
- *Worker service*: a command reaches the provider at most once per key; the recorded
  answer is true; a requested stop is not taken back; an owned process belongs to the
  conversation the journal names; a fenced attempt takes no provider output; a force stop
  is answered.
- *Event copy*: the session log is an ordered copy without repetition, however streams
  break; completion is reported only when everything is copied; a pump comes back.
- *Provider turns*: no event is skipped, a result is one the provider gave and the record
  takes, a stop that was acknowledged is kept, a launch that fails leaves nothing behind.
- *Claim*: one holder; a claim always has someone who lets it go; a refused turn goes back.
- *Lifecycle*: one agent of a run at work; no turn is admitted to a paused run; what is
  implemented is the version that was approved; guidance is answered.
- *Rounds and line*: what is merged is the commit that was approved and verified, in the
  order of the line; rounds end; the line moves.
- *Chats*: a message enters the transcript once, none is dropped, what is queued is sent.
  *Autopilot*: one work order per item, no decided card left behind, an early start waits.
- *Workspaces, projects, documents*: only what was reviewed is merged, nothing merged is
  forgotten, what is deleted is gone, what is ready is real, verdicts are of their commit.

## 2. Modules

An `MC...` module holds model values, symmetry or a combination of parts for TLC. A
`...Proofs` module holds theorems about the module it is named for. An operator whose
comment starts with "Fault:" is never part of a specification: it is a plausible mistake in
the definition that follows it, and `PROJECT.json` ("mutants") names the property that TLC
finds violated when the definition is replaced by it.

**WorkerJournal.** A variable per column; one action per transaction. Refused and repeated
operations change no row, hence are stuttering; the `...Accepts` operators say when the
store accepts. `PrepareInterruptedRecovery` is the whole startup transaction: it fences what
cannot be resumed and settles pending mutations. It is also the abstract specification of
the service.

**WorkerService**, over an INSTANCE of the journal. A step is one journal transaction, one
read another goroutine can invalidate, or one call to the provider. `put[a]`, `handler[m]`,
`watcher[a]` are the program counters of `PutAttempt`, of the call that claimed mutation
`m`, and of the `supervise` goroutine, with what each has read. `EventMuFree` is `eventMu`.
`Abandon` is a client that disconnects while the handler still depends on the request's
context. A crash keeps the journal and clears the rest.

**EventIngest**, which implements **OrderedCopy**. One session and its attempts. `stream[p]`
is both ends of a pump's SSE stream: replay, live channel (closed when full), frames in
flight, how the body ended. `pump[p]` is `Pump.Run`. `IngestNext` stores an event with its
checkpoint in one transaction. `BeginTurn` is the compare-and-set admission of the next
attempt; `PrepareContinuation` is `continueFailedAttempt`. An attempt's history is
append-only (proved of the journal), so an event is its sequence number; the filter is the
identity as `cmd/coordinator` installs it.

**RunClaim.** Processes are goroutines of one run. `active` and `pending` are the maps
`starter.active` and `starter.corrections`; `claimed` says who has to release. `Agents` has
one element for ordinary turns and two for an implementation with independent acceptance
tests, whose turns run without the claim.

**RunLedger, RunLifecycle.** `RunLedger` has the transactions on a run's rows as functions
from a database value to a database value, refusals included, and is shared by the three
modules on a run. `RunLifecycle` has the rows (`db`), the goroutine that holds the claim
(`live`), the requests of users with what each has read, and what each turn's provider is
going to say. A step lies between two reads of the database that another actor can get in
between; a handler that makes several transactions in a row under the claim is one action
that composes them, each with its own refusal.

**ReviewRounds.** One order from implementation to merge. Commits are what the branch and
main hold; `approved` is what the reviewer's report named. `Admit`, `TurnEnds`, `Verify` are
the three moments of a turn; `Join` is the second of two parallel turns; `Push` somebody
else's commit; trouble (pauses, refusals, pushes, restarts) comes between any two steps.

**MergeLine.** The orders of a project at the gate. Up to three goroutines are at work on an
order: its owner, with the claim; a free one without (the sweep, a validation handler, a
recovery), of which the model has one at a time; and a merge the user asked for, at any moment,
also while the order is under review. `Work(w,k)` is the next step of any. A merge is `BeginMerge`
(which, like `merge`, asks only whether the run is ended or paused), `ReadApproved`, `AskForgejo`,
`MarkMerged`, `CompleteFeature`, `FinishMerge`, under `mergeMu`; an update is `StartBaseUpdate`
(its reads), `RecordIntent`, `LeaveGate`, `AdmitUpdate`, under the claim and without `mergeMu`: so
they interleave. Reads of the database in a row, with no call between them, are one step, and
Forgejo may refuse a head once and take it the next time. `late` remembers the orders whose merge
was recorded after an update had read them, or of a commit other than the one that was checked
(below). The line is what the rows of `merge_queue` say, sorted by `joined_at` and row: the pairs
of orders of which the first joined no later. `<<w,w>>` is in it exactly while `w` has a row.

**Chats, Autopilot.** In `Chats` an operation locks one chat, reads both files, asks the
worker, and writes chat, shared file and worker in separate steps. In `Autopilot` the
watcher decides under the lock and applies its cards after it, through the handlers the
user's click uses; the user, the assistant and the orders move in between.

**Parts checked together in `MCPlatform`.** Nine parts that share no state; a behaviour
is one of them each, and takes the places of `Workspaces`' variables so that one run
checks them all.
- `Workspaces`: checkout, branch, pull request, record; three calls (work, merge, clean),
  each a program of single effects on Git, Forgejo and SQLite, with a crash or a moved main
  between any two. A commit is the set of changes it holds. `excused` remembers which of
  the disagreements of section 4 a behaviour has run into; the property then stops asking
  for what that disagreement takes away.
- `Projects`, `PackageRequests`: projects, repositories at the host, links, deletions;
  system packages asked for by runs. `races` plays the part of `excused`.
- `SimulatedRuns`: runner, controller, run stopper and the scripted sessions, with restarts.
- `Waits`: retry, limit and sign-in waits, each with its resumer, which acts on a list it
  read earlier. A behaviour is followed to its first slip (section 4).
- `ClaudeTurns`, `CodexTurns`: a turn of each adapter over `AgentProcess`, with bounded
  channels, one or more callers that stop or steer, and the races of the Go `select`.
- `FeatureArtifacts`: the checklist and the acceptance tests with all their writers.
- `AgentAnswers`: which structured answers pass the contract, the adapter and the record.

## 3. Runs

| run | bounds | properties | states |
|---|---|---|---|
| `journal` | 2 attempts of a session, 1 key, 2 conversations, 2 events | `OneNonterminalPerSession`, `HistoryContiguous`, `RowsValid`, `TerminalIsFinal`; no deadlock | 280,316 |
| `worker_commands` | 1 attempt, 2 keys, pause and stop, 3 events, 1 restart | `ServiceIsSound`, `StopIsIrrevocable`, `FencedHistory` | 2,469,420 |
| `worker_requests` | 1 attempt, 1 key, all six kinds, 3 events, 1 restart, 1 correction | `AnswersAreHonest`, `ImplementsJournal`, `ForceStopIsAnswered` | 149,800 |
| `ingest` | 2 pumps, 2 attempts of 2 events, buffers of 1, 1 fault, recovery successors | `CopyIsSound`, `CompletionIsComplete`, `ImplementsOrderedCopy`, `PumpReturns` | 427,452 |
| `claim_serial` | 3 goroutines; one agent with 2 Continues and 2 corrections, or two agents with 1 Continue | `OneHolder`, `ClaimHasOwner`, `NeverFreeAndBlocked`, `RefusedTurnGoesBack` | 170,038 |
| `lifecycle` | one pause, resume, guidance and reply; round limit 2, 1 return, 1 fault | `LedgerIsSound`, `OneAgentAtWork`, `ImplementedPlanWasApproved`, `PauseIsAGate`, `InterventionsAreAnswered` | 803,617 |
| `merge_line` | 2 orders, with and without validation, 1 update, 2 troubles (user merge, pause, restart, blocker) | `LineIsSound`, `FirstInLineMerges`, `TheLineMoves` | 241,035 |
| `merge_line_held` | 2 orders that merge on their own, 1 restart | `NobodyHoldsTheLine`, violated: section 4 | |
| `review_rounds` | 2 rounds, 1 fix, 2 troubles, 1 Continue, 1 update | `RoundsAreSound`, `ApprovedWasReviewed`, `RoundsEnd` | 308,864 |
| `chats` | 2 chats, 2 messages, 1 event, 1 retry, 1 back-off, 1 crash | `ChatsAreSound`, `NothingIsDropped`, `QueuedIsSent` | 545,808 |
| `autopilot` | 4 orders, 1 item, 2 cards of six kinds, 1 act, failure and restart | `AutopilotIsSound`, `NothingIsLeftBehind`, `EarlyWaits` | 1,447,460 |
| `platform` | the nine parts; see below | `WorkspacesAreSound`, `ProjectsAreSound`, `SimulationIsSound`, `WaitsAreSound`, `AgentTurnsAreSound` | 4,284,601 |

A property that ends in `...Sound` is a conjunction of named parts, each with a comment in
its module. `ServiceIsSound` is at-most-once delivery and the owned conversation; `CopyIsSound`
a faithful copy and nothing falling between replay and live; `LedgerIsSound` valid rows, a
pause that remembers its wait, one unfinished intervention, versions that were asked for;
`LineIsSound` merged as approved and, in time, as validated and left alone, and main moved once per merge; `RoundsAreSound` merged is
approved, rounds follow one another, running is owned, fixes are limited; `ChatsAreSound`
messages enter once; `AutopilotIsSound` one order per item and no order touched that is not
the assistant's; `WorkspacesAreSound` is of the parts `Workspaces` and `FeatureArtifacts`,
`ProjectsAreSound` of `Projects` and `PackageRequests`, `AgentTurnsAreSound` of both adapters
and the answers.

*Why these bounds.* The journal relates at most two attempts (one session's old and new)
and one mutation to one attempt. A second key matters only where two requests race, which
`worker_commands` has, and the proofs of section 5 have no bound. Buffers of one event already fill, and two pumps suffice
for a race on the checkpoint. Three goroutines are a turn, its correction's successor and a
Continue. In `lifecycle` one request of each kind meets every step of the others; two rounds
reach the limit and go past it. Two orders are a head and the one behind it. Two chats are
the one written and the one that writes in between. Limits that are bounds of the model and
not of the code are named `Max...` or commented as such where they are declared. These constants are
the code's own, some with a smaller value: `MaxCorrections` 2, `Retries` 1 (code 2), `Backoffs`
1 (3), `MaxFixes` 1 (3), `MaxUpdates` of `MergeLine` 1 (3), `MaxContinues` of `Autopilot` 1 (8), `Tries` 2 (5).
In `platform` each part has one trouble (restart, moved main, failed call), one move of the
user's per kind, two agents at once where agents compete, buffers of one, one acceptance
test, one checklist step and two commits.

Larger instances that were checked apart from these runs, without violation: lifecycle with
two guidances (11.96 M states), and its inductive invariant with two faults (3.36 M);
`Workspaces` with two troubles (3.11 M); `Projects` with three requests (1.23 M); `SimulatedRuns` with two
restarts (5.85 M); `ClaudeTurns` with four lines (4.49 M); `CodexTurns` with both commands
(2.84 M); `Waits` with two runs (707 k); `FeatureArtifacts` with one more revision (1.30 M);
`MergeLine` with three troubles (1.94 M); `Autopilot` with three cards (6.4 M) or two acts (5.1 M).

`CHECK_DEADLOCK FALSE` is given where the bounds or the end of all work legitimately stop
the system; the journal run checks deadlock.

*Fairness.* Goroutines that have a next step take it; nothing obliges a
client to call, a user to answer, or a crashed worker to be started again (the compose files give it no
restart policy).
- `WorkerService`: weak fairness of recovery, launches, watchers and handlers.
  `ForceStopIsAnswered` therefore asks for an answer only of a worker that is up.
- `EventIngest`: weak fairness of a stream's server, its pump and its reconnection; `GiveUp`
  is strongly fair, since `Pump.Run` fixes its deadline when it starts and so cannot retry for ever.
- `RunClaim`: weak fairness of what a goroutine does after its turn.
- `RunLifecycle`: weak fairness of the goroutine that holds the claim, of a recovery, of each
  request in progress, and of the end of a turn, which the worker bounds.
- `MergeLine`: weak fairness of the periodic sweep, owners, recoveries and a user's merge once asked
  for; strong fairness of the merges and updates of owners and free goroutines, whose lock and
  claim others take and give back.
- `ReviewRounds`: weak fairness of the end of a turn, of admission, verification and join, and
  of a preview check that reports.
- `Chats`: weak fairness of a lock's holder, the end of a turn, the periodic look and a due
  retry; strong for a look at a troubled chat, which others may keep locking.

## 4. Where code and documentation disagree

One disagreement is kept as a violation run; `PROJECT.json` ("findings") quotes the lines.

- `merge_line_held` (`merge_queue.go:138`, against `docs/adr/0036`): a restart while the first
  in line merges leaves a stored reason that the sweep does not take up; the line stands.

### Other disagreements

Seen while modelling; each is reachable in the module named, most were shown by TLC, and the
properties above exclude exactly these cases by a named condition where they need to.

*Worker* (`WorkerService`, `EventIngest`)
- `service.go:404`, against the comment at 603: a force stop or command that arrives while
  `PutAttempt` is launching finds no owned session and marks the attempt indeterminate; a
  supersede is then accepted and a successor launched while the first provider still runs.
- `events.go:545`, against `docs/worker-api.md:457`: the terminal event and the terminal state
  are two transactions; after a restart between them the attempt is resumed and records more.
- `service.go:925`, against `workerjournal/store.go:102`: a mutation is resolved as of unknown
  delivery in one transaction and the attempt fenced in the next; after a restart between
  them the attempt is resumed.
- `service.go:544`, against the comment at 566: the read after the claim still depends on the
  request; a client that disconnects there leaves the mutation pending until a restart.
- `service.go:984`, against the comment at 77: a command that moves the attempt between the
  read and the compare-and-set of the watcher's mark makes the mark fail unnoticed.
- `workeringest/pump.go:143`, against the comment at 100: a reconnecting pump reloads the
  session's checkpoint and may follow a successor that another observer admitted.
- `remote_lead.go:4634`, against `docs/coordinator-api.md:3362`: a recovery successor is admitted
  without copying the rest of the ended attempt's events; nothing opens that stream again.

*Adapters* (`ClaudeTurns`, `CodexTurns`, `AgentAnswers`)
- A stop between Claude's terminal result and the process's exit discards the completed
  result (`session.go:230`); a stop that sets its flag after `run` read it is acknowledged
  although the turn completes; Codex's `select` may take the closed client before a queued
  `turn/completed` (`session.go:210`, 235).
- `supervisor.go:414`, against "no lookup by a possibly stale process ID" (`worker-api.md`): a
  signal between `Wait`'s reaping and `exited` addresses a group that is gone.
- A summary above 64 KB, a failed turn's text above 4096 bytes, a toolchain proposal with
  more than 16 tools, a blank service name or an invalid port pass the resolver and
  `Result.Validate`, and `TerminalResult.Validate` rejects them: the attempt ends indeterminate.

*Claims* (`RunClaim`)
- `self_correction.go:149`, against 137: with two agents, a second refusal replaces the first's
  pending correction; the run stays claimed by nobody. `self_correction.go:165`, against 136:
  one correction deletes the claim the other relies on.
- `remote_lead.go:1102`, against the comment below it and `coordinator-api.md:1951`: a Continue
  between "blocker noted" and "claim released" moves the run to running, meets the claim and
  takes that for success; the holder releases a running run nobody works on.

*Lifecycle* (`RunLifecycle`; line numbers of `coordinator-api.md` where docs hold otherwise)
- Guidance queued on a blocked run whose session is still starting or being paused is a dead
  end (1951, 2064). A failed intervention turn leaves it being answered and its session paused.
- `Resume` decides from an intervention it read before another was queued; a Continue
  afterwards leaves the run running with nobody (2108). The same between the feature's
  transition and `BeginReplanningTurn`.
- A pause between the paused-check and a chained admission turns a safe boundary into a
  blocker (2100); likewise between the feature's move and the implementation's admission.
- Guidance the lead answers after its first proposal makes `StartPlanningReview` impossible (3071).
- `remote_lead.go:1634`, "The durable queue is therefore enough": an implementation start whose
  admission the guidance has just refused releases the claim (3651) without advancing.
- A restart with queued guidance and no active session is not among the recoverable runs; a
  restart during a parallel implementation is blocked as contradictory (`recovery.go:85`).
- `recoverySuccessorAttemptID` numbers by what it finds (4736, 6719).

*Review and merge* (`ReviewRounds`, `MergeLine`)
- `base_update.go:287`, against the comment at 163 ("cannot be merged meanwhile"): an update leaves the
  gate without `mergeMu`, and a merge past its checks does not look again. If Forgejo refused the
  first merge and takes the second, a user's merge is made and recorded while the order is
  reviewing and its update about to be admitted; the work order is then not completed and the
  update blocks at its verification. TLC reaches it with one user merge and no trouble; the order is
  `late`.
- A merge that looked at the validation and then, before `MergeApproved` reads the order again, sees
  an update replace the approved commit merges one that no validation has seen
  (`remote_lead.go:1450`, `workspace/service.go:340`). A merge that found the order under review and
  at the gate when it reads it again ends the run and leaves the work order uncompleted
  (`remote_lead.go:1497`). After a crash between Forgejo's merge and `MarkMerged` an update may
  start on a merged pull request, and blocks when it is verified. The order is `late` in the first
  two, and `MergedAsValidated` and `MergedIsLeftAlone` (parts of `LineIsSound`) do not speak of late ones.
- A run paused in line is dropped by the next sweep and never rejoins; one paused at its place
  gets place 0 and blocks; a validation that passes while paused leaves nobody to merge on resume.
- A validation that fails for the head after an update holds the line.
- A crash between the feature's completion and the run's leaves a completed order in line; one
  between the feature's move to reviewing and the update's admission leaves neither.
- A review whose round was forgotten over a restart is asked again (`remote_lead.go:5621`).

*Conversations* (`Chats`, `Autopilot`)
- A crash, or an error of `Workers()`, between the write of "running" and `PutAttempt`
  (`turn.go:201`) leaves the chat running for ever. `turn.go:93`, against `coordinator-api.md:2752`: a
  message sent just after a turn ended starts a turn ahead of the one queued before it.
- `StopGoal` is undone by a concurrent `Resolve` of another chat (`chats.go:171`). A crash between
  an event's record and its telling loses it; between the two files it is told twice. A
  sign-in's past `RetryAt` repeats the retry each tick (about 2777).
- A crash between `features.Create` and `LinkWorkOrder` lets the next card of the item create a
  second order (ADR-0023: "at most one work order per item"); so does an approval by user and
  autopilot at once. A crash after a card is recorded as tried leaves it to nobody; one between
  its resolution and the outcome loses the held start, one between start and resolution
  leaves an early start unheld. A user who approves a held card meanwhile loses the hold
  (`events.go:309`). Cards decided in the same look still apply after `StopGoal`, and
  a replacement decided together with a close goes on when the close fails. Of two early starts of one
  order, decided in one look, the second is settled as not needed and is yet the latest, so what the
  first one follows no longer holds the order (`goal.go:691`, against `coordinator-api.md:1851`; shown
  with two such cards and two acts of the user, and left out of `EarlyWaits` by `OnlyStart`). The early
  planner's hold and the autopilot's look may race on the ceiling (ADR-0037:72; by reading).

*Waits* (`Waits`: a behaviour is followed to its first slip)
- "paused": the limit wait of a paused run is cleared by a recovery that is not allowed
  (`usage_limit.go:68`); a sign-in while paused clears the sign-in and keeps the run's wait
  (`sign_in.go:159`), both against "A paused run keeps its wait for when it is unpaused".
- "too early": a sign-in, or a reset that has passed, between `RecordLoginWait` and `waitRun`
  clears the wait that is about to be noted (`remote_lead.go:7086`).
- "stale": a retry started from a listed row that changed meanwhile is a fourth one.
- "refused": a recovery that cannot start has already cleared the waits (`remote_lead.go:1070`).
- A restart takes waiting runs with active sessions up at once, and the resumer then clears the row,
  so "up to 3 times" counts afresh.

*Simulated runs* (`SimulatedRuns`)
- An applied stop is forgotten by a restart between the session's end and its completion. A
  command sent before re-registration is rejected by the controller while recovery
  quarantines it with another error, and session and run fail (`runner.go:853`). Retiring a
  session that is just starting makes the runner fail it or work on in a stopped run.
  A pause racing the session's end records a completed session as failed (`runner.go:662`); an
  abort of a taken pause rolls back, and the acknowledgement then fails the session. A
  rejected deletion stop retried under its key waits for an end that never comes
  (`runs.go:169`). After a restart each role's script starts again (`scripted.go:96`, against 3476).

*Workspaces, projects, documents*
- A crash between `EnsureBranch` and `MarkBranchReady` followed by Back to Ready leaves the
  branch at its old base (`reset.go:44`); every later publication conflicts; the same of a pull request
  created and not recorded. Back to Ready takes no durable claim, and `FinishReturnToReady`
  deletes whatever record is there: that of a started, even of a merged order
  (`feature_reset_store.go:18`, 81). A clarification is stuck when main moves between
  reservation and clone. Replanning while a merge is in flight makes `MarkMerged` conflict. A
  crash between undraft and merge makes replanning refuse. A failed deletion keeps its
  claim until it is retried.
- A project is bound to a repository that was deleted since it was verified ("bound late"); a
  repository provisioned while its project is deleted stays ("left behind"); the ID of a
  deleted project can be imported again and never deleted again
  (`project_deletion_store.go:47`); unlinking during a sync is undone by it with an empty URL
  (`linkedrepo.go:231`); links outlive the project; a retried import bundles anew and may conflict.
- A test that fails again with the same note on the same commit, or is started a third time,
  is refused for good as a repeated key, against the comment at `cmd/artifact/main.go:160`. Pinning reads one
  revision and writes over a later one (`workflow/service.go:209`): a result in between is lost.
  A job of an older plan version or run records its verdicts on the newer one's tests
  (244). `docs/feature-artifacts.md:145` says every test is reset to pending;
  `resetAcceptanceTests` keeps those not applicable. The brief may be edited in any state and
  the edit overwritten by the assistant's.

## 5. Proofs

Each theorem is of the specification, for every value of the constants under the
assumptions its module names. In every proof the invariant to be shown is not inductive; the
inductive one (`IInv`) was first checked by TLC on the run's instance. The non-temporal steps
are one lemma per action (`...Sound`, `...Keeps...`), and the last step of a theorem combines
them with PTL.

`WorkerJournalProofs` (`NoID` is no provider session, "none" is no request, `MaxEvents` is a
natural number). `TypeOK`, `OneNonterminalPerSession`, `HistoryContiguous` and `RowsValid`
always hold, and no step violates `TerminalIsFinal`, `ResolutionIsFinal`,
`ConversationIsStable` or `HistoryAppendOnly`. `IInv` is their conjunction with `NoRowNoData` (a
reference without a row has no provider session and no result). The recovery UPDATE does not
validate what it writes, so `RowsValid` afterwards rests on unfinished rows having had no
result before, and on a resumed row already having its provider session. The action properties
follow from `StepEffects`, which says what any step can do to one attempt's row.

`WorkerServiceProofs`. `ServiceIsSound`, `AnswersAreHonest`, `StopIsIrrevocable`,
`FencedHistory`, and `ImplementsJournal`: each step of the service is a transaction of the
journal or changes no row. The journal's theorems are therefore cited through the instance
and hold of the service as well (`ServiceKeepsJournal`). What the service's own invariant adds:
`CallsAreKept` (a mutation is pending exactly while its call runs, nothing is delivered
before the send, and what a call is about to answer is already true), `SessionsAreKept` (a
launch, a recovery and an owned session exclude one another), and `Asleep` (a stopped worker
has none of them). The gap between reading an attempt and changing it is where the proof has
its cases: the compare-and-set either finds what was read or leaves the row.

`EventIngestProofs`. `CopyIsSound`, `CompletionIsComplete`, and `ImplementsOrderedCopy`, for any
pumps, attempts, buffers and faults. `Streams` says that what is on the wire, still to be
replayed and live are three consecutive stretches of one history, the first beginning after
the pump's checkpoint or before it; `Accepted` and `LogEnds` tie checkpoint and log;
`AdmissionHasNext` says what a turn's admission has copied. What holds of the log follows from
the step lemma of the refinement (`StepCopies`): only the next event is ever appended.

`RunClaimProofs`. For any number of goroutines, Continues and corrections, *when one agent
works at a time* (`~Parallel`): `OneHolder`, `ClaimHasOwner`, `NeverFreeAndBlocked`. `IInv` adds
what each place says of the goroutine there (`PlacesOfHolders`), that the run is claimed
exactly while it has a holder (`ClaimedByHolder`), and that a pending correction belongs to the
holder itself (`PendingIsHolders`). The last is why the assumption is needed: with two agents
the pending correction can be another goroutine's, and `ClaimHasOwner` then fails (section 4).

`RunLifecycleProofs` (`RoundLimit` is a natural number). `LedgerIsSound`, `OneAgentAtWork` and
`PauseIsAGate`, for any number of requests, turns, failures and restarts. `IInv` conjoins rows
that are valid (`RowsOK`), what an unfinished intervention rests on (`InterventionsHold`), one session at
work (`OneAtWork`), that the goroutine's place fits the rows (`RightPlace`), that the session at
work is the one the rows call for (`WorkIsExpected`), that somebody watches it (`Watched`), and that
what a request remembers of its read was once true (`MemoryOK`). Each transaction of
`RunLedger` has a lemma of what it does to a valid database; each handler, which composes
several with their refusals, is shown to leave a sound one whichever refuses. Why it holds:
every admission requires that no session is at work, so the second agent can only come from
two admissions that both read before either wrote, and those are under the claim; a
restart ignores the errors of the recovery, so what is at work must be expected *before* it
crashes; a run that is not paused while guidance is unfinished came from a resume that decided from an older
read (`overrun`), and nothing after it admits a turn.

The same module shows `ImplementedPlanWasApproved` on top of `IInv`, for any number of
submissions, returns and plan versions. `AInv` adds `Lawful` (a published plan
is one the reviewer approved, and a checkpoint holds only what may be taken up), `Judged` (a
reviewer who was heard to approve is known to have), `Starts` (what the goroutine is about to
start names the plan it is for), and that the work at hand is the last workflow attempt. Why it
holds: an approval turn names one submission, only that submission can be published by it, only
a published plan gets an implementation turn, later attempts take the same plan over, and a new
submission needs a lead who plans, which a published plan rules out until a replan takes it
back.

`ChatsProofs` (a message is not an event, each is for one chat; `Retries`, `Backoffs` and
`MaxLosses` are natural numbers). `ChatsAreSound` and `NothingIsDropped`, for any number of chats,
messages, retries and crashes. The two files are written one after the other, so `IInv` says of
every holder how far it is (`HolderOK`): until the chat's file is written it differs only from
there on, the shared file has for this chat either what the holder read or what it leaves, and
what came is kept with both. `merge` writes the shared file only where the holder changed it; it is
right because nobody else changes this chat's entry, which is the second of the three.
`Carries` is what each end of a turn must do to the file (same messages, nothing fewer kept), and
`Follows` what each operation does after its refresh.

`ReviewRoundsProofs` (`RoundLimit` and `MaxFixes` are natural numbers). `ApprovedWasReviewed` and
the whole of `RoundsAreSound` (`MergedIsApproved`, `RoundsFollow` up to the limit, `RunningIsOwned`,
`FixesAreLimited`), for any number of rounds, fixes, pauses, refusals, pushes, updates and
restarts. Only the rows say, at any later moment, that the approval the lead was told
of still stands, so `IInv` is about who may be at work beside whom: while the lead answers an
approval, or a commit is approved, no review is under way or about to start (`ReadinessHolds`,
`ApprovalHolds`, `ReviewStarts`); only an update of main may run then, and its commit lies beyond
what was approved, so that verifying it takes the approval back. Acceptance results are of the
pinned commit or of one that cannot be approved any more (`TestsFit`). That the first review is
launched once rests on `ImplementationsFit`: while the reviewer writes the tests, the lead's
turn is not yet among the verified ones. Lemmas say what each way a handler can end keeps
(`StopKeeps`, `LaunchReviewKeeps`, `LaunchAnswerKeeps`, `GateKeeps`), and each handler is shown to
end in one of them. Three more invariants are proved over `IInv`, each with the ones before it:
- `Owned`: a running run does not hang. A turn at work is followed by its goroutine
  (`WorkersOwned`), and the second of two parallel turns always finds what the first left at the
  join (`AcceptanceFits`, `FirstTurns`), so whoever gives a place up has started the next turn or put
  the run to wait. `Forgotten` is the one case it excepts: a restart that found the lead done and
  not yet verified.
- `Numbered`: turns have numbers and those in the log have a bound, so an update has a next one
  (`NextUpdateIs`, from the well-foundedness of the natural numbers).
- `Checked`: only the latest check of the approved commit is open, a run that is ready was seen to
  pass, and one that is being fixed is still within the limit (`Spared`). The failure that goes
  past the limit closes the last open check, so there is at most one of it.

`MergeLineProofs` (`Orders` is finite, `MaxUpdates` is positive). `LineIsSound`
and `FirstInLineMerges`, for any number of orders, updates, pauses, restarts
and merges that users ask for at any moment, with merge and update in their separate steps.
`IInv` says what each goroutine of an order may have read and what is still so: only the holder of
`mergeMu` is past `BeginMerge`, what it checked had passed the validation if it is still approved, and
what it takes to Forgejo is still approved if the branch is still there (`MergeFits`, `CommitFits`);
what Forgejo merged stays the branch's head and the approved commit, since a merged pull request
verifies no update (`ForgedFits`); an order merged in time stays where the merge left it, since an
update that had not read it finds the merge (`InTimeFits`); an order under review again has an update
begun (`Begun`), so that a failed one is counted under a number that exists. That
main has moved once per merged order is a cardinality, which is why `Orders` is finite. For the
line, every operation is a restriction of the order or puts one order behind the others
(`OnlyKeepsOrder`, `JoinedKeepsOrder`); `mergeLine` only drops orders that neither wait at the gate
nor work as the first, so who finds nobody in front of it in `mergePlace` is in front of all
that wait (`NobodyIsPassed`); and no other step leads from a place to a merge
(`MergeBeginsAtAPlace`).

Only model-checked: `Autopilot` (a look folds its decisions over the cards, and what a fold
returns for every list is induction over data: the library's induction theorems take an operator
as a parameter, which the provers cannot instantiate); the parts of `MCPlatform`, for which no
proof has been written; `RunClaim` with two agents, which the run checks without refusals; and all
liveness (`ForceStopIsAnswered`, `PumpReturns`, `RefusedTurnGoesBack`,
`InterventionsAreAnswered`, `TheLineMoves`, `RoundsEnd`, `QueuedIsSent`), which is outside the
prover's reach like ENABLED.

## 6. Not modelled

`PROJECT.json` lists every part with the reason. Whole parts that are left out: the
in-memory brokers for UI clients, the HTTP routing around the services, vision documents,
toolchains, the model catalogue, the assistant's prompts, marketplace and releases, secrets,
usage, the desktop host, the user interface and deployment.

Inside the modelled parts: message previews, SSE heartbeats, prompts and attachments, the
wording and (but for `AgentAnswers`) the size limits of payloads, failures of the SQLite files
themselves (a transaction happens or the process crashes), authentication, and clocks (a
timeout may fire at any time its timer runs). Two observers of one turn that race on the
session's compare-and-sets (`remote_lead.go:4577`) are not modelled: `EventIngest` admits one
recovery at a time. `Waits` leaves out the policy that a recovery needs approval;
`Workspaces` has one work slot per order, so an old run's call does not overlap a new start's;
`FeatureArtifacts` assumes that the agents' calls have ended before an order is replanned, and
models acceptance tests, which only runs started with them still have (ADR-031). In the
adapters a kill is assumed to end the process group and close its pipes, and the reservation of an
attempt is the service's.

Where a definition is coarser than its code, on purpose:
- `ReviewRounds`: the limit of rounds is set (0, no limit, is not modelled); `Pinned` forgets
  acceptance results only for another commit; an update that is already recorded as verified is
  verified again; a merge and an update are one step each and begin at the gate, because
  `MergeLine` is about how they interleave.
- `EventIngest`: `FullyRecorded` does not ask for the outcome and the provider session
  (`remote_lead.go:4298`), so it allows more. `Chats`: `last`, the prompt kept for another try, is
  emptied when no try is left, where the code keeps a text it no longer uses.
- `Waits`: a retry whose start fails with an error keeps its row as it was listed, and a recovery that
  finds its run already running does nothing; neither is a step. `SimulatedRuns`: a command's read of
  the session and its compare-and-set are one step. `Projects`: deletion does not refuse unsafe or
  colliding workspaces, nor a key used for another project.
- `Autopilot`: "implementing" is also a feature under review; `Builds` is false in the runs; a goal
  stopped between a card's approval and its effect counts as having handed the order over.
- `WorkerService`: a command waits for a correction as for `live.mu`; a launch of uncertain outcome
  leaves the process running or not. `NothingIsLeftBehind` and `InterventionsAreAnswered` say
  nothing after the faults they name.

## 7. Plan

1. Proofs of the bounded parts whose state is flat (`AgentAnswers`, `PackageRequests`).
2. `Workspaces`: what is merged was reviewed, as a theorem.
3. Two observers of one turn: the session's compare-and-sets, composed with `EventIngest`.
