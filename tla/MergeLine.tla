------------------------------ MODULE MergeLine ------------------------------
(***************************************************************************)
(* The work orders of one project at the merge gate: the stored line, the  *)
(* merges, the updates onto main that a moved main makes necessary, the    *)
(* isolated validation of what is merged, and pauses, user merges and      *)
(* restarts between any two of their steps (orchestration/merge_queue.go,  *)
(* base_update.go, the merge gate of remote_lead.go, validation/).         *)
(*                                                                         *)
(* Three goroutines may be at work on an order: its owner, which holds the *)
(* run's claim, a free one that merges without it (the sweep of the line,  *)
(* a validation handler, a recovery), and a merge the user asked for, which *)
(* nothing but mergeMu keeps from the other two.  A merge and an update    *)
(* read, call Forgejo and write in steps of their own, so they interleave. *)
(* How an update is reviewed again is ReviewRounds' subject.               *)
(***************************************************************************)
EXTENDS RunLedger

CONSTANTS
  Orders,       \* the work orders
  AutoSets,     \* which of them merge on their own (auto_after_gates): the choices
  Configs,      \* whether the project has validation commands: {TRUE}, {FALSE} or both
  MaxUpdates,   \* maxAutomaticBaseUpdates
  MaxPauses, MaxCrashes, MaxBlocks, MaxMerges, \* bounds on what users, restarts and turns do,
  MaxTroubles,  \* and on all of these together
  MaxTurns      \* the updates after which users ask for no more

ASSUME MergeAssumption ==
  /\ IsFiniteSet(Orders) /\ "none" \notin Orders /\ AutoSets \subseteq SUBSET Orders /\ Configs \subseteq BOOLEAN
  /\ MaxUpdates \in Nat \ {0}

VARIABLES
  run,       \* each order's run: status, kind, paused, from, and why it waits
  feature,   \* each work order's state
  queue,     \* the stored line: the pairs of orders of which the first joined no later
  main,      \* how often the default branch has moved
  ws,        \* the workspaces: head, approved commit, the one Forgejo merged, the one
             \* recorded as merged, and how much of main the branch has
  upd,       \* updates: the lead's checkpoint, the last verified one, intent, failures, where main was
  auto,      \* the orders that merge on their own
  validated, \* the project has validation commands
  job,       \* the validation job of a commit
  pc,        \* where the goroutines of an order are, and what they have read
  mergeMu,   \* who merges
  stopped,   \* runs that a restart has to take up again
  late,      \* (history) orders recorded as merged after an update of them had begun
  pauses, crashes, blocks, merges

vars == <<run, feature, queue, main, ws, upd, auto, validated, job, pc, mergeMu, stopped, late, pauses, crashes, blocks, merges>>

Who == {"owner", "free", "user"}
Updates == {"intent", "leave", "admit", "turn", "again", "ready"}
Steps == {"idle", "gate", "place", "merge", "read", "forge", "mark", "complete", "finish", "refused",
          "update", "validated", "recover"} \cup Updates
(* What a goroutine keeps: whether its caller alone hears of a failure, the *)
(* run's status (or why it was refused), the work order's state, the commit *)
(* RequirePassed saw and the one MergeApproved read, and where main was.    *)
Idle == [at |-> "idle", quiet |-> FALSE, saw |-> "none", was |-> "none", passed |-> 0, commit |-> 0, onto |-> -1]
Why == {"queue", "validation", "passed", "ready", "behind", "blocked", "boundary", "none"}
NoOne == <<"none", "none">>

Init ==
  /\ run = [w \in Orders |-> [status |-> "running", kind |-> "none", paused |-> FALSE,
                              from |-> "none", why |-> "none"]]
  /\ feature = [w \in Orders |-> "ready_to_merge"]
  /\ queue = {} /\ main = 0
  /\ ws = [w \in Orders |-> [head |-> 1, approved |-> 1, forged |-> 0, merged |-> 0, base |-> 0]]
  /\ upd = [w \in Orders |-> [turn |-> 0, verified |-> 0, intent |-> FALSE, failed |-> {}, onto |-> -1]]
  /\ job = [w \in Orders |-> [commit |-> 0, status |-> "none"]]
  /\ pc = [w \in Orders |-> [k \in Who |-> IF k = "owner" THEN [Idle EXCEPT !.at = "gate"] ELSE Idle]]
  /\ mergeMu = NoOne /\ stopped = {} /\ late = {} /\ validated \in Configs /\ auto \in AutoSets
  /\ pauses = 0 /\ crashes = 0 /\ blocks = 0 /\ merges = 0

----------------------------------------------------------------------------
(* Rows.                                                                   *)

Calm == pauses + crashes + blocks + merges < MaxTroubles
Ended(w) == run[w].status \in RunEnds
AtGate(r) == r.status = "waiting" /\ r.kind = "merge_gate"
Claimed(w) == pc[w]["owner"].at # "idle"
At(w, k, step) == pc[w][k].at = step
Goto(w, k, step) == pc' = [pc EXCEPT ![w][k].at = step]
End(w, k) == pc' = [pc EXCEPT ![w][k] = Idle]

Moved(r, to, kind, why) ==
  [TransitionRun([run |-> r, ivs |-> <<>>], to, kind).run EXCEPT !.why = why]

InLine(w, line) == <<w, w>> \in line
Ahead(v, w, line) == <<v, w>> \in line /\ v # w
First(w, line) == InLine(w, line) /\ \A v \in Orders : ~Ahead(v, w, line)
Only(line, S) == line \cap (S \X S)

(* LeaveMergeQueue. *)
Without(line, w) == Only(line, Orders \ {w})

(* waitRun: a run that waits for anything but the gate leaves the line, and *)
(* a blocker counts against the update that is under way. *)
waitRun(w, kind, why) ==
  /\ run' = IF Ended(w) THEN run ELSE [run EXCEPT ![w] = Moved(@, "waiting", kind, why)]
  /\ queue' = IF kind # "merge_gate" /\ ~Ended(w) THEN Without(queue, w) ELSE queue
  /\ upd' = IF kind = "blocker" /\ ~Ended(w) /\ upd[w].turn > upd[w].verified /\ feature[w] # "ready_to_merge"
            THEN [upd EXCEPT ![w].failed = @ \cup {upd[w].turn}] ELSE upd

Passed(w) == job[w].commit = ws[w].approved /\ job[w].status = "passed"

(* RequirePassed: the approved commit passed the validation of the project. *)
RequirePassed(w) == validated => Passed(w)

(* EnsureJob: a commit's job is made once. *)
EnsureJob(w) == IF job[w].commit = ws[w].approved THEN job
                ELSE [job EXCEPT ![w] = [commit |-> ws[w].approved, status |-> "pending"]]

----------------------------------------------------------------------------
(* The line.                                                               *)

(* mergeLine: an order stays while it waits at the gate, is joining, or is *)
(* at work as the first in line. *)
Stays(w, first, joining) ==
  /\ ~run[w].paused
  /\ AtGate(run[w]) \/ (run[w].status = "running" /\ first) \/ w = joining

mergeLine(line, joining) ==
  LET inFront(w) == \A v \in Orders : Ahead(v, w, line) => ~Stays(v, TRUE, joining)
  IN  Only(line, {w \in Orders : Stays(w, inFront(w), joining)})

(* JoinMergeQueue: at the back, or where it is already. *)
Joined(w) == IF InLine(w, queue) THEN queue ELSE queue \cup ({v \in Orders : InLine(v, queue) \/ v = w} \X {w})

(* Fault: a joining order does not look at who is in front. *)
mergePlaceAlone(w) == {<<w, w>>}

(* mergePlace: the line as the joining order finds it. *)
mergePlace(w) == mergeLine(Joined(w), w)

(* Fault: the line is tidied and nobody is started. *)
TidyMergeQueue ==
  /\ queue' = mergeLine(queue, "none") /\ queue' # queue
  /\ UNCHANGED <<auto, validated, pc, run, feature, main, ws, upd, job, mergeMu, stopped, late, pauses, crashes, blocks, merges>>

(* advanceMergeQueue and mergeInTurn, called when an order leaves the line *)
(* and every 15 seconds: the first in line merges if it waits its turn. *)
AdvanceMergeQueue ==
  /\ LET line == mergeLine(queue, "none")
         starts(w) == /\ First(w, line) /\ ~Claimed(w) /\ At(w, "free", "idle")
                      /\ ~run[w].paused /\ AtGate(run[w]) /\ run[w].why = "queue"
     IN  /\ queue' = line
         /\ pc' = [w \in Orders |-> IF starts(w) THEN [pc[w] EXCEPT !["free"].at = "place"] ELSE pc[w]]
  /\ <<queue', pc'>> # <<queue, pc>>
  /\ UNCHANGED <<auto, validated, run, feature, main, ws, upd, job, mergeMu, stopped, late, pauses, crashes, blocks, merges>>

----------------------------------------------------------------------------
(* The merge gate.                                                         *)

(* enterMergeGate, from the pause boundary on. *)
EnterMergeGate(w) ==
  /\ At(w, "owner", "gate")
  /\ \/ /\ run[w].paused
        /\ waitRun(w, "phase_checkpoint", "boundary") /\ End(w, "owner") /\ UNCHANGED job
     \/ /\ ~run[w].paused /\ validated
        /\ job' = EnsureJob(w) /\ waitRun(w, "merge_gate", "validation") /\ End(w, "owner")
     \/ /\ ~run[w].paused /\ ~validated /\ w \in auto
        /\ Goto(w, "owner", "place") /\ UNCHANGED <<run, queue, upd, job>>
     \/ /\ ~run[w].paused /\ ~validated /\ w \notin auto
        /\ waitRun(w, "merge_gate", "ready") /\ End(w, "owner") /\ UNCHANGED job
  /\ UNCHANGED <<auto, validated, feature, main, ws, mergeMu, stopped, late, pauses, crashes, blocks, merges>>

(* mergeAfterGates up to the merge: an order with others in front waits. *)
TakePlace(w, k) ==
  /\ At(w, k, "place")
  /\ IF feature[w] # "ready_to_merge" THEN End(w, k) /\ UNCHANGED <<run, queue, upd>>
     ELSE LET line == mergePlace(w)
          IN  IF \A v \in Orders : ~Ahead(v, w, line)
              THEN queue' = line /\ Goto(w, k, "merge") /\ UNCHANGED <<run, upd>>
              ELSE /\ queue' = line /\ End(w, k) /\ UNCHANGED upd
                   /\ run' = IF Ended(w) THEN run ELSE [run EXCEPT ![w] = Moved(@, "waiting", "merge_gate", "queue")]
  /\ UNCHANGED <<auto, validated, feature, main, ws, job, mergeMu, stopped, late, pauses, crashes, blocks, merges>>

(* Fault: the merge does not look at the validation. *)
MayMergeUnvalidated(w) == ~run[w].paused

(* merge, up to MergeApproved: only an ended or a paused run is left, and  *)
(* nothing is asked about the gate. *)
MayMerge(w) == ~run[w].paused /\ ws[w].approved # 0 /\ RequirePassed(w)

Refuse(w, k, why) ==
  /\ mergeMu' = NoOne
  /\ pc' = [pc EXCEPT ![w][k] = [Idle EXCEPT !.at = "refused", !.quiet = pc[w][k].quiet, !.saw = why]]

BeginMerge(w, k) ==
  /\ At(w, k, "merge") /\ mergeMu = NoOne
  /\ \/ Ended(w) /\ End(w, k) /\ UNCHANGED mergeMu
     \/ /\ ~Ended(w) /\ MayMerge(w) /\ mergeMu' = <<w, k>>
        /\ pc' = [pc EXCEPT ![w][k] = [@ EXCEPT !.at = "read", !.saw = run[w].status, !.was = feature[w],
                                                !.passed = ws[w].approved]]
     \/ ~Ended(w) /\ ~MayMerge(w) /\ Refuse(w, k, "other")
  /\ UNCHANGED <<auto, validated, run, feature, queue, main, ws, upd, job, stopped, late, pauses, crashes, blocks, merges>>

(* MergeApproved reads the work order and the workspace once more. *)
ReadApproved(w, k) ==
  /\ At(w, k, "read")
  /\ LET ready == feature[w] \in {"ready_to_merge", "completed"} /\ ws[w].approved # 0
     IN \/ ready /\ ws[w].merged # 0 /\ Goto(w, k, "complete") /\ UNCHANGED mergeMu
        \/ /\ ready /\ ws[w].merged = 0 /\ UNCHANGED mergeMu
           /\ pc' = [pc EXCEPT ![w][k].at = "forge", ![w][k].commit = ws[w].approved]
        \/ ~ready /\ Refuse(w, k, "other")
  /\ UNCHANGED <<auto, validated, run, feature, queue, main, ws, upd, job, stopped, late, pauses, crashes, blocks, merges>>

(* The branch must be at the commit that was read, and Forgejo merges this *)
(* head only; what it merged already it answers as merged. *)
ForgejoMerges(w, commit) ==
  /\ ws[w].head = commit
  /\ ws' = IF ws[w].forged = 0 THEN [ws EXCEPT ![w].forged = commit] ELSE ws
  /\ main' = IF ws[w].forged = 0 THEN main + 1 ELSE main

(* Forgejo may refuse a branch that main moved past, now and not the next  *)
(* time; and it may fail, with or without having merged. *)
AskForgejo(w, k) ==
  /\ At(w, k, "forge")
  /\ LET commit == pc[w][k].commit
     IN \/ ForgejoMerges(w, commit) /\ Goto(w, k, "mark") /\ UNCHANGED <<mergeMu, blocks>>
        \/ /\ ws[w].head = commit /\ ws[w].forged = 0 /\ ws[w].base < main
           /\ Refuse(w, k, "behind") /\ UNCHANGED <<main, ws, blocks>>
        \/ ws[w].head # commit /\ Refuse(w, k, "other") /\ UNCHANGED <<main, ws, blocks>>
        \/ /\ blocks < MaxBlocks /\ Calm /\ blocks' = blocks + 1 /\ Refuse(w, k, "other")
           /\ ForgejoMerges(w, commit) \/ UNCHANGED <<main, ws>>
  /\ UNCHANGED <<auto, validated, run, feature, queue, upd, job, stopped, late, pauses, crashes, merges>>

(* An update is under way: it read the workspace and is not back yet. *)
Updating(w) == pc[w]["owner"].at \in Updates

(* MarkMerged: of the commit that is still the approved one.  The merge is *)
(* in time if no update of the order has begun since it was checked. *)
InTime(w, me) == /\ me.was = "ready_to_merge" /\ feature[w] = "ready_to_merge"
                 /\ me.passed = me.commit /\ ~Updating(w)

MarkMerged(w, k) ==
  /\ At(w, k, "mark")
  /\ LET me == pc[w][k]
     IN \/ /\ ws[w].approved = me.commit /\ ws' = [ws EXCEPT ![w].merged = me.commit]
           /\ late' = IF InTime(w, me) THEN late ELSE late \cup {w}
           /\ Goto(w, k, "complete") /\ UNCHANGED mergeMu
        \/ ws[w].approved # me.commit /\ Refuse(w, k, "other") /\ UNCHANGED <<ws, late>>
  /\ UNCHANGED <<auto, validated, run, feature, queue, main, upd, job, stopped, pauses, crashes, blocks, merges>>

(* The work order is completed if the merge found it at the gate; a work   *)
(* order that has left the gate since cannot be completed. *)
CompleteFeature(w, k) ==
  /\ At(w, k, "complete")
  /\ LET at == pc[w][k].was = "ready_to_merge"
         left == feature[w] = "reviewing"
     IN \/ ~at /\ Goto(w, k, "finish") /\ UNCHANGED <<feature, mergeMu>>
        \/ at /\ ~left /\ feature' = [feature EXCEPT ![w] = "completed"] /\ Goto(w, k, "finish") /\ UNCHANGED mergeMu
        \/ at /\ left /\ Refuse(w, k, "other") /\ UNCHANGED feature
  /\ UNCHANGED <<auto, validated, run, queue, main, ws, upd, job, stopped, late, pauses, crashes, blocks, merges>>

(* Then its run, if it is as the merge found it. *)
FinishMerge(w, k) ==
  /\ At(w, k, "finish")
  /\ LET found == run[w].status = pc[w][k].saw
     IN \/ /\ found /\ run' = [run EXCEPT ![w] = Moved(@, "succeeded", "none", "none")]
           /\ queue' = Without(queue, w) /\ mergeMu' = NoOne /\ End(w, k)
        \/ ~found /\ Ended(w) /\ mergeMu' = NoOne /\ End(w, k) /\ UNCHANGED <<run, queue>>
        \/ ~found /\ ~Ended(w) /\ Refuse(w, k, "other") /\ UNCHANGED <<run, queue>>
  /\ UNCHANGED <<auto, validated, feature, main, ws, upd, job, stopped, late, pauses, crashes, blocks, merges>>

----------------------------------------------------------------------------
(* Updates onto main.                                                      *)

(* noteUpdateRefusedAgain: Forgejo refuses what main has not overtaken. *)
RefusedAgain(w) == upd[w].verified > 0 /\ upd[w].onto = main
Failed(w) == IF RefusedAgain(w) THEN upd[w].failed \cup {upd[w].verified} ELSE upd[w].failed

(* An order updates on its own until MaxUpdates of its updates failed. *)
MayUpdate(w) == Cardinality(Failed(w)) < MaxUpdates

(* After a refused merge (mergeAfterGates, and Merge for the user). *)
Refused(w, k) ==
  /\ At(w, k, "refused")
  /\ LET counted == [upd EXCEPT ![w].failed = Failed(w)]
         me == pc[w][k]
     IN  \/ /\ me.quiet /\ me.saw # "behind" /\ End(w, k) /\ UNCHANGED <<run, queue, upd>>
         \/ /\ ~me.quiet /\ me.saw # "behind"
            /\ waitRun(w, "blocker", "blocked") /\ End(w, k)
         \/ /\ ~me.quiet /\ me.saw = "behind" /\ ~MayUpdate(w) /\ upd' = counted
            /\ run' = [run EXCEPT ![w] = IF Ended(w) THEN @ ELSE Moved(@, "waiting", "blocker", "behind")]
            /\ queue' = Without(queue, w) /\ End(w, k)
         \/ /\ ~me.quiet /\ me.saw = "behind" /\ MayUpdate(w) /\ upd' = counted /\ run[w].paused
            /\ run' = [run EXCEPT ![w] = IF Ended(w) THEN @ ELSE Moved(@, "waiting", "phase_checkpoint", "behind")]
            /\ queue' = Without(queue, w) /\ End(w, k)
         \/ /\ me.saw = "behind"
            /\ me.quiet \/ (MayUpdate(w) /\ ~run[w].paused)
            /\ upd' = IF me.quiet THEN upd ELSE counted
            /\ pc' = [pc EXCEPT ![w][k] = [Idle EXCEPT !.at = "update"]] /\ UNCHANGED <<run, queue>>
  /\ UNCHANGED <<auto, validated, feature, main, ws, job, mergeMu, stopped, late, pauses, crashes, blocks, merges>>

(* Fault: an update does not ask whether its commit was merged. *)
MayStartUpdateMerged(w) ==
  /\ ~Ended(w) /\ ~run[w].paused /\ ws[w].approved # 0
  /\ feature[w] = "ready_to_merge" \/ (feature[w] = "reviewing" /\ upd[w].intent)

MayStartUpdate(w) ==
  /\ ~Ended(w) /\ ~run[w].paused /\ ws[w].approved # 0 /\ ws[w].merged = 0
  /\ feature[w] = "ready_to_merge" \/ (feature[w] = "reviewing" /\ upd[w].intent)

(* An update that cannot start: its run waits, unless only a caller hears. *)
FailUpdate(w, k) ==
  /\ End(w, k)
  /\ IF pc[w][k].quiet THEN UNCHANGED <<run, queue, upd>> ELSE waitRun(w, "blocker", "behind")

(* startBaseUpdate, in four steps.  It takes the claim and reads the run,  *)
(* the work order, the workspace and where main is. *)
StartBaseUpdate(w, k) ==
  /\ At(w, k, "update")
  /\ LET found == [Idle EXCEPT !.at = "intent", !.quiet = pc[w][k].quiet, !.saw = run[w].status,
                               !.was = feature[w], !.onto = main]
         taken == k # "owner" /\ Claimed(w)
     IN  \/ taken /\ End(w, k) /\ UNCHANGED <<run, queue, upd>>
         \/ /\ ~taken /\ MayStartUpdate(w) /\ UNCHANGED <<run, queue, upd>>
            /\ pc' = [pc EXCEPT ![w] = [j \in Who |-> IF j = "owner" THEN found ELSE IF j = k THEN Idle ELSE pc[w][j]]]
         \/ ~taken /\ ~MayStartUpdate(w) /\ FailUpdate(w, k)
  /\ UNCHANGED <<auto, validated, feature, main, ws, job, mergeMu, stopped, late, pauses, crashes, blocks, merges>>

(* The request is recorded, so that a restart takes it up again. *)
RecordIntent(w) ==
  /\ At(w, "owner", "intent")
  /\ upd' = [upd EXCEPT ![w].intent = TRUE] /\ Goto(w, "owner", "leave")
  /\ UNCHANGED <<auto, validated, run, feature, queue, main, ws, job, mergeMu, stopped, late, pauses, crashes, blocks, merges>>

(* The work order leaves the gate, if it is still there. *)
LeaveGate(w) ==
  /\ At(w, "owner", "leave")
  /\ \/ /\ pc[w]["owner"].was = "reviewing" \/ feature[w] = "ready_to_merge"
        /\ feature' = [feature EXCEPT ![w] = IF pc[w]["owner"].was = "reviewing" THEN @ ELSE "reviewing"]
        /\ Goto(w, "owner", "admit") /\ UNCHANGED <<run, queue, upd>>
     \/ /\ pc[w]["owner"].was # "reviewing" /\ feature[w] # "ready_to_merge"
        /\ FailUpdate(w, "owner") /\ UNCHANGED feature
  /\ UNCHANGED <<auto, validated, main, ws, job, mergeMu, stopped, late, pauses, crashes, blocks, merges>>

(* The turn is admitted in a transaction of its own. *)
AdmitUpdate(w) ==
  /\ At(w, "owner", "admit")
  /\ IF ~run[w].paused /\ run[w].status = pc[w]["owner"].saw /\ feature[w] = "reviewing"
     THEN /\ run' = [run EXCEPT ![w] = IF @.status = "running" THEN @ ELSE Moved(@, "running", "none", "none")]
          /\ upd' = [upd EXCEPT ![w].turn = (IF @ > upd[w].verified THEN @ ELSE upd[w].verified) + 1,
                                ![w].intent = FALSE, ![w].onto = pc[w]["owner"].onto]
          /\ pc' = [pc EXCEPT ![w]["owner"] = [Idle EXCEPT !.at = "turn"]] /\ UNCHANGED queue
     ELSE FailUpdate(w, "owner")
  /\ UNCHANGED <<auto, validated, feature, main, ws, job, mergeMu, stopped, late, pauses, crashes, blocks, merges>>

(* The lead's update is verified on a pull request that is still open, and *)
(* the approved commit is let go.  Nothing looks at how much of main it    *)
(* brought in. *)
VerifyUpdate(w) ==
  /\ At(w, "owner", "turn") /\ ws[w].forged = 0
  /\ \E base \in ws[w].base .. main :
       ws' = [ws EXCEPT ![w].head = @ + 1, ![w].approved = 0, ![w].base = base]
  /\ upd' = [upd EXCEPT ![w].verified = upd[w].turn]
  /\ Goto(w, "owner", "again")
  /\ UNCHANGED <<auto, validated, run, feature, queue, main, job, mergeMu, stopped, late, pauses, crashes, blocks, merges>>

(* It is reviewed again: the reviewer asks for changes, or the new commit  *)
(* is pinned (RecordMergeReady).  A paused run stops here. *)
ReviewAgain(w) ==
  /\ At(w, "owner", "again")
  /\ \/ /\ run[w].paused /\ ws[w].approved = 0 /\ waitRun(w, "phase_checkpoint", "boundary") /\ End(w, "owner")
        /\ UNCHANGED <<ws, blocks>>
     \/ /\ ~run[w].paused /\ ws[w].approved = 0 /\ blocks < MaxBlocks /\ Calm /\ blocks' = blocks + 1
        /\ ws' = [ws EXCEPT ![w].head = @ + 1] /\ upd' = [upd EXCEPT ![w].failed = @ \cup {upd[w].turn}]
        /\ UNCHANGED <<run, queue, pc>>
     \/ /\ ws[w].approved \in {0, ws[w].head} /\ ws' = [ws EXCEPT ![w].approved = ws[w].head]
        /\ Goto(w, "owner", "ready") /\ UNCHANGED <<run, queue, upd, blocks>>
  /\ UNCHANGED <<auto, validated, feature, main, job, mergeMu, stopped, late, pauses, crashes, merges>>

(* And the work order is at the gate again. *)
ReadyToMerge(w) ==
  /\ At(w, "owner", "ready")
  /\ feature' = [feature EXCEPT ![w] = "ready_to_merge"] /\ Goto(w, "owner", "gate")
  /\ UNCHANGED <<auto, validated, run, queue, main, ws, upd, job, mergeMu, stopped, late, pauses, crashes, blocks, merges>>

(* The update blocks: its turn fails, or its pull request was merged. *)
BlockUpdate(w) ==
  /\ pc[w]["owner"].at \in {"turn", "again"} /\ waitRun(w, "blocker", "blocked") /\ End(w, "owner")
  /\ \/ At(w, "owner", "turn") /\ ws[w].forged # 0 /\ UNCHANGED blocks
     \/ blocks < MaxBlocks /\ Calm /\ blocks' = blocks + 1
  /\ UNCHANGED <<auto, validated, feature, main, ws, job, mergeMu, stopped, late, pauses, crashes, merges>>

----------------------------------------------------------------------------
(* Validation.                                                             *)

(* completeValidationJobHandler: the result is stored, then the run is     *)
(* told, and an order that merges on its own goes on. *)
CompleteJob(w, status) ==
  /\ job[w].status = "pending" /\ At(w, "free", "idle")
  /\ status = "failed" => blocks < MaxBlocks /\ Calm
  /\ blocks' = IF status = "failed" THEN blocks + 1 ELSE blocks
  /\ job' = [job EXCEPT ![w].status = status]
  /\ IF status = "passed" THEN Goto(w, "free", "validated") ELSE UNCHANGED pc
  /\ UNCHANGED <<auto, validated, run, feature, queue, main, ws, upd, mergeMu, stopped, late, pauses, crashes, merges>>

ValidationPassed(w) ==
  /\ At(w, "free", "validated")
  /\ LET open == ~run[w].paused /\ AtGate(run[w])
         told == IF open /\ run[w].why = "validation" THEN [run[w] EXCEPT !.why = "passed"] ELSE run[w]
     IN  /\ run' = [run EXCEPT ![w] = told]
         /\ IF open /\ w \in auto /\ feature[w] = "ready_to_merge"
            THEN Goto(w, "free", "place") ELSE End(w, "free")
  /\ UNCHANGED <<auto, validated, feature, queue, main, ws, upd, job, mergeMu, stopped, late, pauses, crashes, blocks, merges>>

(* Retry: the user has a failed job run again. *)
RetryJob(w) ==
  /\ job[w].status = "failed" /\ job' = [job EXCEPT ![w].status = "pending"]
  /\ UNCHANGED <<auto, validated, run, feature, queue, main, ws, upd, pc, mergeMu, stopped, late, pauses, crashes, blocks, merges>>

----------------------------------------------------------------------------
(* Users and restarts.                                                     *)

(* Merge, at any time: nothing keeps a user from asking, and nothing but   *)
(* mergeMu makes the merge wait. *)
UserMerge(w) ==
  /\ At(w, "user", "idle") /\ merges < MaxMerges /\ Calm /\ merges' = merges + 1
  /\ pc' = [pc EXCEPT ![w]["user"] = [Idle EXCEPT !.at = "merge", !.quiet = TRUE]]
  /\ UNCHANGED <<auto, validated, run, feature, queue, main, ws, upd, job, mergeMu, stopped, late, pauses, crashes, blocks>>

Pause(w) ==
  /\ pauses < MaxPauses /\ Calm /\ ~Ended(w) /\ ~run[w].paused
  /\ run' = [run EXCEPT ![w] = Paused(@)] /\ pauses' = pauses + 1
  /\ UNCHANGED <<auto, validated, feature, queue, main, ws, upd, job, pc, mergeMu, stopped, late, crashes, blocks, merges>>

(* Resume: the wait is restored; only a phase checkpoint goes on by itself. *)
Resume(w) ==
  /\ run[w].paused /\ At(w, "free", "idle")
  /\ run' = [run EXCEPT ![w] = Unpaused(@)]
  /\ pc' = IF run'[w].kind = "phase_checkpoint" /\ ~Claimed(w)
           THEN [pc EXCEPT ![w]["free"] = [Idle EXCEPT !.at = "recover", !.quiet = TRUE]] ELSE pc
  /\ UNCHANGED <<auto, validated, feature, queue, main, ws, upd, job, mergeMu, stopped, late, pauses, crashes, blocks, merges>>

(* Continue: a blocked run is taken up again. *)
Continue(w) ==
  /\ run[w].status = "waiting" /\ run[w].kind = "blocker" /\ ~run[w].paused
  /\ ~Claimed(w) /\ At(w, "free", "idle") /\ upd[w].turn < MaxTurns
  /\ run' = [run EXCEPT ![w] = Moved(@, "running", "none", @.why)]
  /\ Goto(w, "free", "recover")
  /\ UNCHANGED <<auto, validated, feature, queue, main, ws, upd, job, mergeMu, stopped, late, pauses, crashes, blocks, merges>>

(* recoverWithDirective at the gate: recoverIdleReadyToMergeRun, the rest  *)
(* of a started update, or what is left of a merge. *)
Recover(w) ==
  /\ At(w, "free", "recover")
  /\ LET quiet == pc[w]["free"].quiet
         go(step) == Goto(w, "free", step) /\ UNCHANGED <<run, queue, upd, job>>
     IN  \/ /\ feature[w] = "completed" /\ go("merge")
         \/ /\ feature[w] # "completed" /\ run[w].paused
            /\ waitRun(w, "phase_checkpoint", "boundary") /\ End(w, "free") /\ UNCHANGED job
         \/ /\ feature[w] # "completed" /\ ~run[w].paused /\ upd[w].intent /\ go("update")
         \/ /\ feature[w] = "reviewing" /\ ~run[w].paused /\ ~upd[w].intent /\ UNCHANGED <<queue, upd, job>>
            /\ LET step == IF upd[w].verified = upd[w].turn THEN "again" ELSE "turn"
               IN  \/ Claimed(w) /\ End(w, "free") /\ UNCHANGED run
                   \/ /\ ~Claimed(w)
                      /\ pc' = [pc EXCEPT ![w]["owner"] = [Idle EXCEPT !.at = step], ![w]["free"] = Idle]
                      /\ run' = [run EXCEPT ![w] = IF @.status = "waiting" THEN Moved(@, "running", "none", "none") ELSE @]
         \/ /\ feature[w] = "ready_to_merge" /\ ~run[w].paused /\ ~upd[w].intent
            /\ LET behind == ~quiet /\ run[w].why = "behind" /\ ws[w].base < main
               IN  \/ behind /\ go("update")
                   \/ /\ ~behind /\ job' = IF validated /\ ws[w].approved # 0 THEN EnsureJob(w) ELSE job
                      /\ \/ /\ validated /\ ~Passed(w)
                            /\ waitRun(w, "merge_gate", "validation") /\ End(w, "free")
                         \/ /\ ~validated \/ Passed(w)
                            /\ w \in auto /\ UNCHANGED <<run, queue, upd>>
                            /\ pc' = [pc EXCEPT ![w]["free"] = [Idle EXCEPT !.at = "place"]]
                         \/ /\ ~validated \/ Passed(w)
                            /\ w \notin auto /\ waitRun(w, "merge_gate", "ready") /\ End(w, "free")
  /\ UNCHANGED <<auto, validated, feature, main, ws, mergeMu, stopped, late, pauses, crashes, blocks, merges>>

(* The coordinator restarts: what the goroutines were doing is gone. *)
Crash ==
  /\ crashes < MaxCrashes /\ Calm /\ crashes' = crashes + 1
  /\ pc' = [w \in Orders |-> [k \in Who |-> Idle]] /\ mergeMu' = NoOne
  /\ stopped' = {w \in Orders : \/ run[w].status = "running"
                                \/ run[w].kind = "phase_checkpoint" /\ ~run[w].paused}
  /\ UNCHANGED <<auto, validated, run, feature, queue, main, ws, upd, job, late, pauses, blocks, merges>>

RecoverRun(w) ==
  /\ w \in stopped /\ At(w, "free", "idle")
  /\ stopped' = stopped \ {w}
  /\ pc' = [pc EXCEPT ![w]["free"] = [Idle EXCEPT !.at = "recover", !.quiet = TRUE]]
  /\ UNCHANGED <<auto, validated, run, feature, queue, main, ws, upd, job, mergeMu, late, pauses, crashes, blocks, merges>>

----------------------------------------------------------------------------
Work(w, k) == \/ TakePlace(w, k) \/ BeginMerge(w, k) \/ ReadApproved(w, k) \/ AskForgejo(w, k) \/ MarkMerged(w, k)
              \/ CompleteFeature(w, k) \/ FinishMerge(w, k) \/ Refused(w, k) \/ StartBaseUpdate(w, k)
Own(w) == \/ EnterMergeGate(w) \/ RecordIntent(w) \/ LeaveGate(w) \/ AdmitUpdate(w)
          \/ VerifyUpdate(w) \/ ReviewAgain(w) \/ ReadyToMerge(w) \/ BlockUpdate(w)
Go(w) == Own(w) \/ ValidationPassed(w) \/ Recover(w) \/ RecoverRun(w) \/ \E k \in Who : Work(w, k)
User(w) == \/ UserMerge(w) \/ Pause(w) \/ Resume(w) \/ Continue(w) \/ RetryJob(w)
           \/ \E s \in {"passed", "failed"} : CompleteJob(w, s)

Next == AdvanceMergeQueue \/ Crash \/ \E w \in Orders : Go(w) \/ User(w)

(* Goroutines run, turns end (the worker's limits), and the line is looked *)
(* at every 15 seconds; users, the validation runner and restarts owe nothing. *)
Fairness == /\ WF_vars(AdvanceMergeQueue)
            /\ \A w \in Orders : /\ WF_vars(Own(w)) /\ WF_vars(ValidationPassed(w))
                                 /\ WF_vars(Recover(w)) /\ WF_vars(RecoverRun(w))
                                 /\ WF_vars(Work(w, "user")) /\ \A k \in {"owner", "free"} : SF_vars(Work(w, k))
Spec == Init /\ [][Next]_vars /\ Fairness

----------------------------------------------------------------------------
(* Nobody is in line twice, and of any two one joined before the other. *)
InOrder(line) ==
  \A v, w \in Orders : /\ <<v, w>> \in line => InLine(v, line) /\ InLine(w, line) /\ ~Ahead(w, v, line)
                       /\ InLine(v, line) /\ InLine(w, line) => <<v, w>> \in line \/ <<w, v>> \in line
                       /\ \A x \in Orders : Ahead(v, w, line) /\ Ahead(w, x, line) => Ahead(v, x, line)

TypeOK ==
  /\ \A w \in Orders :
       /\ run[w].why \in Why /\ RunValid([status |-> run[w].status, kind |-> run[w].kind, paused |-> run[w].paused,
                                          from |-> run[w].from, version |-> 1, limit |-> 0])
       /\ feature[w] \in {"ready_to_merge", "reviewing", "completed"}
       /\ ws[w].forged \in 0 .. ws[w].head /\ ws[w].approved \in 0 .. ws[w].head /\ ws[w].base \in 0 .. main
       /\ upd[w].verified <= upd[w].turn /\ upd[w].failed \subseteq 1 .. upd[w].turn
       /\ \A k \in Who : pc[w][k].at \in Steps
  /\ InOrder(queue)

(* What is recorded as merged is what Forgejo merged and what is approved,  *)
(* whoever updates the order meanwhile; main moved once for each of them;   *)
(* and an order ends only merged. *)
MergedAsApproved ==
  /\ \A w \in Orders :
       /\ ws[w].merged # 0 => ws[w].merged = ws[w].approved /\ ws[w].merged = ws[w].forged
       /\ feature[w] = "completed" \/ run[w].status = "succeeded" => ws[w].merged # 0
  /\ main = Cardinality({w \in Orders : ws[w].forged # 0})

(* With validation commands, what was merged in time is what passed them.  *)
MergedAsValidated ==
  \A w \in Orders \ late : (validated /\ ws[w].merged # 0) => job[w] = [commit |-> ws[w].merged, status |-> "passed"]

(* An order that was merged in time is left alone: no update of it is      *)
(* started any more, it stays at the gate until it is completed, whatever  *)
(* restarts and users do, and its run succeeds only with it.  (An order is *)
(* late if an update of it was under way when it was recorded as merged:   *)
(* an update leaves the gate without mergeMu, and a merge that is past its *)
(* checks does not look again.) *)
MergedIsLeftAlone ==
  \A w \in Orders \ late : ws[w].merged # 0 =>
    /\ feature[w] # "reviewing" /\ ~Updating(w) /\ ws[w].head = ws[w].merged
    /\ run[w].status = "succeeded" => feature[w] = "completed"

(* Only what was approved and validated is merged, a merged order is left  *)
(* alone, and the line, its orders and their workspaces agree. *)
LineIsSound == TypeOK /\ MergedAsApproved /\ MergedAsValidated /\ MergedIsLeftAlone

(* An order overtakes no order that waits its turn in front of it, unless  *)
(* the user merges it (a run paused at this moment has no place: merge     *)
(* refuses it). *)
FirstInLineMerges ==
  [][\A w \in Orders : \A k \in Who : (At(w, k, "place") /\ pc'[w][k].at = "merge" /\ ~run[w].paused) =>
       \A v \in Orders \ {w} : (AtGate(run[v]) /\ ~run[v].paused /\ InLine(v, queue)) => Ahead(w, v, queue)]_vars

(* The first in line does not wait its turn for ever: it merges, updates,  *)
(* blocks, or leaves the line.  (An order that a restart caught between    *)
(* two writes, completed or already reviewing, is not moved by the line:   *)
(* see NobodyHoldsTheLine.) *)
TheLineMoves ==
  \A w \in Orders :
    (First(w, queue) /\ AtGate(run[w]) /\ run[w].why = "queue") ~>
      (~(First(w, queue) /\ AtGate(run[w]) /\ run[w].why = "queue") \/ feature[w] # "ready_to_merge")

(* "one stuck work order never holds the others": an order that waits its  *)
(* turn behind another one gets on, even if every validation passes and    *)
(* is answered. *)
Behind(w) == /\ InLine(w, queue) /\ ~First(w, queue) /\ feature[w] = "ready_to_merge"
             /\ AtGate(run[w]) /\ run[w].why = "queue"
NobodyHoldsTheLine ==
  (\A w \in Orders : WF_vars(CompleteJob(w, "passed"))) => \A w \in Orders : Behind(w) ~> ~Behind(w)

=============================================================================
