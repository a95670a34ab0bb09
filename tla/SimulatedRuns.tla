------------------------------ MODULE SimulatedRuns ------------------------------
(***************************************************************************)
(* The simulated runs, the coordinator's default mode (orchestration's     *)
(* Runner and Controller over worker's scripted sessions).  One goroutine  *)
(* takes a run through planning, implementation and review, a session at a *)
(* time; the user's commands go to the session that is live while the      *)
(* runner records what it does; a deletion stops the run from the side;    *)
(* and a restart loses everything but the rows.  Every action is one       *)
(* transaction, or one exchange with a live session.                       *)
(***************************************************************************)
EXTENDS Integers, Sequences, FiniteSets, TLC
CONSTANTS
    MaxCommands,   \* how many calls of SendCommand the user makes
    MaxTroubles,   \* restarts, calls whose client goes away, and deletions, together
    PlanningRounds, ReviewRounds  \* the dialogue's limits, 0 for none

VARIABLES
    run, feature, moved,  \* the run, its feature's state, and the states it entered under this run's keys
    sessions, commands,   \* the rows of sessions and session_commands
    policy, scripts,      \* the project's recovery policy, and what each role's scripts end with
    runner,               \* the run's goroutine
    live, registered, cue, \* the scripted sessions, ActiveSessions, and nextScriptByRole
    calls, stopper,       \* the calls of SendCommand, and a deletion's RunStopper
    taken, held,          \* the commands a session carried out; the sessions that a user paused
    races, troubles
simVars == <<run, feature, moved, sessions, commands, policy, scripts, runner, live, registered, cue, calls,
             stopper, taken, held, races, troubles>>
memory == <<live, registered, cue>>
rows == <<run, feature, moved, sessions, commands>>
fixed == <<policy, scripts>>
watched == <<taken, held, races>>

Steps == {"plan-lead", "plan-consultant", "implementation", "review", "review-fix"}
RoleOf(s) == CASE s[1] = "plan-lead" -> "lead" [] s[1] = "plan-consultant" -> "consultant"
               [] s[1] = "review" -> "reviewer" [] OTHER -> "coder"
Types == {"pause", "continue", "stop", "message"}
Deletion == 0
Calls == 0..MaxCommands
NoSession == <<"none", 0>>
Ended == {"completed", "stopped", "failed"}
NewSession == [status |-> "starting", script |-> 0, result |-> "none", seen |-> 0]
NoRunner == [at |-> "none", s |-> NoSession, prev |-> "none", pending |-> {}, event |-> "none", to |-> "none"]
NoCall == [at |-> "none", id |-> 0, type |-> "stop", s |-> NoSession, created |-> FALSE, rolled |-> FALSE]
Active == {s \in DOMAIN sessions : sessions[s].status \notin Ended}
(* NewSimulatedAssignment, and an assignment whose consultant objects and whose coder asks the user. *)
Scripts == { [lead |-> <<"succeeded">>, consultant |-> <<"succeeded">>,
              coder |-> <<"succeeded", "succeeded">>, reviewer |-> <<"changes", "succeeded">>],
             [lead |-> <<"succeeded", "changes">>, consultant |-> <<"changes", "succeeded">>,
              coder |-> <<"input">>, reviewer |-> <<"succeeded">>] }

TypeOK ==
    /\ run \in {"none", "running", "waiting", "succeeded"} \union Ended
    /\ feature \in {"ready", "planning", "implementing", "reviewing", "ready_to_merge"}
    /\ \A s \in DOMAIN sessions : /\ s[1] \in Steps
                                  /\ sessions[s].status \in {"starting", "running", "pause_requested", "paused"} \union Ended
                                  /\ sessions[s].result # "none" => sessions[s].status \in {"completed", "stopped"}
    /\ \A c \in DOMAIN commands : commands[c].status \in {"pending", "applied", "rejected"}
    /\ registered \subseteq DOMAIN live

Init ==
    /\ run = "none" /\ feature = "ready" /\ moved = {} /\ sessions = <<>> /\ commands = <<>>
    /\ policy \in {"automatic", "approval_required"} /\ scripts \in Scripts
    /\ runner = NoRunner /\ live = <<>> /\ registered = {} /\ cue = [r \in DOMAIN scripts |-> 0]
    /\ calls = [c \in Calls |-> NoCall] /\ stopper = "none" /\ taken = {} /\ held = {} /\ races = {} /\ troubles = 0

Go(next) == runner' = [runner EXCEPT !.at = next]
Fail == Go("fail")
(* ErrRecoveryBlocked leaves the run to the user; any other error fails it. *)
Blocked == runner' = [runner EXCEPT !.at = "fail", !.to = "waiting"]
Finish(status) == runner' = [runner EXCEPT !.at = "finish", !.to = status]
S == runner.s
Session == sessions[S]
Put(s, f, v) == sessions' = [sessions EXCEPT ![s] = [@ EXCEPT ![f] = v]]
CanMove(from, to) ==
    to \in CASE from = "starting" -> {"running", "stopped", "failed"}
             [] from = "running" -> {"pause_requested"} \union Ended
             [] from = "pause_requested" -> {"paused", "running"} \union Ended
             [] from = "paused" -> {"running", "stopped", "failed"}
             [] OTHER -> {}
(* TransitionSession: compare and set, between states that may follow each other. *)
Moves(s, from, to) == Session.status = from /\ CanMove(from, to)

(***************************************************************************)
(* The run: which session follows which result.                            *)
(***************************************************************************)
LimitReached(limit, round) == limit > 0 /\ round >= limit
Create(step, n) == [NoRunner EXCEPT !.at = "create", !.s = <<step, n>>]
To(state) == [NoRunner EXCEPT !.at = "move", !.to = state]
End(status) == [NoRunner EXCEPT !.at = "finish", !.to = status]
Following(s) ==
    LET n == s[2]
        result == sessions[s].result IN
    IF sessions[s].status = "failed" THEN End("failed")
    ELSE IF result = "stopped" THEN End("stopped")
    ELSE IF result = "input" THEN End("waiting")
    ELSE CASE s[1] = "plan-lead" -> Create("plan-consultant", n)
           [] s[1] = "plan-consultant" ->
                IF result = "succeeded" /\ sessions[<<"plan-lead", n>>].result = "succeeded" THEN To("implementing")
                ELSE IF LimitReached(PlanningRounds, n) THEN End("waiting") ELSE Create("plan-lead", n + 1)
           [] s[1] = "review" -> IF result = "succeeded" THEN To("ready_to_merge") ELSE Create("review-fix", n)
           [] s[1] = "implementation" -> IF result = "succeeded" THEN To("reviewing") ELSE End("failed")
           [] OTHER -> IF result # "succeeded" THEN End("failed")
                       ELSE IF LimitReached(ReviewRounds, n) THEN End("waiting") ELSE Create("review", n + 1)

Outside == UNCHANGED <<calls, stopper, troubles>> /\ UNCHANGED fixed
Start ==
    /\ run = "none" /\ stopper = "none" /\ run' = "running" /\ runner' = To("planning")
    /\ UNCHANGED <<feature, moved, sessions, commands>> /\ Outside /\ UNCHANGED memory /\ UNCHANGED watched
(* The key of a transition holds the state: a replay changes nothing. *)
TransitionFeature ==
    /\ runner.at = "move"
    /\ feature' = (IF runner.to \in moved THEN feature ELSE runner.to) /\ moved' = moved \union {runner.to}
    /\ runner' = CASE runner.to = "planning" -> Create("plan-lead", 1)
                   [] runner.to = "implementing" -> Create("implementation", 1)
                   [] runner.to = "reviewing" -> Create("review", 1)
                   [] OTHER -> End("succeeded")
    /\ UNCHANGED <<run, sessions, commands>> /\ Outside /\ UNCHANGED memory /\ UNCHANGED watched

(***************************************************************************)
(* A session: made and started, or taken up again after a restart.         *)
(***************************************************************************)
CreateSession ==
    /\ runner.at = "create"
    /\ IF S \notin DOMAIN sessions THEN sessions' = sessions @@ (S :> NewSession) /\ Go("start")
       ELSE /\ UNCHANGED sessions
            /\ runner' = IF Session.status \in Ended THEN Following(S) ELSE [runner EXCEPT !.at = "resume"]
    /\ races' = IF run \in Ended THEN races \union {"works on"} ELSE races
    /\ UNCHANGED <<run, feature, moved, commands, taken, held>> /\ Outside /\ UNCHANGED memory

NewLive(script, next, recovered) ==
    [script |-> script, next |-> next, paused |-> recovered, finished |-> "no",
     events |-> IF recovered THEN <<"assessment">> ELSE <<>>, answered |-> <<>>]
StartAdapter ==
    LET role == RoleOf(S)
        script == cue[role] + 1 IN
    /\ runner.at = "start"
    /\ IF script > Len(scripts[role]) THEN Fail /\ UNCHANGED <<live, cue>>
       ELSE live' = live @@ (S :> NewLive(script, 0, FALSE)) /\ cue' = [cue EXCEPT ![role] = script] /\ Go("running")
    /\ UNCHANGED registered /\ UNCHANGED rows /\ Outside /\ UNCHANGED watched
MarkRunning ==
    /\ runner.at = "running"
    /\ IF Moves(S, "starting", "running")
       THEN sessions' = [sessions EXCEPT ![S] = [@ EXCEPT !.status = "running", !.script = live[S].script]] /\ Go("register")
       ELSE UNCHANGED sessions /\ Fail
    /\ UNCHANGED <<run, feature, moved, commands>> /\ Outside /\ UNCHANGED memory /\ UNCHANGED watched

Pending(s) == {c \in DOMAIN commands : commands[c].s = s /\ commands[c].status = "pending"}
(* BeginSessionRecovery: a session that was at work is asked to pause. *)
Resume ==
    /\ runner.at = "resume"
    /\ IF Session.script = 0 THEN Blocked /\ UNCHANGED sessions
       ELSE /\ Put(S, "status", IF Session.status = "running" THEN "pause_requested" ELSE Session.status)
            /\ runner' = [runner EXCEPT !.at = "quarantine", !.prev = Session.status, !.pending = Pending(S)]
    /\ UNCHANGED <<run, feature, moved, commands>> /\ Outside /\ UNCHANGED memory /\ UNCHANGED watched
(* A command whose delivery nobody knows of is not sent again; another call may have rejected it already. *)
Quarantine ==
    /\ runner.at = "quarantine"
    /\ commands' = [c \in DOMAIN commands |->
                      IF c \in runner.pending /\ commands[c].status = "pending" THEN [commands[c] EXCEPT !.status = "rejected"] ELSE commands[c]]
    /\ IF \A c \in runner.pending : commands[c].status = "pending" THEN Go("revive") ELSE Fail
    /\ UNCHANGED <<run, feature, moved, sessions>> /\ Outside /\ UNCHANGED memory /\ UNCHANGED watched
ResumeAdapter ==
    LET role == RoleOf(S) IN
    /\ runner.at = "revive" /\ Go("register")
    /\ live' = live @@ (S :> NewLive(Session.script, Session.seen, TRUE))
    /\ cue' = [cue EXCEPT ![role] = IF @ < Session.script THEN Session.script ELSE @]
    /\ UNCHANGED registered /\ UNCHANGED rows /\ Outside /\ UNCHANGED watched
Register ==
    /\ runner.at = "register" /\ registered' = registered \union {S} /\ Go("events")
    /\ UNCHANGED <<live, cue>> /\ UNCHANGED rows /\ Outside /\ UNCHANGED watched

(***************************************************************************)
(* The runner records each event, applies it, and the result last.         *)
(***************************************************************************)
RecordEvent ==
    /\ runner.at = "events" /\ live[S].events # <<>>
    /\ LET e == Head(live[S].events) IN
       /\ live' = [live EXCEPT ![S] = [@ EXCEPT !.events = Tail(@)]]
       /\ runner' = [runner EXCEPT !.event = e, !.at = IF e = "message" THEN "events" ELSE "apply"]
       /\ sessions' = IF e = "message" THEN [sessions EXCEPT ![S] = [@ EXCEPT !.seen = @ + 1]] ELSE sessions
    /\ UNCHANGED <<registered, cue, run, feature, moved, commands>> /\ Outside /\ UNCHANGED watched
(* applySessionEvent, and the first half of applyRecoveryAssessment. *)
ApplyEvent ==
    LET e == runner.event
        goal == IF e = "continued" THEN "running" ELSE "paused"
        from == IF e = "continued" THEN "paused" ELSE "pause_requested"
        next == CASE e = "assessment" -> "assess" [] e = "continued" -> "run on" [] OTHER -> "events" IN
    /\ runner.at = "apply"
    /\ IF Session.status = goal THEN Go(IF e = "assessment" THEN "assess" ELSE "events") /\ UNCHANGED sessions
       ELSE IF Session.status = from THEN Put(S, "status", goal) /\ Go(next)
       ELSE UNCHANGED sessions /\ (IF e = "assessment" THEN Blocked ELSE Fail)
    /\ UNCHANGED <<run, feature, moved, commands>> /\ Outside /\ UNCHANGED memory /\ UNCHANGED watched
(* A continue that approves a recovery takes the run out of its wait. *)
RunOn ==
    /\ runner.at = "run on" /\ run' = (IF run = "waiting" THEN "running" ELSE run) /\ Go("events")
    /\ UNCHANGED <<feature, moved, sessions, commands>> /\ Outside /\ UNCHANGED memory /\ UNCHANGED watched
NeedsReviewOfCommands == policy = "approval_required" \/ runner.pending # {}  \* a mutant: a pause is forgotten
NeedsReview == policy = "approval_required" \/ runner.pending # {} \/ runner.prev \in {"pause_requested", "paused"}
(* The second half of applyRecoveryAssessment: the user is asked, or the session goes on by itself. *)
EnsureRunWaiting ==
    /\ runner.at = "assess" /\ NeedsReview
    /\ IF run \in {"running", "waiting"} THEN run' = "waiting" /\ Go("events") ELSE UNCHANGED run /\ Blocked
    /\ UNCHANGED <<feature, moved, sessions, commands>> /\ Outside /\ UNCHANGED memory /\ UNCHANGED watched

(* What a scripted session does with a command: message, pause, continue or stop. *)
Accepts(l, type) == l.finished = "no" /\ (type = "pause" => ~l.paused) /\ (type = "continue" => l.paused)
After(l, type) ==
    CASE type = "pause" -> [l EXCEPT !.paused = TRUE, !.events = Append(@, "paused")]
      [] type = "continue" -> [l EXCEPT !.paused = FALSE, !.events = Append(@, "continued"),
                                        !.finished = IF l.next = 1 THEN "completed" ELSE "no"]
      [] type = "stop" -> [l EXCEPT !.finished = "stopped"]
      [] OTHER -> l
ContinueByItself ==
    /\ runner.at = "assess" /\ ~NeedsReview
    /\ IF Accepts(live[S], "continue") THEN live' = [live EXCEPT ![S] = After(@, "continue")] /\ Go("events")
       ELSE UNCHANGED live /\ Blocked
    /\ UNCHANGED <<registered, cue>> /\ UNCHANGED rows /\ Outside /\ UNCHANGED watched

(* finishSession reads the row and then compares and sets. *)
ReadSession ==
    /\ runner.at = "events" /\ live[S].events = <<>> /\ live[S].finished # "no"
    /\ runner' = [runner EXCEPT !.at = "complete", !.prev = Session.status]
    /\ UNCHANGED rows /\ Outside /\ UNCHANGED memory /\ UNCHANGED watched
CompleteSession ==
    LET result == IF live[S].finished = "stopped" THEN "stopped" ELSE scripts[RoleOf(S)][live[S].script] IN
    /\ runner.at = "complete"
    /\ IF Moves(S, runner.prev, live[S].finished)
       THEN sessions' = [sessions EXCEPT ![S] = [@ EXCEPT !.status = live[S].finished, !.result = result]] /\ Go("done")
       ELSE UNCHANGED sessions /\ Fail
    /\ UNCHANGED <<run, feature, moved, commands>> /\ Outside /\ UNCHANGED memory /\ UNCHANGED watched
Unregister ==
    /\ runner.at = "done" /\ registered' = registered \ {S} /\ runner' = Following(S)
    /\ UNCHANGED <<live, cue>> /\ UNCHANGED rows /\ Outside /\ UNCHANGED watched
(* failSession reads and then compares and sets too; if that fails the session stays as it is. *)
FailSession ==
    LET to == IF runner.to = "none" THEN "failed" ELSE runner.to IN
    /\ \/ /\ runner.at = "fail" /\ UNCHANGED <<sessions, registered>>
          /\ runner' = [runner EXCEPT !.at = "failing", !.prev = Session.status, !.to = to]
       \/ /\ runner.at = "failing" /\ runner' = End(to) /\ registered' = registered \ {S}
          /\ IF Moves(S, runner.prev, "failed") THEN Put(S, "status", "failed") ELSE UNCHANGED sessions
    /\ races' = IF runner.at = "failing" /\ S \in DOMAIN live THEN races \union {"failed"} ELSE races
    /\ UNCHANGED <<live, cue, run, feature, moved, commands, taken, held>> /\ Outside
FinishRun ==
    /\ runner.at = "finish" /\ runner' = NoRunner
    /\ run' = IF run \in {"running", "waiting"} THEN runner.to ELSE run
    /\ UNCHANGED <<feature, moved, sessions, commands>> /\ Outside /\ UNCHANGED memory /\ UNCHANGED watched

(* The timer of the automatic adapter, while the session is not paused. *)
Advance ==
    /\ \E s \in DOMAIN live : LET l == live[s] IN
         /\ l.finished = "no" /\ ~l.paused /\ l.next = 0
         /\ live' = [live EXCEPT ![s] = [@ EXCEPT !.events = Append(@, "message"), !.next = 1, !.finished = "completed"]]
    /\ UNCHANGED <<runner, registered, cue>> /\ UNCHANGED rows /\ Outside /\ UNCHANGED watched

(***************************************************************************)
(* SendCommand: the row, the live session, what the session's state        *)
(* allows, the delivery, and the answer.  A client that goes away ends the *)
(* wait for the answer, whether the session took the command or not.       *)
(***************************************************************************)
Call(c, next) == calls' = [calls EXCEPT ![c].at = next]
Inside == UNCHANGED <<runner, stopper, run, feature, moved, registered, cue>> /\ UNCHANGED fixed
Ask(c, id, type, s) ==
    LET created == id \notin DOMAIN commands IN
    /\ calls[c].at = "none"
    /\ IF created THEN commands' = commands @@ (id :> [type |-> type, s |-> s, status |-> "pending"])
       ELSE commands[id].s = s /\ commands[id].type = type /\ UNCHANGED commands
    /\ calls' = [calls EXCEPT ![c] = [NoCall EXCEPT !.id = id, !.type = type, !.s = s, !.created = created,
                                        !.at = IF commands'[id].status = "pending" THEN "look" ELSE "none"]]
SendCommand ==
    /\ \E c \in Calls \ {Deletion}, id \in Calls \ {Deletion}, type \in Types, s \in DOMAIN sessions :
         /\ id = Cardinality(DOMAIN commands \ {Deletion}) + 1 \/ id \in DOMAIN commands
         /\ sessions[s].status \notin Ended \/ id \in DOMAIN commands
         /\ Ask(c, id, type, s)
         /\ c = 1 \/ calls[c - 1] # NoCall
         /\ calls[c] = NoCall
    /\ UNCHANGED <<sessions, live, troubles>> /\ Inside /\ UNCHANGED watched
LookUp ==
    /\ \E c \in Calls : calls[c].at = "look" /\ Call(c, IF calls[c].s \in registered THEN "prepare" ELSE "reject")
    /\ UNCHANGED <<sessions, commands, live, troubles>> /\ Inside /\ UNCHANGED watched
Allowed(type, created, status) ==
    CASE type = "pause" -> status = "running" \/ (~created /\ status \in {"pause_requested", "paused"})
      [] type = "continue" -> status = "paused" \/ (~created /\ status = "running")
      [] OTHER -> status \in {"running", "pause_requested", "paused"}
PrepareCommand ==
    /\ \E c \in Calls : LET status == sessions[calls[c].s].status
                            rolls == calls[c].type = "pause" /\ status = "running" IN
         /\ calls[c].at = "prepare"
         /\ IF Allowed(calls[c].type, calls[c].created, status)
            THEN /\ calls' = [calls EXCEPT ![c] = [@ EXCEPT !.at = "send", !.rolled = rolls]]
                 /\ IF rolls THEN Put(calls[c].s, "status", "pause_requested") ELSE UNCHANGED sessions
            ELSE Call(c, "reject") /\ UNCHANGED sessions
    /\ UNCHANGED <<commands, live, troubles>> /\ Inside /\ UNCHANGED watched
(* The session takes a command once: another call with its ID waits for the same answer. *)
Answer(l, c) == LET before == {n \in DOMAIN l.answered : l.answered[n].id = calls[c].id} IN
    IF before # {} THEN \A n \in before : l.answered[n].ok ELSE Accepts(l, calls[c].type)
Deliver ==
    /\ \E c \in Calls, gone \in BOOLEAN :
         LET l == live[calls[c].s]
             ok == Answer(l, c)
             new == \A n \in DOMAIN l.answered : l.answered[n].id # calls[c].id IN
         /\ calls[c].at = "send" /\ calls[c].s \in DOMAIN live
         /\ gone => troubles < MaxTroubles
         /\ troubles' = troubles + (IF gone THEN 1 ELSE 0)
         /\ live' = [live EXCEPT ![calls[c].s] =
                       IF l.finished # "no" \/ ~new THEN l
                       ELSE [(IF ok THEN After(l, calls[c].type) ELSE l) EXCEPT !.answered = Append(@, [id |-> calls[c].id, ok |-> ok])]]
         /\ Call(c, IF ok /\ ~gone THEN "apply" ELSE IF calls[c].rolled THEN "roll back" ELSE "reject")
         /\ taken' = IF ok THEN taken \union {calls[c].id} ELSE taken
         /\ held' = CASE ok /\ new /\ calls[c].type = "pause" -> held \union {calls[c].s}
                      [] ok /\ new /\ calls[c].type = "continue" -> held \ {calls[c].s} [] OTHER -> held
    /\ UNCHANGED <<sessions, commands, races>> /\ Inside
RollBack ==
    /\ \E c \in Calls : LET s == calls[c].s IN
         /\ calls[c].at = "roll back" /\ Call(c, "reject")
         /\ IF sessions[s].status = "pause_requested" THEN Put(s, "status", "running") ELSE UNCHANGED sessions
         /\ held' = held \ {s}   \* the user is told that the pause was rejected
    /\ UNCHANGED <<commands, live, troubles, taken, races>> /\ Inside
ResolveCommand ==
    /\ \E c \in Calls : LET answer == IF calls[c].at = "apply" THEN "applied" ELSE "rejected" IN
         /\ calls[c].at \in {"apply", "reject"}
         /\ commands' = IF commands[calls[c].id].status = "pending" THEN [commands EXCEPT ![calls[c].id].status = answer] ELSE commands
         /\ Call(c, "none")
    /\ UNCHANGED <<sessions, live, troubles>> /\ Inside /\ UNCHANGED watched

(***************************************************************************)
(* A deletion stops the run: its live session by a stop command, one that  *)
(* is not live by its row, and the run's row last.                         *)
(***************************************************************************)
Beside == UNCHANGED <<runner, feature, moved, races>> /\ UNCHANGED fixed /\ UNCHANGED memory
StopFeatureRuns ==
    /\ stopper = "none" /\ run # "none" /\ troubles < MaxTroubles /\ troubles' = troubles + 1
    /\ stopper' = IF Active = {} THEN "run" ELSE "session"
    /\ UNCHANGED <<run, sessions, commands, calls, taken, held>> /\ Beside
StopSession ==
    /\ stopper = "session"
    /\ IF Active = {} THEN stopper' = "run" /\ UNCHANGED <<sessions, commands, calls>>
       ELSE LET s == CHOOSE t \in Active : TRUE IN
            IF s \in registered THEN Ask(Deletion, Deletion, "stop", s) /\ stopper' = "sent" /\ UNCHANGED sessions
            ELSE stopper' = "run" /\ Put(s, "status", "stopped") /\ UNCHANGED <<commands, calls>>
    /\ UNCHANGED <<run, troubles, taken, held>> /\ Beside
WaitForTerminal ==
    /\ \/ stopper = "sent" /\ calls[Deletion].at = "none"
          /\ stopper' = IF commands[Deletion].status = "applied" THEN "wait" ELSE "none"
       \/ stopper = "wait" /\ stopper' \in {IF sessions[commands[Deletion].s].status \in Ended THEN "run" ELSE "none"}
    /\ UNCHANGED <<run, sessions, commands, calls, troubles, taken, held>> /\ Beside
StopRun ==
    /\ stopper = "run" /\ stopper' = "none" /\ run' = IF run \in {"running", "waiting"} THEN "stopped" ELSE run
    /\ races' = IF runner.at \notin {"none", "finish"} THEN races \union {"works on"} ELSE races
    /\ UNCHANGED <<runner, feature, moved, sessions, commands, calls, troubles, taken, held>> /\ UNCHANGED fixed /\ UNCHANGED memory

(* A restart: ListRecoverableRuns, and Recover for the run if it is one of them. *)
Recoverable == run = "running" \/ (run = "waiting" /\ Active # {})
Restart ==
    /\ troubles < MaxTroubles /\ troubles' = troubles + 1 /\ run # "none"
    /\ runner' = IF Recoverable /\ Cardinality(Active) <= 1 THEN To("planning") ELSE NoRunner
    /\ live' = <<>> /\ registered' = {} /\ cue' = [r \in DOMAIN scripts |-> 0]
    /\ calls' = [c \in Calls |-> IF calls[c] = NoCall THEN NoCall ELSE [NoCall EXCEPT !.id = calls[c].id, !.s = calls[c].s]]
    /\ stopper' = "none"
    /\ races' = IF \E s \in DOMAIN live : live[s].finished = "stopped" /\ sessions[s].status \notin Ended
                THEN races \union {"stop lost"} ELSE races
    /\ UNCHANGED <<taken, held>> /\ UNCHANGED rows /\ UNCHANGED fixed

Next ==
    \/ Start \/ TransitionFeature \/ CreateSession \/ StartAdapter \/ MarkRunning \/ Resume \/ Quarantine \/ ResumeAdapter
    \/ Register \/ RecordEvent \/ ApplyEvent \/ RunOn \/ EnsureRunWaiting \/ ContinueByItself \/ ReadSession
    \/ CompleteSession \/ Unregister \/ FailSession \/ FinishRun \/ Advance
    \/ SendCommand \/ LookUp \/ PrepareCommand \/ Deliver \/ RollBack \/ ResolveCommand
    \/ StopFeatureRuns \/ StopSession \/ WaitForTerminal \/ StopRun \/ Restart
Spec == Init /\ [][Next]_simVars

(* What a script says is recorded once and completely, whatever restarts. *)
SaidOnce == \A s \in DOMAIN sessions : sessions[s].seen <= 1 /\ (sessions[s].status = "completed" => sessions[s].seen = 1)
(* A run that succeeds was approved by its last review, after all its fixes. *)
Approved ==
    run = "succeeded" => /\ feature = "ready_to_merge" /\ Active = {}
                         /\ \E n \in 1..10 : /\ <<"review", n>> \in DOMAIN sessions /\ sessions[<<"review", n>>].result = "succeeded"
                                             /\ <<"review-fix", n>> \notin DOMAIN sessions
(* An applied command was taken by the session; a session that the user paused goes on only for the user. *)
AppliedIsTaken == \A c \in DOMAIN commands : commands[c].status = "applied" => c \in taken
PauseHolds == \A s \in held : sessions[s].status # "completed"
StopHolds == \A c \in taken : commands[c].type = "stop" => sessions[commands[c].s].status # "completed"
OneAtWork == Cardinality(Active) <= 1
SimulationIsSound ==
    /\ TypeOK /\ SaidOnce /\ Approved /\ AppliedIsTaken /\ PauseHolds
    /\ "stop lost" \notin races => StopHolds
    /\ races = {} => OneAtWork
==================================================================================
