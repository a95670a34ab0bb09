---------------------------------- MODULE Waits ----------------------------------
(***************************************************************************)
(* The waits that end by themselves: a turn cut off by the infrastructure  *)
(* is retried three times, a run whose agent reached its usage limit goes  *)
(* on after the reset, and one whose agent must sign in goes on when the   *)
(* login works again.  Each wait is a row, each kind has its ticker, and   *)
(* all of them, like the user's Continue, end in RecoverBlocker.  The runs *)
(* here share one agent.  A turn's end holds the run's claim, so nothing   *)
(* is admitted beside it (RunClaim says what that takes).                  *)
(***************************************************************************)
EXTENDS Integers, FiniteSets
CONSTANTS
    WaitingRuns,   \* the runs, all on one agent
    MaxAtOnce,     \* how many of the tickers and the user act at the same time
    MaxRefusals    \* how many recoveries fail to start, restarts included

VARIABLES
    status, paused,  \* of each run: "working" or "waiting" on a blocker; and whether the user paused it
    turn,            \* the turn's end, step by step; "works" while it runs, "none" without one
    says,            \* what the run's reason promises that it waits for
    retry, login, limit, \* the rows of run_retry_waits, run_login_waits and run_limit_waits
    signIn,          \* whether the agent is in agent_sign_ins
    account,         \* the agent's account at its provider
    resumer,         \* ResumeDueRetries, ResumeDueLimits, TrySignedOutWork, ResumeAfterLogin and the user
    spent,           \* the retries since the run last went on for another reason
    slips,           \* the kinds of races that happened
    refusals
waitVars == <<status, paused, turn, says, retry, login, limit, signIn, account, resumer, spent, slips, refusals>>

Backoffs == 3
NoRetry == [n |-> 0, due |-> FALSE]
Idle == [at |-> "idle", todo |-> <<>>, r |-> "none", cause |-> NoRetry]
Resumers == {"retries", "limits", "tries", "login", "user"}
WaitsTypeOK ==
    /\ \A r \in WaitingRuns : /\ status[r] \in {"working", "waiting"} /\ says[r] \in {"nothing", "retry", "login", "limit"}
                              /\ turn[r] \in {"none", "works", "login", "mark", "limit", "wait"}
                              /\ retry[r].n \in 0..Backoffs /\ (turn[r] # "none" => status[r] = "working")
    /\ \A p \in Resumers : DOMAIN resumer[p].todo \subseteq WaitingRuns

InitWaits ==
    /\ status = [r \in WaitingRuns |-> "working"] /\ paused = [r \in WaitingRuns |-> FALSE]
    /\ turn = [r \in WaitingRuns |-> "works"] /\ says = [r \in WaitingRuns |-> "nothing"]
    /\ retry = [r \in WaitingRuns |-> NoRetry] /\ login = {} /\ limit = {}
    /\ signIn = FALSE /\ account = "ok" /\ resumer = [p \in Resumers |-> Idle]
    /\ spent = [r \in WaitingRuns |-> 0] /\ slips = {} /\ refusals = 0

Without(set, r, cond) == IF cond THEN set \ {r} ELSE set
Turn(r, step) == turn' = [turn EXCEPT ![r] = step]
Says(r, wait) == says' = [says EXCEPT ![r] = wait]
Step(p, step) == resumer' = [resumer EXCEPT ![p].at = step]
NextOf(p, todo) == resumer' = [resumer EXCEPT ![p] = IF todo = <<>> THEN Idle ELSE [Idle EXCEPT !.at = "next", !.todo = todo]]
InTurn == UNCHANGED <<paused, account, slips, refusals>>

(***************************************************************************)
(* A turn's end.                                                           *)
(***************************************************************************)
(* turnEnded and agentAnswered: a turn that works resumes all that wait for the agent. *)
AgentAnswered ==
    /\ \E r \in WaitingRuns :
         /\ turn[r] = "works" /\ account = "ok" /\ UNCHANGED turn
         /\ retry' = [retry EXCEPT ![r] = NoRetry] /\ spent' = [spent EXCEPT ![r] = 0]
         /\ IF signIn THEN resumer["login"].at = "idle" /\ resumer' = [resumer EXCEPT !["login"].at = "clear"] ELSE UNCHANGED resumer
    /\ UNCHANGED <<status, says, login, limit, signIn>> /\ InTurn
(* scheduleRetry, unless the agent is known to need a sign-in or the retries are spent. *)
SchedulesOnceMore(r, cause) == retry[r].n <= Backoffs /\ (cause = "interrupted" \/ (cause = "login" /\ ~signIn))  \* a mutant
Schedules(r, cause) == retry[r].n < Backoffs /\ (cause = "interrupted" \/ (cause = "login" /\ ~signIn))
PauseFailedTurn ==
    /\ \E r \in WaitingRuns, cause \in {"interrupted", "login", "limit", "other"} :
         /\ turn[r] = "works"
         /\ cause = "login" => account = "signed out"
         /\ cause = "limit" => account = "limited"
         /\ IF Schedules(r, cause)
            THEN retry' = [retry EXCEPT ![r].due = TRUE] /\ Says(r, "retry") /\ Turn(r, "wait") /\ UNCHANGED spent
            ELSE /\ retry' = [retry EXCEPT ![r] = NoRetry] /\ spent' = [spent EXCEPT ![r] = 0]
                 /\ Says(r, IF cause \in {"login", "limit"} THEN cause ELSE "nothing")
                 /\ Turn(r, IF cause \in {"login", "limit"} THEN cause ELSE "wait")
    /\ UNCHANGED <<status, login, limit, signIn, resumer>> /\ InTurn
RecordWait ==
    /\ \E r \in WaitingRuns :
         /\ turn[r] \in {"login", "limit"} /\ Turn(r, IF turn[r] = "login" THEN "mark" ELSE "wait")
         /\ login' = (IF turn[r] = "login" THEN login \union {r} ELSE login)
         /\ limit' = (IF turn[r] = "limit" THEN limit \union {r} ELSE limit)
    /\ UNCHANGED <<status, says, retry, signIn, resumer, spent>> /\ InTurn
MarkNeedsSignIn ==
    /\ \E r \in WaitingRuns : turn[r] = "mark" /\ Turn(r, "wait") /\ signIn' = TRUE
    /\ UNCHANGED <<status, says, retry, login, limit, resumer, spent>> /\ InTurn
WaitRun ==
    /\ \E r \in WaitingRuns : turn[r] = "wait" /\ Turn(r, "none") /\ status' = [status EXCEPT ![r] = "waiting"]
    /\ UNCHANGED <<says, retry, login, limit, signIn, resumer, spent>> /\ InTurn

(***************************************************************************)
(* The tickers, and the user.                                              *)
(***************************************************************************)
Aside == UNCHANGED <<status, paused, turn, says, retry, login, limit, account, spent, slips, refusals>>
ListWaits ==
    /\ \E p \in Resumers : \E todo \in
            CASE p = "retries" -> {{r \in WaitingRuns : retry[r].due /\ turn[r] # "wait"}}
              [] p = "limits" -> {limit}
              [] p = "tries" -> {IF signIn THEN login ELSE {}}
              [] p = "login" -> {login}
              [] p = "user" -> {{r} : r \in WaitingRuns} :
         /\ resumer[p].at = (IF p = "login" THEN "list" ELSE "idle") /\ (todo # {} \/ p = "login")
         /\ p = "login" \/ Cardinality({q \in Resumers : resumer[q] # Idle}) < MaxAtOnce
         /\ NextOf(p, [r \in todo |-> IF p = "retries" THEN retry[r] ELSE NoRetry])
    /\ UNCHANGED signIn /\ Aside
(* ResumeAfterLogin forgets the agent's sign-in before it lists what waits for it. *)
ClearAgentSignIn ==
    /\ resumer["login"].at = "clear" /\ signIn' = FALSE /\ resumer' = [resumer EXCEPT !["login"].at = "list"]
    /\ Aside

(* The next of the list; a retry is recorded as started, from the row that was listed. *)
Take ==
    /\ \E p \in Resumers : \E r \in DOMAIN resumer[p].todo :
         LET row == resumer[p].todo[r]
             rest == [s \in DOMAIN resumer[p].todo \ {r} |-> resumer[p].todo[s]] IN
         /\ resumer[p].at = "next"
         /\ resumer' = [resumer EXCEPT ![p] = [at |-> "begin", r |-> r, cause |-> row, todo |-> rest]]
         /\ retry' = IF p = "retries" THEN [retry EXCEPT ![r] = [n |-> row.n + 1, due |-> FALSE]] ELSE retry
    /\ UNCHANGED <<status, paused, turn, says, login, limit, signIn, account, spent, slips, refusals>>
(* beginRecovery: a run that waits on a blocker, and is not paused, goes on and forgets its waits; a
   retry keeps its count. *)
BeginRecovery ==
    /\ \E p \in Resumers : LET r == resumer[p].r IN
         /\ resumer[p].at = "begin"
         /\ IF status[r] = "waiting" /\ ~paused[r]
            THEN /\ status' = [status EXCEPT ![r] = "working"] /\ Step(p, "admit")
                 /\ login' = login \ {r} /\ limit' = limit \ {r}
                 /\ IF p = "retries" THEN UNCHANGED <<retry, spent>>
                    ELSE retry' = [retry EXCEPT ![r] = NoRetry] /\ spent' = [spent EXCEPT ![r] = 0]
            ELSE UNCHANGED <<status, retry, login, limit, spent>> /\ Step(p, "not allowed")
         /\ slips' = IF p = "retries" /\ retry[r] # [n |-> resumer[p].cause.n + 1, due |-> FALSE] THEN slips \union {"stale"} ELSE slips
    /\ UNCHANGED <<paused, turn, says, signIn, account, refusals>>
(* ErrRecoveryNotAllowed: a paused run keeps its retry and its sign-in for when it is unpaused. *)
NotAllowed ==
    /\ \E p \in Resumers : LET r == resumer[p].r IN
         /\ resumer[p].at = "not allowed" /\ NextOf(p, resumer[p].todo)
         /\ retry' = IF p # "retries" THEN retry
                     ELSE [retry EXCEPT ![r] = IF status[r] = "waiting" /\ paused[r] THEN resumer[p].cause ELSE NoRetry]
         /\ login' = Without(login, r, p \in {"tries", "login"} /\ ~paused[r])
         /\ limit' = Without(limit, r, p = "limits")
         /\ LET lost == login' # login \/ limit' # limit \/ (p = "retries" /\ retry'[r] = NoRetry) IN
            slips' = slips \union (IF paused[r] /\ (lost \/ (p = "login" /\ r \in login)) THEN {"paused"}
                                    ELSE IF lost /\ (turn[r] \in {"mark", "wait"} \/ status[r] = "waiting") THEN {"too early"} ELSE {})
    /\ UNCHANGED <<status, paused, turn, says, signIn, account, spent, refusals>>
(* finishRecovery admits the turn; TrySignedOutWork stops at the first that it could admit. *)
Admit ==
    /\ \E p \in Resumers : LET r == resumer[p].r IN
         /\ resumer[p].at = "admit" /\ Turn(r, "works")
         /\ NextOf(p, IF p = "tries" THEN <<>> ELSE resumer[p].todo)
         /\ spent' = IF p = "retries" THEN [spent EXCEPT ![r] = @ + 1] ELSE spent
    /\ UNCHANGED <<status, paused, says, retry, login, limit, signIn, account, slips, refusals>>
(* A recovery that cannot start waits again for the reason it had; a retry says that it needs the user. *)
Refused ==
    /\ refusals < MaxRefusals /\ refusals' = refusals + 1
    /\ \E p \in Resumers : LET r == resumer[p].r IN
         /\ resumer[p].at = "admit" /\ NextOf(p, resumer[p].todo) /\ status' = [status EXCEPT ![r] = "waiting"]
         /\ IF p = "retries" THEN retry' = [retry EXCEPT ![r] = NoRetry] /\ Says(r, "nothing") /\ UNCHANGED slips
            ELSE UNCHANGED <<retry, says>> /\ slips' = slips \union {"refused"}
    /\ UNCHANGED <<paused, turn, login, limit, signIn, account, spent>>

(***************************************************************************)
(* What happens around them.                                               *)
(***************************************************************************)
ApplyRunPause ==
    /\ \E r \in WaitingRuns : paused' = [paused EXCEPT ![r] = ~@]
    /\ UNCHANGED <<status, turn, says, retry, login, limit, signIn, account, resumer, spent, slips, refusals>>
(* The provider drops the login, or the limit is reached; both end; a sign-in in the desktop says so. *)
AccountChanges ==
    /\ account' \in {"ok", "signed out", "limited"} /\ "ok" \in {account, account'}
    /\ IF account = "signed out" /\ resumer["login"].at = "idle"
       THEN resumer' \in {resumer, [resumer EXCEPT !["login"].at = "clear"]} ELSE UNCHANGED resumer
    /\ UNCHANGED <<status, paused, turn, says, retry, login, limit, signIn, spent, slips, refusals>>
(* A restart takes up every run that is not paused, for its session is active: its turn is tried again. *)
RestartCoordinator ==
    /\ refusals < MaxRefusals /\ refusals' = refusals + 1
    /\ resumer' = [p \in Resumers |-> Idle] /\ spent' = [r \in WaitingRuns |-> 0]
    /\ turn' = [r \in WaitingRuns |-> IF paused[r] /\ status[r] = "waiting" THEN "none" ELSE "works"]
    /\ status' = [r \in WaitingRuns |-> IF paused[r] THEN status[r] ELSE "working"]
    /\ slips' = IF \E r \in WaitingRuns : paused[r] THEN slips \union {"paused"} ELSE slips
    /\ UNCHANGED <<paused, says, retry, login, limit, signIn, account>>
Steps ==
    \/ AgentAnswered \/ PauseFailedTurn \/ RecordWait \/ MarkNeedsSignIn \/ WaitRun \/ ListWaits \/ ClearAgentSignIn
    \/ Take \/ BeginRecovery \/ NotAllowed \/ Admit \/ Refused \/ ApplyRunPause \/ AccountChanges \/ RestartCoordinator
(* A behaviour is followed to its first slip: nothing is promised after one. *)
NextWaits == slips = {} /\ Steps
SpecWaits == InitWaits /\ [][NextWaits]_waitVars

(* A turn is not retried by itself more often than the backoff has steps. *)
RetriesAreFew == \A r \in WaitingRuns : spent[r] <= Backoffs
(* A run that says that it goes on by itself has the row that makes it go on. *)
Unattended(r) == status[r] = "waiting" /\ ~paused[r] /\ \A p \in Resumers : resumer[p].at \in {"idle", "next"} \/ resumer[p].r # r
PromisesAreKept ==
    \A r \in WaitingRuns : Unattended(r) =>
        CASE says[r] = "retry" -> retry[r].due
          [] says[r] = "login" -> r \in login /\ (signIn \/ resumer["login"].at = "list" \/ r \in DOMAIN resumer["login"].todo)
          [] says[r] = "limit" -> r \in limit
          [] OTHER -> TRUE
WaitsAreSound == WaitsTypeOK /\ (slips = {} => RetriesAreFew /\ PromisesAreKept)
==================================================================================
