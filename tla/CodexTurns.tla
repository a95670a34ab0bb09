------------------------------- MODULE CodexTurns -------------------------------
(***************************************************************************)
(* One attempt of a Codex worker (codexadapter over processsupervisor):    *)
(* the app server that answers requests and tells of the turn, the client  *)
(* that tells answers from notifications, the launch that asks for a       *)
(* thread and a turn, the goroutine that follows the turn, and the         *)
(* worker's calls.  A line is an answer <<"re", request, how>>, or a       *)
(* notification <<"turn", what, "">>.                                      *)
(***************************************************************************)
EXTENDS AgentProcess, SequencesExt
CONSTANTS
    MaxNotices,   \* the notifications that the app server sends
    MaxStray,     \* of these and its answers, the ones it does not send there
    NoticeBuffer, \* the capacity of the client's channel of notifications
    EventBuffer,  \* and of the session's channel of events
    Commands      \* what the worker may send: of "steer" and "interrupt"
VARIABLES
    contract,             \* whether the turn owes a structured answer
    process, client, launch, session, events, heard, call,
    inbox, thread, turn, \* the app server: the requests it did not answer, and what it made
    said, stray
codexVars == <<contract, process, client, launch, session, events, heard, call, inbox, thread, turn, said, stray>>

Steps == {"initialize", "thread", "account", "turn"}
Notices == {"text", "final", "completed", "interrupted", "failed", "foreign", "bad final"}
Hows == {"ok", "rejected", "other", "empty"}
Torn == <<"torn", "", "">>
Lines == ({"re"} \X (Steps \union Commands) \X Hows) \union ({"turn"} \X Notices \X {""}) \union {Torn, <<"asks", "", "">>}
Ends == {"completed", "interrupted", "failed"}
NewClient == [pending |-> {}, answers |-> <<>>, notices |-> <<>>, failed |-> FALSE, killing |-> FALSE, completed |-> FALSE]
NewSession == [at |-> "none", pending |-> "none", next |-> "none", forced |-> FALSE, result |-> "none"]

TypeOKCodex ==
    /\ contract \in BOOLEAN /\ ProcessOK(process, Lines)
    /\ launch.at \in {"none"} \union Steps \union {"cleanup", "abandon", "returned"} /\ launch.gave \in {"none", "nil", "partial", "session"}
    /\ session.at \in {"none", "running", "stopping", "done"} /\ (session.result # "none" <=> session.at = "done")
    /\ call.kind \in Commands \union {"force"} /\ call.at \in {"idle", "waiting", "obeyed", "error", "finished"}
    /\ DOMAIN client.answers \subseteq Steps \union Commands /\ client.pending \intersect DOMAIN client.answers = {}
    /\ Len(client.notices) <= NoticeBuffer /\ Len(events) <= EventBuffer

InitCodex ==
    /\ contract \in BOOLEAN /\ process = NotStarted /\ client = NewClient
    /\ launch = [at |-> "none", asked |-> FALSE, gave |-> "none"] /\ session = NewSession /\ events = <<>> /\ heard = <<>>
    /\ call \in [kind : Commands \union {"force"}, at : {"idle"}] /\ inbox = {} /\ thread = "none" /\ turn = "none" /\ said = <<>> /\ stray = 0

(* The app server, which answers what it is asked. *)
Answers(r, how) ==
    /\ IsRunning(process) /\ r \in inbox /\ inbox' = inbox \ {r} /\ process' = Writes(process, <<"re", r, how>>)
    /\ how = "other" => r = "thread"  \* of a resumed one
    /\ how = "empty" => r \in {"thread", "turn"}
    /\ IF how # "ok" THEN stray < MaxStray /\ stray' = stray + 1 ELSE UNCHANGED stray
    /\ thread' = IF r = "thread" /\ how \in {"ok", "empty"} THEN "made" ELSE thread
    /\ turn' = CASE r = "turn" /\ how \in {"ok", "empty"} -> "running" [] r = "interrupt" /\ how = "ok" /\ turn = "running" -> "ending" [] OTHER -> turn
    /\ UNCHANGED <<contract, client, launch, session, events, heard, call, said>>
Usual(n) ==
    CASE n = "interrupted" -> turn = "ending"
      [] n \in {"foreign", "bad final"} -> FALSE
      [] n = "completed" -> contract => \E i \in DOMAIN said : said[i] \in {"final", "bad final"}
      [] OTHER -> TRUE
Notifies(n) ==
    /\ IsRunning(process) /\ turn \in {"running", "ending"} /\ Len(said) < MaxNotices
    /\ IF Usual(n) THEN UNCHANGED stray ELSE stray < MaxStray /\ stray' = stray + 1
    /\ process' = Writes(process, <<"turn", n, "">>) /\ said' = Append(said, n)
    /\ turn' = IF n \in Ends THEN "over" ELSE turn
    /\ UNCHANGED <<contract, client, launch, session, events, heard, call, inbox, thread>>
Strays ==
    /\ IsRunning(process) /\ stray < MaxStray /\ stray' = stray + 1
    /\ \E l \in {Torn, <<"asks", "", "">>} : process' = Writes(process, l)
    /\ UNCHANGED <<contract, client, launch, session, events, heard, call, inbox, thread, turn, said>>
Exit ==
    /\ IsRunning(process) /\ process' = Exits(process, 0)
    /\ UNCHANGED <<contract, client, launch, session, events, heard, call, inbox, thread, turn, said, stray>>
Supervise ==
    /\ process' \in Supervised(process, Torn)
    /\ UNCHANGED <<contract, client, launch, session, events, heard, call, inbox, thread, turn, said, stray>>

(* The client: dispatch, fail, and the end of readLoop. *)
Fail == client' = [client EXCEPT !.failed = TRUE, !.killing = TRUE]
Dispatch ==
    /\ process.output # <<>> /\ process' = Taken(process)
    /\ LET l == Head(process.output) IN
       \/ client.failed /\ UNCHANGED client
       \/ ~client.failed /\ l[1] \in {"torn", "asks"} /\ Fail
       \/ /\ ~client.failed /\ l[1] = "re"
          /\ client' = IF l[2] \in client.pending
                       THEN [client EXCEPT !.pending = @ \ {l[2]}, !.answers = [r \in DOMAIN @ \union {l[2]} |-> IF r = l[2] THEN l[3] ELSE @[r]]]
                       ELSE client
       \/ /\ ~client.failed /\ l[1] = "turn"
          /\ IF Len(client.notices) < NoticeBuffer THEN client' = [client EXCEPT !.notices = Append(@, l[2])] ELSE Fail
    /\ UNCHANGED <<contract, launch, session, events, heard, call, inbox, thread, turn, said, stray>>
FailStops ==
    /\ client.killing /\ client' = [client EXCEPT !.killing = FALSE] /\ process' \in Killed(process, Torn)
    /\ UNCHANGED <<contract, launch, session, events, heard, call, inbox, thread, turn, said, stray>>
ReadEnds ==
    /\ OutputEnded(process) /\ IsDone(process) /\ ~client.completed
    /\ client' = [client EXCEPT !.completed = TRUE, !.failed = @ \/ WaitFails(process)]
    /\ UNCHANGED <<contract, process, launch, session, events, heard, call, inbox, thread, turn, said, stray>>

(* request: written unless the connection has ended; then the answer, the   *)
(* end of the connection, or the deadline.                                  *)
Asks(r) ==
    IF client.completed THEN UNCHANGED <<client, inbox>>
    ELSE client' = [client EXCEPT !.pending = @ \union {r}] /\ inbox' = inbox \union {r}
Outcomes(r) == {"error"} \union {client.answers[q] : q \in DOMAIN client.answers \intersect {r}}
Given(r) == [client EXCEPT !.pending = @ \ {r}, !.answers = [q \in DOMAIN @ \ {r} |-> @[q]]]

(* launch, a request at a time. *)
Start ==
    /\ launch.at = "none" /\ launch' = [launch EXCEPT !.at = "initialize"] /\ process' = Started
    /\ UNCHANGED <<contract, client, session, events, heard, call, inbox, thread, turn, said, stray>>
Request ==
    /\ launch.at \in Steps /\ ~launch.asked /\ launch' = [launch EXCEPT !.asked = TRUE] /\ Asks(launch.at)
    /\ UNCHANGED <<contract, process, session, events, heard, call, thread, turn, said, stray>>
(* A launch that failed says that nothing was left behind only if it knows: *)
(* a refused thread, or another one than was to be resumed.                 *)
NothingLeft(r, how) == r = "initialize" \/ (r = "thread" /\ how \in {"rejected", "other"})
Next1 == CASE launch.at = "initialize" -> "thread" [] launch.at = "thread" -> "account" [] launch.at = "account" -> "turn" [] OTHER -> "returned"
LaunchStep ==
    /\ launch.at \in Steps /\ launch.asked
    /\ \E how \in Outcomes(launch.at) :
         LET goes == how = "ok" \/ launch.at = "account" IN
         /\ launch' = [at |-> IF goes THEN Next1 ELSE IF NothingLeft(launch.at, how) THEN "cleanup" ELSE "abandon",
                       asked |-> FALSE, gave |-> IF goes /\ launch.at = "turn" THEN "session" ELSE "none"]
         /\ session' = IF goes /\ launch.at = "turn" THEN [session EXCEPT !.at = "running"] ELSE session
    /\ client' = Given(launch.at)
    /\ UNCHANGED <<contract, process, events, heard, call, inbox, thread, turn, said, stray>>
(* stopProcess: it is asked to end, and killed after a while. *)
Stopping == launch.at \in {"cleanup", "abandon"} \/ session.at = "stopping"
Kill ==
    /\ Stopping /\ IsRunning(process) /\ process' \in Killed(process, Torn)
    /\ UNCHANGED <<contract, client, launch, session, events, heard, call, inbox, thread, turn, said, stray>>
LaunchFails ==
    /\ launch.at \in {"cleanup", "abandon"} /\ IsDone(process)
    /\ launch' = [launch EXCEPT !.at = "returned", !.gave = IF launch.at = "cleanup" THEN "nil" ELSE "partial"]
    /\ session' = IF launch.at = "cleanup" THEN session ELSE [session EXCEPT !.at = "done", !.result = "error"]
    /\ UNCHANGED <<contract, process, client, events, heard, call, inbox, thread, turn, said, stray>>

(* translate: what is no notification of this turn, what it publishes, and *)
(* how it ends the turn.                                                   *)
Broken(n) == \/ n = "foreign"
             \/ n = "completed" /\ contract /\ session.pending # "final"  \* completeStructuredResponse
Published(n) ==
    CASE n = "text" -> <<n>>
      [] n \in {"final", "bad final"} /\ ~contract -> <<"text">>
      [] n = "completed" /\ contract -> <<"answer">>
      [] OTHER -> <<>>
Pending(n) == IF n \in {"final", "bad final"} /\ contract THEN n ELSE session.pending
ResultOf(n) == IF n = "interrupted" THEN "stopped" ELSE n
Fits(es) == Len(events) + Len(es) <= EventBuffer
Stops(result) == session' = [session EXCEPT !.at = "stopping", !.next = result]

(* run. *)
TakeNotice ==
    /\ session.at = "running" /\ client.notices # <<>> /\ client' = [client EXCEPT !.notices = Tail(@)]
    /\ LET n == Head(client.notices) IN
       \/ Broken(n) /\ Stops("error") /\ UNCHANGED events
       \/ ~Broken(n) /\ ~Fits(Published(n)) /\ Stops("error") /\ UNCHANGED events
       \/ /\ ~Broken(n) /\ Fits(Published(n)) /\ events' = events \o Published(n)
          /\ IF n \in Ends THEN Stops(ResultOf(n)) ELSE session' = [session EXCEPT !.pending = Pending(n)]
    /\ UNCHANGED <<contract, process, launch, heard, call, inbox, thread, turn, said, stray>>
Complete ==
    /\ session.at = "stopping" /\ IsDone(process) /\ session' = [session EXCEPT !.at = "done", !.result = session.next]
    /\ UNCHANGED <<contract, process, client, launch, events, heard, call, inbox, thread, turn, said, stray>>
(* The connection ended: Go's select may take this before what is queued. *)
FinishFromProcessExit ==
    /\ session.at = "running" /\ client.completed
    /\ session' = [session EXCEPT !.at = "done", !.result = IF session.forced THEN "stopped" ELSE "error"]
    /\ UNCHANGED <<contract, process, client, launch, events, heard, call, inbox, thread, turn, said, stray>>
Hear ==
    /\ events # <<>> /\ heard' = Append(heard, Head(events)) /\ events' = Tail(events)
    /\ UNCHANGED <<contract, process, client, launch, session, call, inbox, thread, turn, said, stray>>

(* Send steers or interrupts the turn; ForceStop kills. *)
CallFinished ==
    /\ call.at = "idle" /\ launch.gave = "session" /\ session.at = "done" /\ call' = [call EXCEPT !.at = "finished"]
    /\ UNCHANGED <<contract, process, client, launch, session, events, heard, inbox, thread, turn, said, stray>>
Send ==
    /\ call.at = "idle" /\ call.kind \in Commands /\ session.at \in {"running", "stopping"}
    /\ call' = [call EXCEPT !.at = "waiting"] /\ Asks(call.kind)
    /\ UNCHANGED <<contract, process, launch, session, events, heard, thread, turn, said, stray>>
SendReturns ==
    /\ call.at = "waiting" /\ call.kind \in Commands
    /\ \E how \in Outcomes(call.kind) : call' = [call EXCEPT !.at = IF how = "ok" THEN "obeyed" ELSE "error"]
    /\ client' = Given(call.kind)
    /\ UNCHANGED <<contract, process, launch, session, events, heard, inbox, thread, turn, said, stray>>
ForceStop ==
    /\ call.at = "idle" /\ call.kind = "force" /\ session.at \in {"running", "stopping"}
    /\ call' = [call EXCEPT !.at = "waiting"] /\ session' = [session EXCEPT !.forced = TRUE] /\ process' \in Killed(process, Torn)
    /\ UNCHANGED <<contract, client, launch, events, heard, inbox, thread, turn, said, stray>>
ForceReturns ==
    /\ call.at = "waiting" /\ call.kind = "force"
    /\ \E at \in {"error"} \union (IF IsDone(process) THEN {"obeyed"} ELSE {}) : call' = [call EXCEPT !.at = at]
    /\ UNCHANGED <<contract, process, client, launch, session, events, heard, inbox, thread, turn, said, stray>>

NextCodex ==
    \/ \E r \in Steps \union Commands, how \in Hows : Answers(r, how)
    \/ \E n \in Notices : Notifies(n)
    \/ Strays \/ Exit \/ Supervise \/ Dispatch \/ FailStops \/ ReadEnds
    \/ Start \/ Request \/ LaunchStep \/ Kill \/ LaunchFails
    \/ TakeNotice \/ Complete \/ FinishFromProcessExit \/ Hear
    \/ CallFinished \/ Send \/ SendReturns \/ ForceStop \/ ForceReturns

(* What each notification tells the worker. *)
Worth(i) ==
    CASE said[i] = "text" -> <<"text">>
      [] said[i] \in {"final", "bad final"} /\ ~contract -> <<"text">>
      [] said[i] = "completed" /\ contract -> <<"answer">>
      [] OTHER -> <<>>
Over == {i \in DOMAIN said : said[i] \in Ends}
Worthy(n) == FlattenSeq([i \in 1..n |-> Worth(i)])

(* The worker is told what Codex said, in that order, and of a turn that   *)
(* completed, failed or was interrupted all of it, whatever channels were  *)
(* full; a completed turn says what its last final message says.           *)
NothingIsSkippedOfCodex ==
    /\ IsPrefix(heard \o events, Worthy(Len(said)))
    /\ (session.result \in {"completed", "failed"} \/ (session.result = "stopped" /\ ~session.forced)) =>
         \E i \in Over : /\ \A j \in Over : i <= j
                         /\ ResultOf(said[i]) = session.result /\ heard \o events = Worthy(i)
                         /\ (said[i] = "completed" /\ contract) =>
                              \E j \in 1..i : said[j] = "final" /\ \A k \in j..i : said[k] # "bad final"

(* A launch that names no session left no process, no turn and no thread   *)
(* of its own behind, and no session is finished before its process is.    *)
LaunchesAreKnown ==
    /\ launch.gave = "nil" => IsDone(process) /\ thread = "none" /\ turn = "none"
    /\ session.at = "done" => IsDone(process)
    /\ session.result = "stopped" => session.forced \/ \E i \in DOMAIN said : said[i] = "interrupted"

CodexTurnIsSound == TypeOKCodex /\ NothingIsSkippedOfCodex /\ LaunchesAreKnown
=============================================================================
