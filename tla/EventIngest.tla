----------------------------- MODULE EventIngest -----------------------------
(***************************************************************************)
(* How a worker's recorded events reach the coordinator's session log.     *)
(*                                                                         *)
(* One session with attempts 1, 2, ...  The worker replays an attempt's    *)
(* history and then follows it live (workerservice/events.go, OpenEvent-   *)
(* Stream; workerhttp/events_stream.go).  A recovering pump of the         *)
(* coordinator (workeringest/pump.go) opens the stream after the stored    *)
(* checkpoint, stores each event and the checkpoint in one transaction     *)
(* (database/worker_event_store.go, AppendWorkerEvent) and, when the       *)
(* stream ends, inspects the attempt to decide whether it is done.         *)
(* Several pumps may copy the same session: parallel implementation turns  *)
(* are observed without the run's claim (orchestration/remote_lead.go,     *)
(* Recover), so a second recovery starts a second observer.                *)
(*                                                                         *)
(* The history of an attempt is append-only (WorkerJournal), so an event   *)
(* is its sequence number.  The coordinator's filter is the identity       *)
(* (cmd/coordinator/main.go:541) and previews are never stored.            *)
(***************************************************************************)
EXTENDS Integers, Sequences, FiniteSets

CONSTANTS Pumps,        \* observers that may run a pump on the session
          MaxAttempt,   \* attempts of the session
          MaxEvents,    \* events of one attempt
          BufferSize,   \* a subscriber's channel capacity (service.bufferSize)
          WireSize,     \* frames in flight before the server's write blocks
          MaxFaults,    \* broken connections and crashes, all together
          Continuations \* whether recovery successors may be admitted

ASSUME BoundsAssumption ==
  /\ MaxAttempt \in Nat \ {0} /\ MaxEvents \in Nat
  /\ BufferSize \in Nat \ {0} /\ WireSize \in Nat \ {0} /\ MaxFaults \in Nat
  /\ Continuations \in BOOLEAN

Attempt == 1 .. MaxAttempt
EventSeq == 1 .. MaxEvents

VARIABLES
  state,      \* worker: the state of each attempt
  latest,     \* worker: each attempt's LatestEventSequence
  owned,      \* worker: attempts with an active session in memory
  up,         \* worker: whether the service answers
  stream,     \* one event stream per pump: both ends and the wire
  pump,       \* each pump's program counter and runOnce's locals
  checkpoint, \* coordinator, durable: the session's worker attempt checkpoint
  log,        \* coordinator, durable: session_events of the session
  session,    \* coordinator, durable: whether a turn is "running" or "waiting" to start
  admission,  \* the checkpoint a turn admission read, or NoAdmission
  faults      \* faults so far

workerVars == <<state, latest, owned, up>>
storeVars  == <<checkpoint, log, session>>
vars == <<state, latest, owned, up, stream, pump, checkpoint, log, session, admission, faults>>

Checkpoint  == [attempt : Attempt, last : 0 .. MaxEvents]
NoAdmission == [attempt |-> 0, last |-> 0]

(* An event stream as its two ends see it: the replay left to write, the   *)
(* live channel and whether it is open, the server's lastSequence, the     *)
(* frames in flight, and how the body ended ("no": it has not).            *)
NoStream == [attempt |-> 0, replay |-> <<>>, live |-> <<>>, open |-> FALSE,
             sent |-> 0, wire |-> <<>>, end |-> "closed"]

(* A row of session_events: an event of an attempt's worker, or, with      *)
(* sequence 0, the user message that opens an attempt. *)
Entry(a, n) == [attempt |-> a, seq |-> n]

(* findWorkerSourceEvent. *)
Found(a, n) == \E i \in DOMAIN log : log[i] = Entry(a, n)

IdlePump == [pc |-> "idle", reference |-> 0, accepted |-> 0, cause |-> "none"]

(* Run failed, or the coordinator restarted: a recovery of the run is due. *)
Recovering == [IdlePump EXCEPT !.pc = "recover"]

Init ==
  /\ state = [a \in Attempt |-> "none"]
  /\ latest = [a \in Attempt |-> 0]
  /\ owned = {}
  /\ up = TRUE
  /\ stream = [p \in Pumps |-> NoStream]
  /\ pump = [p \in Pumps |-> IdlePump]
  /\ checkpoint = [attempt |-> 1, last |-> 0]
  /\ log = <<>>
  /\ session = "running"
  /\ admission = NoAdmission
  /\ faults = 0

----------------------------------------------------------------------------
(* The worker service, as far as its streams can tell (WorkerService has   *)
(* the rest).                                                              *)

(* PutAttempt admits the attempt the coordinator stored; only one attempt  *)
(* of the session may be nonterminal. *)
PutAttempt ==
  LET a == checkpoint.attempt IN
  /\ up /\ state[a] = "none"
  /\ \A b \in Attempt \ {a} : state[b] \in {"none", "terminal"}
  /\ state' = [state EXCEPT ![a] = "active"]
  /\ UNCHANGED <<latest, owned, up, stream, pump, storeVars, admission, faults>>

(* registerLive: the launched provider session is now in memory. *)
RegisterLive(a) ==
  /\ up /\ state[a] = "active" /\ a \notin owned
  /\ owned' = owned \cup {a}
  /\ UNCHANGED <<state, latest, up, stream, pump, storeVars, admission, faults>>

(* Fault: a full channel drops the event and stays open. *)
PublishedDropping(s, a, n) ==
  IF s.attempt = a /\ s.open /\ Len(s.live) < BufferSize
  THEN [s EXCEPT !.live = Append(@, n)] ELSE s

(* publishLocked to one subscriber: a full channel is closed, not waited for. *)
Published(s, a, n) ==
  IF s.attempt # a \/ ~s.open THEN s
  ELSE IF Len(s.live) < BufferSize THEN [s EXCEPT !.live = Append(@, n)]
  ELSE [s EXCEPT !.open = FALSE]

(* Fault: subscribers are forgotten, not closed. *)
StillSubscribed(s, a) == s

(* closeSubscribersLocked: the channel closes, what it buffers stays. *)
Unsubscribed(s, a) == IF s.attempt = a THEN [s EXCEPT !.open = FALSE] ELSE s

(* recordProviderEvent: journal the event and publish it, under eventMu. *)
RecordEvent(a) ==
  /\ up /\ state[a] = "active" /\ a \in owned /\ latest[a] < MaxEvents
  /\ latest' = [latest EXCEPT ![a] = @ + 1]
  /\ stream' = [p \in Pumps |-> Published(stream[p], a, latest[a] + 1)]
  /\ UNCHANGED <<state, owned, up, pump, storeVars, admission, faults>>

(* The attempt ends or becomes uncertain, and its subscribers are closed. *)
EndAttempt(a, next) ==
  /\ up /\ state[a] = "active" /\ next \in {"indeterminate", "terminal"}
  /\ state' = [state EXCEPT ![a] = next]
  /\ owned' = owned \ {a}
  /\ stream' = [p \in Pumps |-> Unsubscribed(stream[p], a)]
  /\ UNCHANGED <<latest, up, pump, storeVars, admission, faults>>

(* Supersede closes an indeterminate attempt. *)
Supersede(a) ==
  /\ up /\ state[a] = "indeterminate"
  /\ state' = [state EXCEPT ![a] = "terminal"]
  /\ UNCHANGED <<latest, owned, up, stream, pump, storeVars, admission, faults>>

(* The frames a broken connection had delivered are still readable. *)
Broken(s, k) == [s EXCEPT !.wire = SubSeq(@, 1, k), !.live = <<>>, !.replay = <<>>,
                          !.open = FALSE, !.end = "broken"]

(* The worker container dies with every connection to it. *)
WorkerCrash ==
  /\ up /\ faults < MaxFaults
  /\ up' = FALSE /\ owned' = {}
  /\ stream' = [p \in Pumps |-> IF stream[p].end = "no" THEN Broken(stream[p], 0) ELSE stream[p]]
  /\ faults' = faults + 1
  /\ UNCHANGED <<state, latest, pump, storeVars, admission>>

(* Startup recovery has resumed some interrupted attempts, and fenced the rest. *)
WorkerRestart(resumed) ==
  /\ ~up
  /\ resumed \subseteq {a \in Attempt : state[a] = "active"}
  /\ up' = TRUE /\ owned' = resumed
  /\ state' = [a \in Attempt |-> IF state[a] = "active" /\ a \notin resumed
                                 THEN "indeterminate" ELSE state[a]]
  /\ UNCHANGED <<latest, stream, pump, storeVars, admission, faults>>

----------------------------------------------------------------------------
(* The server side of a stream: streamEvents.                              *)

(* OpenEventStream, under eventMu: the replay, and a subscription unless   *)
(* the attempt is settled or has no active session. *)
Opened(a, after) ==
  [attempt |-> a,
   replay  |-> [i \in 1 .. (latest[a] - after) |-> after + i],
   live    |-> <<>>,
   open    |-> state[a] = "active" /\ a \in owned,
   sent    |-> after, wire |-> <<>>, end |-> "no"]

WireHasRoom(p) == stream[p].end = "no" /\ Len(stream[p].wire) < WireSize

(* The replay is written frame by frame. *)
WriteReplay(p) ==
  LET s == stream[p] IN
  /\ WireHasRoom(p) /\ s.replay # <<>>
  /\ stream' = [stream EXCEPT ![p].replay = Tail(@), ![p].sent = Head(s.replay),
                              ![p].wire = Append(@, Head(s.replay))]
  /\ UNCHANGED <<workerVars, pump, storeVars, admission, faults>>

(* A live event must follow the last one written; otherwise a protocol     *)
(* error ends the stream. *)
WriteLive(p) ==
  LET s == stream[p] IN
  /\ WireHasRoom(p) /\ s.replay = <<>> /\ s.live # <<>>
  /\ stream' = [stream EXCEPT ![p] =
       IF Head(s.live) = s.sent + 1
       THEN [s EXCEPT !.live = Tail(@), !.sent = Head(s.live), !.wire = Append(@, Head(s.live))]
       ELSE [s EXCEPT !.live = <<>>, !.open = FALSE, !.end = "protocol_error"]]
  /\ UNCHANGED <<workerVars, pump, storeVars, admission, faults>>

(* The live channel is closed and drained: the response body ends. *)
EndBody(p) ==
  LET s == stream[p] IN
  /\ s.end = "no" /\ s.replay = <<>> /\ s.live = <<>> /\ ~s.open
  /\ stream' = [stream EXCEPT ![p].end = "eof"]
  /\ UNCHANGED <<workerVars, pump, storeVars, admission, faults>>

(* The connection breaks, or the server's write deadline passes. *)
BreakConnection(p, k) ==
  /\ stream[p].end = "no" /\ k \in 0 .. Len(stream[p].wire)
  /\ faults < MaxFaults
  /\ stream' = [stream EXCEPT ![p] = Broken(@, k)]
  /\ faults' = faults + 1
  /\ UNCHANGED <<workerVars, pump, storeVars, admission>>

----------------------------------------------------------------------------
(* The coordinator: the pump, and the admission of the next turn.          *)

At(p, pc) == pump[p].pc = pc

(* observe calls Run for the session's attempt. *)
Start(p) ==
  /\ pump[p].pc \in {"idle", "recover"} /\ session = "running"
  /\ state[checkpoint.attempt] # "none"
  /\ pump' = [pump EXCEPT ![p] = [IdlePump EXCEPT !.pc = "load"]]
  /\ UNCHANGED <<workerVars, stream, storeVars, admission, faults>>

(* runOnce loads the checkpoint. *)
Load(p) ==
  /\ At(p, "load")
  /\ pump' = [pump EXCEPT ![p].pc = "open", ![p].reference = checkpoint.attempt,
                          ![p].accepted = checkpoint.last]
  /\ UNCHANGED <<workerVars, stream, storeVars, admission, faults>>

GoTo(p, pc) ==
  pump' = [pump EXCEPT ![p] = IF pc = "recover" THEN Recovering ELSE [@ EXCEPT !.pc = pc]]

(* The worker refuses an unknown attempt or a cursor ahead of its history  *)
(* (a RemoteError, which is not retried). *)
Open(p) ==
  LET a == pump[p].reference IN
  /\ At(p, "open")
  /\ \/ ~up /\ GoTo(p, "retry") /\ UNCHANGED stream
     \/ /\ up /\ (state[a] = "none" \/ latest[a] < pump[p].accepted)
        /\ GoTo(p, "recover") /\ UNCHANGED stream
     \/ /\ up /\ state[a] # "none" /\ latest[a] >= pump[p].accepted
        /\ GoTo(p, "read")
        /\ stream' = [stream EXCEPT ![p] = Opened(a, pump[p].accepted)]
  /\ UNCHANGED <<workerVars, storeVars, admission, faults>>

(* Fault: the checkpoint's attempt is not compared. *)
VerdictOfAnyAttempt(a, n) ==
  IF Found(a, n) THEN "replay" ELSE IF n = checkpoint.last + 1 THEN "create" ELSE "sequence_error"

(* What AppendWorkerEvent does with event n of attempt a. *)
Verdict(a, n) ==
  CASE checkpoint.attempt # a -> "attempt_conflict"
    [] checkpoint.attempt = a /\ Found(a, n) ->
         IF checkpoint.last < n THEN "event_conflict" ELSE "replay"
    [] checkpoint.attempt = a /\ ~Found(a, n) ->
         IF n = checkpoint.last + 1 THEN "create" ELSE "sequence_error"

(* IngestNext: the next frame must follow the last accepted event; one     *)
(* transaction stores it with the checkpoint.  Any error closes the stream. *)
IngestNext(p) ==
  LET n == Head(stream[p].wire)
      a == pump[p].reference
      verdict == IF n = pump[p].accepted + 1 THEN Verdict(a, n) ELSE "invalid_response" IN
  /\ At(p, "read") /\ stream[p].wire # <<>>
  /\ \/ /\ verdict \in {"create", "replay"}
        /\ pump' = [pump EXCEPT ![p].accepted = n]
        /\ stream' = [stream EXCEPT ![p].wire = Tail(@)]
     \/ /\ verdict \notin {"create", "replay"}
        /\ pump' = [pump EXCEPT ![p].pc = "inspect", ![p].cause = "error"]
        /\ stream' = [stream EXCEPT ![p] = NoStream]
  /\ IF verdict = "create"
     THEN /\ log' = Append(log, Entry(a, n))
          /\ checkpoint' = [checkpoint EXCEPT !.last = n]
     ELSE UNCHANGED <<log, checkpoint>>
  /\ UNCHANGED <<workerVars, session, admission, faults>>

(* The body ended, cleanly or not, and nothing is left to read. *)
StreamEnds(p) ==
  /\ At(p, "read") /\ stream[p].wire = <<>> /\ stream[p].end # "no"
  /\ pump' = [pump EXCEPT ![p].pc = "inspect",
                          ![p].cause = IF stream[p].end = "eof" THEN "eof" ELSE "error"]
  /\ stream' = [stream EXCEPT ![p] = NoStream]
  /\ UNCHANGED <<workerVars, storeVars, admission, faults>>

(* Fault: the end of the body is taken for the end of the attempt. *)
AfterEndOfBody(p) ==
  IF up /\ state[pump[p].reference] = "terminal" /\ pump[p].cause = "eof" THEN "done" ELSE "retry"

(* classifyStreamEnd and retryableReconnect, from what GetAttempt answers. *)
AfterEnd(p) ==
  LET a == pump[p].reference IN
  CASE ~up -> "retry"
    [] up /\ latest[a] < pump[p].accepted -> "recover"
    [] up /\ latest[a] >= pump[p].accepted ->
         CASE pump[p].cause = "error" -> "retry"
           [] pump[p].cause # "error" /\ state[a] = "indeterminate" -> "recover"
           [] pump[p].cause # "error" /\ state[a] = "terminal" ->
                IF latest[a] > pump[p].accepted THEN "retry" ELSE "done"
           [] OTHER -> "retry"

Inspect(p) ==
  /\ At(p, "inspect")
  /\ GoTo(p, AfterEnd(p))
  /\ UNCHANGED <<workerVars, stream, storeVars, admission, faults>>

(* Run tries again after its delay, *)
Reconnect(p) ==
  /\ At(p, "retry")
  /\ pump' = [pump EXCEPT ![p] = [IdlePump EXCEPT !.pc = "load"]]
  /\ UNCHANGED <<workerVars, stream, storeVars, admission, faults>>

(* or gives up once its window, counted from the start of Run, has passed. *)
GiveUp(p) ==
  /\ At(p, "retry")
  /\ GoTo(p, "recover")
  /\ UNCHANGED <<workerVars, stream, storeVars, admission, faults>>

(* finish: a completed turn leaves the session waiting for the next one;   *)
(* a failed one is left for a recovery successor. *)
Finish(p, completed) ==
  /\ At(p, "done")
  /\ pump' = [pump EXCEPT ![p] = IdlePump]
  /\ session' = IF completed THEN "waiting" ELSE session
  /\ UNCHANGED <<workerVars, stream, checkpoint, log, admission, faults>>

(* validateCompletedTurn: the prior attempt has ended and is fully recorded. *)
FullyRecorded(c) == state[c.attempt] = "terminal" /\ latest[c.attempt] = c.last

(* The next turn reads the checkpoint and has its attempt confirmed. *)
PrepareTurn ==
  /\ admission = NoAdmission /\ up /\ checkpoint.attempt < MaxAttempt
  /\ session = "waiting" /\ FullyRecorded(checkpoint)
  /\ admission' = checkpoint
  /\ UNCHANGED <<workerVars, stream, pump, storeVars, faults>>

(* continueFailedAttempt, when a recovery is due: the attempt has ended,   *)
(* which is all a recovery successor needs.                                *)
PrepareContinuation(p) ==
  /\ Continuations /\ At(p, "recover")
  /\ admission = NoAdmission /\ up /\ checkpoint.attempt < MaxAttempt
  /\ state[checkpoint.attempt] = "terminal"
  /\ session' = "waiting"
  /\ admission' = checkpoint
  /\ UNCHANGED <<workerVars, stream, pump, checkpoint, log, faults>>

(* BeginWorkerTurn (which also records the user's message) and             *)
(* BeginAutonomousTurn: start the next turn in one transaction, if the     *)
(* session waits and its checkpoint is still the one read.                 *)
BeginTurn(userMessage) ==
  /\ admission # NoAdmission
  /\ userMessage => FullyRecorded(admission)
  /\ IF checkpoint = admission /\ session = "waiting"
     THEN /\ checkpoint' = [attempt |-> admission.attempt + 1, last |-> 0]
          /\ log' = IF userMessage THEN Append(log, Entry(admission.attempt + 1, 0)) ELSE log
          /\ session' = "running"
     ELSE UNCHANGED storeVars
  /\ admission' = NoAdmission
  /\ UNCHANGED <<workerVars, stream, pump, faults>>

(* The coordinator process dies with its pumps; SQLite stays. *)
CoordinatorCrash ==
  /\ faults < MaxFaults
  /\ faults' = faults + 1
  /\ pump' = [p \in Pumps |-> Recovering]
  /\ stream' = [p \in Pumps |-> NoStream]
  /\ admission' = NoAdmission
  /\ UNCHANGED <<workerVars, storeVars>>

----------------------------------------------------------------------------
Worker ==
  \/ PutAttempt \/ WorkerCrash
  \/ \E a \in Attempt : RegisterLive(a) \/ RecordEvent(a) \/ Supersede(a)
  \/ \E a \in Attempt, s \in {"indeterminate", "terminal"} : EndAttempt(a, s)
  \/ \E resumed \in SUBSET Attempt : WorkerRestart(resumed)

Server(p) == WriteReplay(p) \/ WriteLive(p) \/ EndBody(p)

Pump(p) == Load(p) \/ Open(p) \/ IngestNext(p) \/ StreamEnds(p) \/ Inspect(p)

Next ==
  \/ Worker
  \/ \E p \in Pumps : Server(p) \/ Pump(p) \/ Start(p) \/ Reconnect(p) \/ GiveUp(p)
  \/ \E p \in Pumps, k \in 0 .. WireSize : BreakConnection(p, k)
  \/ \E p \in Pumps : PrepareContinuation(p) \/ \E completed \in BOOLEAN : Finish(p, completed)
  \/ PrepareTurn \/ CoordinatorCrash
  \/ \E userMessage \in BOOLEAN : BeginTurn(userMessage)

Spec == Init /\ [][Next]_vars

(* A pump's own steps and its server's are goroutines that keep running.   *)
(* Run's deadline is fixed when it starts, so a pump that keeps retrying   *)
(* gives up in the end: strong fairness of GiveUp.  Nothing obliges the    *)
(* worker to come back.                                                    *)
FairSpec ==
  /\ Spec
  /\ \A p \in Pumps : WF_vars(Server(p)) /\ WF_vars(Pump(p)) /\ WF_vars(Reconnect(p))
  /\ \A p \in Pumps : SF_vars(GiveUp(p))

----------------------------------------------------------------------------
(* The variables have their types. *)
TypeOK ==
  /\ state \in [Attempt -> {"none", "active", "indeterminate", "terminal"}]
  /\ latest \in [Attempt -> 0 .. MaxEvents]
  /\ owned \subseteq Attempt /\ up \in BOOLEAN
  /\ stream \in [Pumps -> [attempt : Attempt \cup {0}, replay : Seq(EventSeq),
                           live : Seq(EventSeq), open : BOOLEAN, sent : 0 .. MaxEvents,
                           wire : Seq(EventSeq),
                           end : {"no", "eof", "broken", "protocol_error", "closed"}]]
  /\ pump \in [Pumps -> [pc : {"idle", "load", "open", "read", "inspect", "retry", "done", "recover"},
                         reference : Attempt \cup {0},
                         accepted : 0 .. MaxEvents, cause : {"none", "eof", "error"}]]
  /\ checkpoint \in Checkpoint
  /\ log \in Seq([attempt : Attempt, seq : 0 .. MaxEvents])
  /\ session \in {"running", "waiting"}
  /\ admission \in Checkpoint \cup {NoAdmission}
  /\ faults \in 0 .. MaxFaults

(* Whatever breaks, restarts or runs twice, the session log is in order    *)
(* and repeats nothing: attempts follow each other, events of one attempt  *)
(* ascend, and the current attempt's copy is exactly the prefix its        *)
(* checkpoint names, which the worker really recorded (AppendWorkerEvent). *)
FaithfulCopy ==
  /\ \A i, j \in DOMAIN log : i < j =>
       \/ log[i].attempt < log[j].attempt
       \/ log[i].attempt = log[j].attempt /\ log[i].seq < log[j].seq
  /\ \A n \in EventSeq : Found(checkpoint.attempt, n) <=> n <= checkpoint.last
  /\ \A a \in Attempt, n \in EventSeq : Found(a, n + 1) => Found(a, n)
  /\ \A i \in DOMAIN log : log[i].seq <= latest[log[i].attempt]

(* What is on its way to a pump: in flight, left of the replay, buffered live. *)
Underway(p) == stream[p].wire \o stream[p].replay \o stream[p].live

(* No event falls between the replay and the subscription: what is on its  *)
(* way to a reading pump continues exactly where its last accepted event   *)
(* ends, and a stream that is still subscribed lacks no recorded event     *)
(* (OpenEventStream and publishLocked under eventMu).                      *)
NothingFallsBetween ==
  \A p \in Pumps : At(p, "read") =>
    LET s == stream[p] u == Underway(p) IN
    /\ \A i \in DOMAIN u : u[i] = pump[p].accepted + i
    /\ s.end # "protocol_error"
    /\ s.open => pump[p].accepted + Len(u) = latest[s.attempt]

(* The copy and the streams that feed it are sound at every moment. *)
CopyIsSound == TypeOK /\ FaithfulCopy /\ NothingFallsBetween

(* Run reports completion only for an ended attempt of which SQLite has    *)
(* accepted every event the worker says exists (docs/worker-api.md:322).   *)
CompletionIsComplete ==
  \A p \in Pumps : At(p, "done") =>
    LET a == pump[p].reference IN
    state[a] = "terminal" /\ \A n \in 1 .. latest[a] : Found(a, n)

(* The session log and its checkpoint are an ordered copy, however the     *)
(* events travelled.                                                       *)
Copy == INSTANCE OrderedCopy WITH cursor <- checkpoint
ImplementsOrderedCopy == Copy!Spec

(* Once the attempt it follows has ended, a pump's Run returns, whatever   *)
(* breaks and whether or not the worker comes back, unless a recovery gives *)
(* it another attempt to follow: it does not wait for ever for events that  *)
(* will not come (Run, runOnce).                                            *)
PumpReturns ==
  \A p \in Pumps :
    (pump[p].pc \in {"load", "open", "read", "inspect", "retry"} /\ state[checkpoint.attempt] = "terminal")
      ~> (pump[p].pc \in {"idle", "done", "recover"} \/ state[checkpoint.attempt] # "terminal")
=============================================================================
