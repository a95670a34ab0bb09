---------------------------- MODULE WorkerService ----------------------------
(***************************************************************************)
(* The journal-backed worker service (internal/workerservice) on top of    *)
(* WorkerJournal: the request handlers PutAttempt, SendCommand, ForceStop  *)
(* and Supersede, the watcher goroutine (supervise) of every owned         *)
(* provider session, and startup recovery (New).                           *)
(*                                                                         *)
(* Granularity.  Every journal transaction is one step; a handler keeps    *)
(* what it read from one transaction to the next, so its later             *)
(* compare-and-set can lose to another goroutine.  Reads whose outcome no  *)
(* concurrent step can change are merged with the transaction that         *)
(* follows them.  eventMu is held by whoever is between two steps of a     *)
(* locked section; EventMuFree says that nobody is.                        *)
(*                                                                         *)
(* An HTTP request ends when its client disconnects (the handlers run on   *)
(* r.Context()): a handler whose next steps are bound to the request       *)
(* context may stop there, which is Abandon.                               *)
(***************************************************************************)
EXTENDS Naturals

CONSTANTS
    Attempt, SessionOf(_), Key, ProviderID, NoID, MaxEvents,
    MaxCrashes,      \* bound: worker restarts
    MaxCorrections,  \* maxResultCorrections of one owned session
    ClientKinds,     \* the mutation kinds the clients send
    EmittedEvents    \* the event types the provider emits

ASSUME JournalAssumption == NoID \notin ProviderID /\ MaxEvents \in Nat
ASSUME MaxCrashesAssumption == MaxCrashes \in Nat
ASSUME MaxCorrectionsAssumption == MaxCorrections \in Nat

VARIABLES
    \* the journal's rows
    state, provider, mode, outcome, latest, event, status, request,
    \* the memory of the worker process
    phase,        \* "down", "recovering" (inside New) or "serving"
    recovering,   \* interrupted attempts New has still to resume
    active,       \* Service.active: references with an owned session
    unfenced,     \* Service.unfenced
    put,          \* the PutAttempt call that created the attempt
    handler,      \* the call that claimed the mutation
    watcher,      \* the supervise goroutine of the attempt
    corrections,  \* activeProviderSession.corrections
    \* the outside
    process,      \* the attempt's provider process: "none", "alive", "ended"
    conversation, \* the provider session that process belongs to
    delivered,    \* how often the mutation was handed to the provider
    crashes       \* worker restarts so far

journal == <<state, provider, mode, outcome, latest, event, status, request>>
memory == <<phase, recovering, active, unfenced, put, handler, watcher,
            corrections>>
outside == <<process, conversation, delivered, crashes>>
vars == <<journal, memory, outside>>

CommandKind == {"message", "pause", "continue", "stop"}

MutationKind == CommandKind \cup {"force_stop", "supersede"}

\* What the watcher does with an event depends on these types; "activity"
\* stands for every event type that changes no state.
ProviderEvent == {"activity", "recovery_assessment", "pause_acknowledged",
                  "continued"}

EventType == ProviderEvent \cup {"redaction_failure", "attempt_terminal"}

J == INSTANCE WorkerJournal WITH Request <- MutationKind

Mutation == Attempt \X Key

Settled == {"terminal", "indeterminate"}

ASSUME InputsAssumption ==
    ClientKinds \subseteq MutationKind /\ EmittedEvents \subseteq ProviderEvent

\* A handler at rest, and the fields a running one uses: its program counter,
\* the attempt state it last read or wrote, the resolution it will record, and
\* whether its next steps are bound to the request context.
Idle == [pc |-> "idle", saw |-> "absent", verdict |-> "pending", bound |-> FALSE]

WatcherAt == [pc : {"none", "loop", "apply", "applied", "fence", "fencing",
                    "failed", "correct", "finish", "reread", "complete",
                    "give_up", "giving_up", "leaving"},
              saw : J!AttemptState \cup {"absent"}]

NoWatcher == [pc |-> "none", saw |-> "absent"]

At(a, p) == watcher[a].pc = p

EventMuFree ==
    /\ \A a \in Attempt : watcher[a].pc \notin
            {"apply", "applied", "fence", "fencing", "reread", "complete",
             "give_up", "giving_up"}
    /\ \A m \in Mutation : handler[m].pc # "marking"

\* Bound: leave room for the terminal event of this and every later life.
Room(a) == latest[a] + 1 + (MaxCrashes - crashes) < MaxEvents

Init ==
    /\ J!Init
    /\ phase = "serving"
    /\ recovering = {}
    /\ active = {}
    /\ unfenced = {}
    /\ put = [a \in Attempt |-> "idle"]
    /\ handler = [m \in Mutation |-> Idle]
    /\ watcher = [a \in Attempt |-> NoWatcher]
    /\ corrections = [a \in Attempt |-> 0]
    /\ process = [a \in Attempt |-> "none"]
    /\ conversation = [a \in Attempt |-> NoID]
    /\ delivered = [m \in Mutation |-> 0]
    /\ crashes = 0

-----------------------------------------------------------------------------
(* PutAttempt.                                                             *)

\* CreateAttempt; an exact retry and a refused creation change nothing.
PutAttempt(a, l) ==
    /\ phase = "serving"
    /\ J!CreateAttempt(a, l)
    /\ put' = [put EXCEPT ![a] = "launching"]
    /\ UNCHANGED <<phase, recovering, active, unfenced, handler, watcher,
                   corrections, outside>>

\* The transition that ends a launch: it is written if the journal accepts it
\* and the request is still there, otherwise the call returns an error.
LaunchTransition(a, next, id, o) ==
    \/ J!TransitionAttempt(a, "starting", next, id, o)
    \/ UNCHANGED journal

\* No session was started: the environment was refused or the provider did not
\* launch.
FailLaunch(a) ==
    /\ put[a] = "launching"
    /\ LaunchTransition(a, "terminal", NoID, "failed")
    /\ put' = [put EXCEPT ![a] = "idle"]
    /\ UNCHANGED <<phase, recovering, active, unfenced, handler, watcher,
                   corrections, outside>>

\* The adapter returned a session and an error, and has stopped its process;
\* or a session of no or of another conversation, whose process nobody stops.
UncertainLaunch(a) ==
    /\ put[a] = "launching"
    /\ \E id \in J!OptionalID :
        /\ mode[a] = "resume" => id \in {provider[a], NoID}
        /\ LaunchTransition(a, "indeterminate", id, "none")
        /\ conversation' = [conversation EXCEPT ![a] = id]
    /\ \E p \in {"ended", "alive"} : process' = [process EXCEPT ![a] = p]
    /\ put' = [put EXCEPT ![a] = "idle"]
    /\ UNCHANGED <<phase, recovering, active, unfenced, handler, watcher,
                   corrections, delivered, crashes>>

\* Start opens a new conversation, Resume the requested one.
LaunchProvider(a) ==
    /\ put[a] = "launching"
    /\ \E id \in ProviderID :
        /\ mode[a] = "resume" => id = provider[a]
        /\ conversation' = [conversation EXCEPT ![a] = id]
    /\ process' = [process EXCEPT ![a] = "alive"]
    /\ put' = [put EXCEPT ![a] = "launched"]
    /\ UNCHANGED <<journal, phase, recovering, active, unfenced, handler,
                   watcher, corrections, delivered, crashes>>

\* If the journal refuses running, the call returns with the session neither
\* stopped nor registered.
StartRunning(a) ==
    /\ put[a] = "launched"
    /\ \/ /\ J!TransitionAttempt(a, "starting", "running", conversation[a],
                                 "none")
          /\ put' = [put EXCEPT ![a] = "registering"]
       \/ /\ UNCHANGED journal
          /\ put' = [put EXCEPT ![a] = "idle"]
    /\ UNCHANGED <<phase, recovering, active, unfenced, handler, watcher,
                   corrections, outside>>

\* The session becomes owned and its watcher starts.
Own(a) ==
    /\ active' = active \cup {a}
    /\ watcher' = [watcher EXCEPT ![a] = [pc |-> "loop", saw |-> "absent"]]
    /\ corrections' = [corrections EXCEPT ![a] = 0]

Register(a) ==
    /\ put[a] = "registering"
    /\ Own(a)
    /\ put' = [put EXCEPT ![a] = "idle"]
    /\ UNCHANGED <<journal, phase, recovering, unfenced, handler, outside>>

-----------------------------------------------------------------------------
(* The mutation handlers: SendCommand, ForceStop and Supersede.  Only the  *)
(* call that claims the key goes on; a retry reads the stored answer.      *)

Step(m, new) == handler' = [handler EXCEPT ![m] = new]

\* Fault: a retry of a pending mutation runs it again.
ClaimOrRetry(a, k, c) ==
    /\ phase = "serving"
    /\ \/ J!ClaimMutation(a, k, c)
       \/ status[<<a, k>>] = "pending" /\ request[<<a, k>>] = c
          /\ handler[<<a, k>>] = Idle /\ UNCHANGED journal
    /\ Step(<<a, k>>, [pc |-> "claimed", saw |-> "absent",
                       verdict |-> "pending", bound |-> TRUE])
    /\ UNCHANGED <<phase, recovering, active, unfenced, put, watcher,
                   corrections, outside>>

Claim(a, k, c) ==
    /\ phase = "serving"
    /\ J!ClaimMutation(a, k, c)
    /\ Step(<<a, k>>, [pc |-> "claimed", saw |-> "absent",
                       verdict |-> "pending", bound |-> TRUE])
    /\ UNCHANGED <<phase, recovering, active, unfenced, put, watcher,
                   corrections, outside>>

\* Everything but the handler stays as it is.
HandlerOnly ==
    UNCHANGED <<journal, phase, recovering, active, unfenced, put, watcher,
                corrections, outside>>

\* After the read SendCommand still depends on the request; ForceStop and
\* Supersede record their answer without it.
ReadAttempt(a, k) ==
    LET m == <<a, k>> IN
    /\ handler[m].pc = "claimed"
    /\ Step(m, [handler[m] EXCEPT !.pc = "read", !.saw = state[a],
                                  !.bound = request[m] \in CommandKind])
    /\ HandlerOnly

\* The client disconnected: the call ends and its mutation stays pending.  A
\* Send that is cut off is an unknown delivery instead.
Abandon(a, k) ==
    /\ handler[<<a, k>>].bound
    /\ handler[<<a, k>>].pc # "send"
    /\ Step(<<a, k>>, Idle)
    /\ HandlerOnly

Decide(m, r) == [handler[m] EXCEPT !.pc = "resolve", !.verdict = r]

\* prepareCommand and prepareForceStop: the states a mutation is valid in and
\* the state it moves the attempt to.
ValidIn(c) ==
    CASE c = "pause"      -> {"running"}
      [] c = "continue"   -> {"paused"}
      [] c = "force_stop" -> {"running", "pause_requested", "paused",
                              "stop_requested"}
      [] OTHER            -> {"running", "pause_requested", "paused"}

Prepared(c, s) ==
    CASE c = "pause"                  -> "pause_requested"
      [] c \in {"stop", "force_stop"} -> "stop_requested"
      [] OTHER                        -> s

\* No owned session.  SendCommand reports the delivery as unknown; ForceStop
\* does so unless the attempt has become terminal.
MissingSession(a, k) ==
    LET m == <<a, k>>
        finished == request[m] = "force_stop" /\ state[a] = "terminal" IN
    /\ handler[m].pc = "read"
    /\ request[m] # "supersede"
    /\ handler[m].saw # "indeterminate"
    /\ a \notin active
    /\ Step(m, Decide(m, IF finished THEN "rejected" ELSE "indeterminate"))
    /\ HandlerOnly

\* A command or force stop of an attempt read as indeterminate goes nowhere.
FencedAttempt(a, k) ==
    LET m == <<a, k>> IN
    /\ handler[m].pc = "read"
    /\ request[m] # "supersede"
    /\ handler[m].saw = "indeterminate"
    /\ Step(m, Decide(m, "indeterminate"))
    /\ HandlerOnly

\* The transition is a compare-and-set on the state that was read; when it is
\* refused, or the state does not allow the mutation, it is rejected.
Prepare(a, k) ==
    LET m == <<a, k>>
        saw == handler[m].saw
        next == Prepared(request[m], saw) IN
    /\ handler[m].pc = "read"
    /\ request[m] # "supersede"
    /\ saw # "indeterminate"
    /\ a \in active
    /\ \/ /\ saw \in ValidIn(request[m])
          /\ \/ /\ next # saw
                /\ J!TransitionAttempt(a, saw, next, NoID, "none")
             \/ /\ next = saw
                /\ UNCHANGED journal
          /\ Step(m, [handler[m] EXCEPT !.pc = "send", !.saw = next])
       \/ /\ \/ saw \notin ValidIn(request[m])
             \/ next # saw /\ ~J!TransitionAccepts(a, saw, next, NoID, "none")
             \* the request context ended
             \/ next # saw /\ request[m] = "force_stop"
          /\ Step(m, Decide(m, "rejected"))
          /\ UNCHANGED journal
    /\ UNCHANGED <<phase, recovering, active, unfenced, put, watcher,
                   corrections, outside>>

\* Session.Send.  A known rejection proves that nothing was delivered; any
\* other error proves nothing.
Send(a, k) ==
    LET m == <<a, k>> IN
    /\ handler[m].pc = "send" /\ ~At(a, "correct")
    /\ request[m] \in CommandKind
    /\ \/ /\ process[a] = "alive"
          /\ Step(m, Decide(m, "applied"))
          /\ delivered' = [delivered EXCEPT ![m] = @ + 1]
       \/ /\ Step(m, Decide(m, "rejected"))
          /\ UNCHANGED delivered
       \/ /\ Step(m, [Decide(m, "indeterminate") EXCEPT !.bound = FALSE])
          /\ \/ /\ process[a] = "alive"
                /\ delivered' = [delivered EXCEPT ![m] = @ + 1]
             \/ UNCHANGED delivered
    /\ UNCHANGED <<journal, phase, recovering, active, unfenced, put, watcher,
                   corrections, process, conversation, crashes>>

\* ForceStoppableSession.ForceStop: the process is gone, or the call failed and
\* it may or may not be.
SendForceStop(a, k) ==
    LET m == <<a, k>> IN
    /\ handler[m].pc = "send" /\ ~At(a, "correct")
    /\ request[m] = "force_stop"
    /\ delivered' = [delivered EXCEPT ![m] = @ + 1]
    /\ \/ /\ Step(m, [handler[m] EXCEPT !.pc = "await"])
          /\ process' = [process EXCEPT ![a] = "ended"]
       \/ /\ Step(m, Decide(m, "indeterminate"))
          /\ \/ process' = [process EXCEPT ![a] = "ended"]
             \/ UNCHANGED process
    /\ UNCHANGED <<journal, phase, recovering, active, unfenced, put, watcher,
                   corrections, conversation, crashes>>

\* Fault: the end of the process is taken for the end of the attempt.
AwaitWithoutReading(a, k) ==
    LET m == <<a, k>> IN
    /\ handler[m].pc = "await"
    /\ At(a, "none")
    /\ Step(m, Decide(m, "applied"))
    /\ HandlerOnly

\* The watcher closed live.finished, or forceStopTimeout passed first.
AwaitFinished(a, k) ==
    LET m == <<a, k>> IN
    /\ handler[m].pc = "await"
    /\ \/ /\ At(a, "none")
          /\ Step(m, [Decide(m, IF state[a] = "terminal" THEN "applied"
                                ELSE "indeterminate") EXCEPT !.saw = state[a]])
       \/ Step(m, Decide(m, "indeterminate"))
    /\ HandlerOnly

\* Supersede is refused while a session is owned or could not be stopped.
CheckSupersede(a, k) ==
    LET m == <<a, k>>
        refused == a \in active \cup unfenced \/ handler[m].saw # "indeterminate"
    IN
    /\ handler[m].pc = "read"
    /\ request[m] = "supersede"
    /\ Step(m, IF refused THEN Decide(m, "rejected")
               ELSE [handler[m] EXCEPT !.pc = "close"])
    /\ HandlerOnly

\* A conflict, or the end of the request, leaves the answer indeterminate.
Close(a, k) ==
    LET m == <<a, k>> IN
    /\ handler[m].pc = "close"
    /\ \/ /\ J!TransitionAttempt(a, "indeterminate", "terminal", provider[a],
                                 "stopped")
          /\ Step(m, [Decide(m, "applied") EXCEPT !.bound = TRUE])
       \/ /\ Step(m, Decide(m, "indeterminate"))
          /\ UNCHANGED journal
    /\ UNCHANGED <<phase, recovering, active, unfenced, put, watcher,
                   corrections, outside>>

\* What follows the recorded answer: an unknown delivery fences the attempt,
\* a pause the provider refused is taken back.
AfterResolve(m) ==
    CASE /\ handler[m].verdict = "indeterminate"
         /\ request[m] # "supersede"
         /\ handler[m].saw # "indeterminate" -> "mark"
      [] /\ handler[m].verdict = "rejected"
         /\ request[m] = "pause"
         /\ handler[m].saw = "pause_requested" -> "rollback"
      [] OTHER -> "idle"

GoTo(m, pc) == IF pc = "idle" THEN Idle ELSE [handler[m] EXCEPT !.pc = pc]

Resolve(a, k) ==
    LET m == <<a, k>> IN
    /\ handler[m].pc = "resolve"
    /\ J!ResolveMutation(a, k, handler[m].verdict)
    /\ Step(m, GoTo(m, AfterResolve(m)))
    /\ UNCHANGED <<phase, recovering, active, unfenced, put, watcher,
                   corrections, outside>>

\* Fault: the rollback does not compare the state.
RollbackBlindly(a, k) ==
    LET m == <<a, k>> IN
    /\ handler[m].pc = "rollback"
    /\ state' = [state EXCEPT ![a] = "running"]
    /\ Step(m, Idle)
    /\ UNCHANGED <<provider, mode, outcome, latest, event, status, request,
                   phase, recovering, active, unfenced, put, watcher,
                   corrections, outside>>

Rollback(a, k) ==
    LET m == <<a, k>> IN
    /\ handler[m].pc = "rollback"
    /\ \/ J!TransitionAttempt(a, "pause_requested", "running", NoID, "none")
       \/ /\ state[a] # "pause_requested"
          /\ UNCHANGED journal
    /\ Step(m, Idle)
    /\ UNCHANGED <<phase, recovering, active, unfenced, put, watcher,
                   corrections, outside>>

\* markIndeterminate: under eventMu, read the state and then compare-and-set.
MarkRead(a, k) ==
    LET m == <<a, k>> IN
    /\ handler[m].pc = "mark"
    /\ EventMuFree
    /\ Step(m, IF state[a] \in Settled THEN Idle
               ELSE [handler[m] EXCEPT !.pc = "marking", !.saw = state[a],
                                       !.bound = FALSE])
    /\ HandlerOnly

\* Fault: the mark does not compare the state.
MarkBlindly(a, saw) ==
    /\ state' = [state EXCEPT ![a] = "indeterminate"]
    /\ UNCHANGED <<provider, mode, outcome, latest, event, status, request>>

\* The compare-and-set of markIndeterminateLocked, lost when the state moved.
MarkFrom(a, saw) ==
    \/ J!TransitionAttempt(a, saw, "indeterminate", NoID, "none")
    \/ /\ state[a] # saw
       /\ UNCHANGED journal

Mark(a, k) ==
    LET m == <<a, k>> IN
    /\ handler[m].pc = "marking"
    /\ MarkFrom(a, handler[m].saw)
    /\ Step(m, Idle)
    /\ UNCHANGED <<phase, recovering, active, unfenced, put, watcher,
                   corrections, outside>>

-----------------------------------------------------------------------------
(* The watcher: supervise, recordProviderEvent and finishAttempt.          *)

WatcherTo(a, pc, saw) ==
    watcher' = [watcher EXCEPT ![a] = [pc |-> pc, saw |-> saw]]

\* Everything but the watcher and the journal stays as it is.
WatcherOnly ==
    UNCHANGED <<phase, recovering, active, unfenced, put, handler, corrections,
                outside>>

\* An event of a fenced or finished attempt is refused.
RefuseEvent(a) ==
    /\ At(a, "loop") /\ process[a] = "alive"
    /\ EventMuFree
    /\ state[a] \in Settled
    /\ WatcherTo(a, "failed", "absent")
    /\ UNCHANGED journal
    /\ WatcherOnly

\* Fault: the state of the attempt is not looked at.
RecordAnyEvent(a, e) ==
    /\ At(a, "loop") /\ process[a] = "alive"
    /\ EventMuFree
    /\ Room(a)
    /\ J!AppendEvent(a, latest[a] + 1, e)
    /\ WatcherTo(a, IF e = "activity" THEN "loop" ELSE "apply", "absent")
    /\ WatcherOnly

\* The event is stored and published; some types then move the attempt.
RecordEvent(a, e) ==
    /\ At(a, "loop") /\ process[a] = "alive"
    /\ EventMuFree
    /\ state[a] \notin Settled
    /\ Room(a)
    /\ J!AppendEvent(a, latest[a] + 1, e)
    /\ WatcherTo(a, IF e = "activity" THEN "loop" ELSE "apply", "absent")
    /\ WatcherOnly

\* Normalization failed closed: a generic event, then the fence.
RejectEvent(a) ==
    /\ At(a, "loop") /\ (process[a] = "alive" \/ corrections[a] < MaxCorrections)
    /\ EventMuFree
    /\ state[a] \notin Settled
    /\ Room(a)
    /\ J!AppendEvent(a, latest[a] + 1, "redaction_failure")
    /\ WatcherTo(a, "fence", "absent")
    /\ WatcherOnly

\* The state an event expects and the one it leads to; a recovery assessment
\* goes through pause_requested to paused in two transactions.
Expects(e) == CASE e = "recovery_assessment" -> "running"
                [] e = "pause_acknowledged"  -> "pause_requested"
                [] OTHER                     -> "paused"

LeadsTo(e) == CASE e = "recovery_assessment" -> "pause_requested"
                [] e = "pause_acknowledged"  -> "paused"
                [] OTHER                     -> "running"

\* applyEventStateLocked: an event the attempt's state does not allow fences
\* the attempt.
ApplyEvent(a) ==
    LET e == event[a][latest[a]] IN
    /\ At(a, "apply")
    /\ \/ /\ J!TransitionAttempt(a, Expects(e), LeadsTo(e), NoID, "none")
          /\ WatcherTo(a, IF e = "recovery_assessment" THEN "applied"
                          ELSE "loop", "absent")
       \/ /\ state[a] # Expects(e)
          /\ WatcherTo(a, "fence", "absent")
          /\ UNCHANGED journal
    /\ WatcherOnly

ApplyPaused(a) ==
    /\ At(a, "applied")
    /\ \/ /\ J!TransitionAttempt(a, "pause_requested", "paused", NoID, "none")
          /\ WatcherTo(a, "loop", "absent")
       \/ /\ state[a] # "pause_requested"
          /\ WatcherTo(a, "fence", "absent")
          /\ UNCHANGED journal
    /\ WatcherOnly

\* markIndeterminateLocked of a failed event or of an unusable result: a read,
\* then the compare-and-set.
WatcherMarkRead(a) ==
    /\ watcher[a].pc \in {"fence", "give_up"}
    /\ LET after == IF At(a, "fence") THEN "failed" ELSE "leaving"
           during == IF At(a, "fence") THEN "fencing" ELSE "giving_up" IN
       WatcherTo(a, IF state[a] \in Settled THEN after ELSE during, state[a])
    /\ UNCHANGED journal
    /\ WatcherOnly

WatcherMark(a) ==
    /\ watcher[a].pc \in {"fencing", "giving_up"}
    /\ MarkFrom(a, watcher[a].saw)
    /\ WatcherTo(a, IF At(a, "fencing") THEN "failed" ELSE "leaving", "absent")
    /\ WatcherOnly

\* forceStopAfterSupervisionFailure: a session that cannot be stopped stays in
\* unfenced when the watcher leaves.
StopAfterFailure(a) ==
    /\ At(a, "failed")
    /\ \/ /\ process' = [process EXCEPT ![a] = "ended"]
          /\ WatcherTo(a, "finish", "absent")
          /\ UNCHANGED unfenced
       \/ /\ unfenced' = unfenced \cup {a}
          /\ WatcherTo(a, "leaving", "absent")
          /\ UNCHANGED process
    /\ UNCHANGED <<journal, phase, recovering, active, put, handler,
                   corrections, conversation, delivered, crashes>>

\* The provider process ends on its own.
ProviderEnds(a) ==
    /\ process[a] = "alive"
    /\ process' = [process EXCEPT ![a] = "ended"]
    /\ UNCHANGED <<journal, memory, conversation, delivered, crashes>>

\* resubmitRejectedResult: the structured result was rejected, which is noted,
\* and the same conversation is resumed inside the running attempt to correct
\* it.  Commands wait until it is back (live.mu).
Correct(a) ==
    /\ At(a, "loop") /\ process[a] = "ended"
    /\ EventMuFree
    /\ corrections[a] < MaxCorrections
    /\ state[a] = "running" /\ provider[a] = conversation[a]
    /\ Room(a)
    /\ J!AppendEvent(a, latest[a] + 1, "activity")
    /\ WatcherTo(a, "correct", "absent")
    /\ WatcherOnly

ResumeCorrected(a) ==
    /\ At(a, "correct") /\ corrections[a] < MaxCorrections
    /\ \/ /\ WatcherTo(a, "loop", "absent")
          /\ process' = [process EXCEPT ![a] = "alive"]
          /\ corrections' = [corrections EXCEPT ![a] = @ + 1]
       \/ /\ WatcherTo(a, "finish", "absent")
          /\ UNCHANGED <<process, corrections>>
    /\ UNCHANGED <<journal, phase, recovering, active, unfenced, put, handler,
                   conversation, delivered, crashes>>

EventsClosed(a) ==
    /\ At(a, "loop") /\ process[a] = "ended"
    /\ WatcherTo(a, "finish", "absent")
    /\ UNCHANGED journal
    /\ WatcherOnly

\* finishAttempt up to the terminal event: a result of another conversation, or
\* one that fails validation, fences the attempt instead; a superseded attempt
\* refuses the event.
Finish(a) ==
    /\ At(a, "finish")
    /\ EventMuFree
    /\ \/ /\ J!AppendEvent(a, latest[a] + 1, "attempt_terminal")
          /\ WatcherTo(a, "reread", "absent")
       \/ /\ WatcherTo(a, "give_up", "absent")
          /\ UNCHANGED journal
    /\ WatcherOnly

\* completeAttemptLocked after its event: the state is read again and the
\* attempt made terminal from it, unless a command moved it in between.
Reread(a) ==
    /\ At(a, "reread")
    /\ WatcherTo(a, "complete", state[a])
    /\ UNCHANGED journal
    /\ WatcherOnly

Complete(a) ==
    /\ At(a, "complete")
    /\ \/ /\ \E o \in J!Outcome :
                J!TransitionAttempt(a, watcher[a].saw, "terminal", provider[a], o)
          /\ WatcherTo(a, "leaving", "absent")
       \/ /\ state[a] # watcher[a].saw
          /\ WatcherTo(a, "give_up", "absent")
          /\ UNCHANGED journal
    /\ WatcherOnly

\* The deferred removeActive and close(live.finished).
Leave(a) ==
    /\ At(a, "leaving")
    /\ active' = active \ {a}
    /\ watcher' = [watcher EXCEPT ![a] = NoWatcher]
    /\ UNCHANGED <<journal, phase, recovering, unfenced, put, handler,
                   corrections, outside>>

-----------------------------------------------------------------------------
(* Restart.  The container's processes die with it; the journal survives.  *)

Crash ==
    /\ crashes < MaxCrashes
    /\ crashes' = crashes + 1
    /\ phase' = "down"
    /\ recovering' = {}
    /\ active' = {}
    /\ unfenced' = {}
    /\ put' = [a \in Attempt |-> "idle"]
    /\ handler' = [m \in Mutation |-> Idle]
    /\ watcher' = [a \in Attempt |-> NoWatcher]
    /\ corrections' = [a \in Attempt |-> 0]
    /\ process' = [a \in Attempt |->
                      IF process[a] = "alive" THEN "ended" ELSE process[a]]
    /\ UNCHANGED <<journal, conversation, delivered>>

Recover ==
    /\ phase = "down"
    /\ J!PrepareInterruptedRecovery
    /\ phase' = "recovering"
    /\ recovering' = J!Resumable
    /\ UNCHANGED <<active, unfenced, put, handler, watcher, corrections,
                   outside>>

\* Fault: the resumed session is taken whatever conversation it is of.
ResumedSomething(a, id) == TRUE

\* Only a session of the conversation that was asked for is taken.
ResumedTheSame(a, id) == id = provider[a]

ResumeInterrupted(a) ==
    /\ a \in recovering
    /\ recovering' = recovering \ {a}
    /\ \E id \in ProviderID :
        /\ ResumedTheSame(a, id)
        /\ conversation' = [conversation EXCEPT ![a] = id]
    /\ Own(a)
    /\ process' = [process EXCEPT ![a] = "alive"]
    /\ UNCHANGED <<journal, phase, unfenced, put, handler, delivered, crashes>>

\* The resume failed, or gave another conversation, which was stopped.
ResumeFails(a) ==
    /\ a \in recovering
    /\ EventMuFree
    /\ recovering' = recovering \ {a}
    /\ J!TransitionAttempt(a, state[a], "indeterminate", NoID, "none")
    /\ UNCHANGED <<phase, active, unfenced, put, handler, watcher, corrections,
                   outside>>

Serve ==
    /\ phase = "recovering" /\ recovering = {}
    /\ phase' = "serving"
    /\ UNCHANGED <<journal, recovering, active, unfenced, put, handler, watcher,
                   corrections, outside>>

-----------------------------------------------------------------------------

Launching(a) ==
    FailLaunch(a) \/ UncertainLaunch(a) \/ LaunchProvider(a)
        \/ StartRunning(a) \/ Register(a)

Handling(a, k) ==
    \/ ReadAttempt(a, k) \/ MissingSession(a, k) \/ FencedAttempt(a, k)
    \/ Prepare(a, k) \/ Send(a, k) \/ SendForceStop(a, k)
    \/ AwaitFinished(a, k) \/ CheckSupersede(a, k) \/ Close(a, k)
    \/ Resolve(a, k) \/ Rollback(a, k) \/ MarkRead(a, k) \/ Mark(a, k)

Watching(a) ==
    \/ RefuseEvent(a) \/ (\E e \in EmittedEvents : RecordEvent(a, e))
    \/ RejectEvent(a) \/ ApplyEvent(a) \/ ApplyPaused(a)
    \/ WatcherMarkRead(a) \/ WatcherMark(a) \/ StopAfterFailure(a)
    \/ Correct(a) \/ ResumeCorrected(a) \/ EventsClosed(a)
    \/ Finish(a) \/ Reread(a) \/ Complete(a) \/ Leave(a)

Resuming == (\E a \in Attempt : ResumeInterrupted(a) \/ ResumeFails(a)) \/ Serve

Next ==
    \/ \E a \in Attempt :
        \/ \E l \in J!Launch : PutAttempt(a, l)
        \/ Launching(a)
        \/ Watching(a)
        \/ ProviderEnds(a)
        \/ \E k \in Key :
            \/ \E c \in ClientKinds : Claim(a, k, c)
            \/ Handling(a, k)
            \/ Abandon(a, k)
    \/ Crash
    \/ Recover
    \/ Resuming

Spec == Init /\ [][Next]_vars

\* The goroutines of a live worker keep running, and New, once started, runs to
\* its end.  Nothing obliges a provider process to end, a client to send a
\* request, or the worker to crash or to be started again.
Fairness ==
    /\ WF_vars(Resuming)
    /\ \A a \in Attempt : WF_vars(Launching(a)) /\ WF_vars(Watching(a))
    /\ \A a \in Attempt, k \in Key : WF_vars(Handling(a, k))

FairSpec == Spec /\ Fairness

-----------------------------------------------------------------------------
(* Properties.                                                             *)

HandlerState ==
    [pc : {"idle", "claimed", "read", "send", "await", "close", "resolve",
           "rollback", "mark", "marking"},
     saw : J!AttemptState \cup {"absent"},
     verdict : J!Resolution \cup {"pending"},
     bound : BOOLEAN]

TypeOK ==
    /\ J!TypeOK
    /\ phase \in {"down", "recovering", "serving"}
    /\ recovering \subseteq Attempt
    /\ active \subseteq Attempt
    /\ unfenced \subseteq Attempt
    /\ put \in [Attempt -> {"idle", "launching", "launched", "registering"}]
    /\ handler \in [Mutation -> HandlerState]
    /\ watcher \in [Attempt -> WatcherAt]
    /\ corrections \in [Attempt -> 0..MaxCorrections]
    /\ process \in [Attempt -> {"none", "alive", "ended"}]
    /\ conversation \in [Attempt -> J!OptionalID]
    /\ delivered \in [Mutation -> Nat]
    /\ crashes \in 0..MaxCrashes

\* The service drives the journal only through its transactions: every step of
\* a handler, of a watcher or of recovery is one journal step or none, so
\* what holds of the journal under any calls holds of it here.
ImplementsJournal == J!Spec

\* However requests are retried, abandoned, or cut off by a restart, a command
\* or force stop reaches the provider at most once per idempotency key.
AtMostOnceDelivery == \A m \in Mutation : delivered[m] <= 1

\* The recorded answer tells the coordinator the truth, also across restarts:
\* an applied command was delivered, an applied force stop or supersede left
\* the attempt terminal, and a rejected mutation never reached the provider.
AnswersAreHonest ==
    \A a \in Attempt, k \in Key :
        LET m == <<a, k>> IN
        /\ status[m] = "applied" =>
              IF request[m] \in CommandKind THEN delivered[m] = 1
              ELSE state[a] = "terminal"
        /\ status[m] = "rejected" => delivered[m] = 0

\* The process the service owns for an attempt belongs to the conversation the
\* journal names, whichever of launch, correction or restart recovery started
\* it: a restart can never resume another conversation than the one running.
OwnedConversation ==
    \A a \in active : conversation[a] = provider[a] /\ provider[a] # NoID

\* The service keeps its word to the journal and to the provider.
ServiceIsSound == TypeOK /\ AtMostOnceDelivery /\ OwnedConversation

\* A fenced attempt's history takes nothing but the terminal event: the watcher
\* and markIndeterminate exclude each other through eventMu, so no provider
\* output lands after the fence.
FencedHistory ==
    [][\A a \in Attempt :
            state[a] = "indeterminate" /\ latest'[a] # latest[a] =>
                event'[a][latest'[a]] = "attempt_terminal"]_vars

\* A stop that was requested is not taken back: the rollback of a refused pause
\* and the provider's pause and continue events race with it and lose.
StopIsIrrevocable ==
    [][\A a \in Attempt :
            state[a] = "stop_requested" =>
                state'[a] \in {"stop_requested"} \cup Settled]_vars

\* A force stop that was handed to the provider is always answered while the
\* worker is up, although the watcher, a timeout and a restart may all get in
\* the way: a worker that went down answers it when it is started again.
ForceStopIsAnswered ==
    \A m \in Mutation :
        (request[m] = "force_stop" /\ status[m] = "pending" /\ delivered[m] = 1)
            ~> (status[m] # "pending" \/ phase = "down")
=============================================================================
