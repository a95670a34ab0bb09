---------------------------- MODULE WorkerJournal ----------------------------
(***************************************************************************)
(* The worker's durable journal (internal/workerjournal): the rows of      *)
(* worker_attempts, worker_mutations and worker_events, and one action for *)
(* each transaction of Store that changes them.  An operation whose        *)
(* transaction is rolled back, refused or recognised as an exact retry     *)
(* changes no row, so it is a stuttering step here; the operators named    *)
(* ...Accepts say when the store accepts an operation, and the service     *)
(* that runs on top of the journal branches on them.                       *)
(*                                                                         *)
(* Times, summaries and the JSON of assignments are left out: the store    *)
(* only compares times with earlier ones of the same clock.                *)
(***************************************************************************)
EXTENDS Naturals

CONSTANTS
    Attempt,        \* attempt references (session ID and attempt ID)
    SessionOf(_),   \* the coordinator session an attempt belongs to
    Key,            \* idempotency keys of mutations
    Request,        \* mutation requests: the kind and the digest of the body
    ProviderID,     \* provider session identities
    NoID,           \* the empty provider session identity
    EventType,      \* normalized events; equal events have equal JSON
    MaxEvents       \* bound: events recorded for one attempt

ASSUME NoIDAssumption == NoID \notin ProviderID
ASSUME RequestAssumption == "none" \notin Request
ASSUME MaxEventsAssumption == MaxEvents \in Nat

VARIABLES
    state,     \* worker_attempts.state, "absent" when there is no row
    provider,  \* worker_attempts.provider_session_id
    mode,      \* worker_attempts.mode, "none" when there is no row
    outcome,   \* the outcome in worker_attempts.result_json, "none" when NULL
    latest,    \* worker_attempts.latest_event_sequence
    event,     \* worker_events: a function from stored sequences to events
    status,    \* worker_mutations.status, "unclaimed" when there is no row
    request    \* worker_mutations.kind and request_digest

vars == <<state, provider, mode, outcome, latest, event, status, request>>

AttemptState == {"starting", "running", "pause_requested", "paused",
                 "stop_requested", "terminal", "indeterminate"}

Outcome == {"completed", "stopped", "failed"}

\* MutationStatus.IsTerminal: the statuses a resolution may record.
Resolution == {"applied", "rejected", "indeterminate"}

OptionalID == ProviderID \cup {NoID}

\* PutAttemptRequest.Validate: a start names no provider session, a resume one.
Launch == [mode : {"start"}, provider : {NoID}]
            \cup [mode : {"resume"}, provider : ProviderID]

Mutation == Attempt \X Key

\* The event rows of one attempt.
History == UNION {[D -> EventType] : D \in SUBSET (1..MaxEvents)}

-----------------------------------------------------------------------------
(* The attempt state machine and the validity of an attempt row.           *)

Successors ==
    [starting        |-> {"running", "stop_requested", "terminal",
                          "indeterminate"},
     running         |-> {"pause_requested", "stop_requested", "terminal",
                          "indeterminate"},
     pause_requested |-> {"paused", "running", "stop_requested", "terminal",
                          "indeterminate"},
     paused          |-> {"running", "stop_requested", "terminal",
                          "indeterminate"},
     stop_requested  |-> {"terminal", "indeterminate"},
     indeterminate   |-> {"terminal"},
     terminal        |-> {}]

CanTransitionTo(from, to) == to \in Successors[from]

RequiresProviderSessionID(s) == s \in {"running", "pause_requested", "paused"}

\* Attempt.Validate on a row with state s, launch mode m, provider session
\* id and result o.
ValidAttempt(s, m, id, o) ==
    /\ m = "resume" => id # NoID
    /\ RequiresProviderSessionID(s) => id # NoID
    /\ (s = "terminal") <=> (o # "none")
    /\ o = "completed" => id # NoID

MayStillBeActive(s) == s \notin {"absent", "terminal"}

-----------------------------------------------------------------------------
(* Transactions.                                                           *)

\* Every record the store has not written yet.
Init ==
    /\ state = [a \in Attempt |-> "absent"]
    /\ provider = [a \in Attempt |-> NoID]
    /\ mode = [a \in Attempt |-> "none"]
    /\ outcome = [a \in Attempt |-> "none"]
    /\ latest = [a \in Attempt |-> 0]
    /\ event = [a \in Attempt |-> [n \in {} |-> n]]
    /\ status = [m \in Mutation |-> "unclaimed"]
    /\ request = [m \in Mutation |-> "none"]

\* Fault: an attempt of unknown outcome does not keep a successor out.
CreateOverUncertain(a) ==
    /\ state[a] = "absent"
    /\ \A b \in Attempt : SessionOf(b) = SessionOf(a) =>
                              state[b] \in {"absent", "terminal", "indeterminate"}

\* The insert happens only for a new reference in a session none of whose
\* attempts may still be active.
CreateAccepts(a) ==
    /\ state[a] = "absent"
    /\ \A b \in Attempt : SessionOf(b) = SessionOf(a) =>
                              ~MayStillBeActive(state[b])

CreateAttempt(a, l) ==
    /\ CreateAccepts(a)
    /\ state' = [state EXCEPT ![a] = "starting"]
    /\ provider' = [provider EXCEPT ![a] = l.provider]
    /\ mode' = [mode EXCEPT ![a] = l.mode]
    /\ UNCHANGED <<outcome, latest, event, status, request>>

\* The provider session ID a transition leaves in the row.
MergedID(a, id) == IF id = NoID THEN provider[a] ELSE id

\* Fault: the resulting row is not validated.
TransitionUnvalidated(a, expected, next, id, o) ==
    /\ state[a] = expected
    /\ CanTransitionTo(expected, next)
    /\ (provider[a] # NoID /\ id # NoID) => id = provider[a]

\* Compare-and-set on the expected state.  A stored provider session ID may be
\* repeated but never replaced, and the resulting row must be valid.
TransitionAccepts(a, expected, next, id, o) ==
    /\ state[a] = expected
    /\ CanTransitionTo(expected, next)
    /\ (provider[a] # NoID /\ id # NoID) => id = provider[a]
    /\ ValidAttempt(next, mode[a], MergedID(a, id), o)

TransitionAttempt(a, expected, next, id, o) ==
    /\ expected \in AttemptState
    /\ TransitionAccepts(a, expected, next, id, o)
    /\ state' = [state EXCEPT ![a] = next]
    /\ provider' = [provider EXCEPT ![a] = MergedID(a, id)]
    /\ outcome' = [outcome EXCEPT ![a] = o]
    /\ UNCHANGED <<mode, latest, event, status, request>>

\* Attempts a restarted worker may reconnect to: running, with a provider
\* session and a stored launch request, and no command of unknown delivery.
Resumable ==
    {a \in Attempt : /\ state[a] = "running"
                     /\ provider[a] # NoID
                     /\ \A k \in Key : status[<<a, k>>] # "pending"}

\* Fault: recovery also fences attempts that have ended.
RecoverEverything ==
    /\ state' = [a \in Attempt |->
                    IF state[a] = "absent" \/ a \in Resumable THEN state[a]
                    ELSE "indeterminate"]
    /\ UNCHANGED <<provider, mode, outcome, latest, event, status, request>>

\* Fault: recovery forgets the pending mutations.
RecoverAttemptsOnly ==
    /\ state' = [a \in Attempt |->
                    IF state[a] \in {"absent", "terminal", "indeterminate"}
                         \/ a \in Resumable
                    THEN state[a] ELSE "indeterminate"]
    /\ UNCHANGED <<provider, mode, outcome, latest, event, status, request>>

\* One transaction fences every other attempt that is neither terminal nor
\* already indeterminate, and every pending mutation.
PrepareInterruptedRecovery ==
    /\ state' = [a \in Attempt |->
                    IF state[a] \in {"absent", "terminal", "indeterminate"}
                         \/ a \in Resumable
                    THEN state[a] ELSE "indeterminate"]
    /\ status' = [m \in Mutation |->
                     IF status[m] = "pending" THEN "indeterminate"
                     ELSE status[m]]
    /\ UNCHANGED <<provider, mode, outcome, latest, event, request>>

\* The first request with a key inserts a pending row; a repeated one finds it.
ClaimAccepts(a, k) ==
    /\ status[<<a, k>>] = "unclaimed"
    /\ MayStillBeActive(state[a])

ClaimMutation(a, k, c) ==
    /\ ClaimAccepts(a, k)
    /\ status' = [status EXCEPT ![<<a, k>>] = "pending"]
    /\ request' = [request EXCEPT ![<<a, k>>] = c]
    /\ UNCHANGED <<state, provider, mode, outcome, latest, event>>

\* A resolved mutation is never resolved again.
ResolveMutation(a, k, r) ==
    /\ status[<<a, k>>] = "pending"
    /\ status' = [status EXCEPT ![<<a, k>>] = r]
    /\ UNCHANGED <<state, provider, mode, outcome, latest, event, request>>

\* Fault: the sequence is not compared with latest_event_sequence.
AppendAnywhere(a, n) ==
    /\ n \notin DOMAIN event[a]
    /\ MayStillBeActive(state[a])
    /\ n <= MaxEvents

\* An event is inserted as the successor of the latest one, until the attempt
\* is terminal.  An indeterminate attempt still accepts events.
AppendAccepts(a, n) ==
    /\ n \notin DOMAIN event[a]
    /\ MayStillBeActive(state[a])
    /\ n = latest[a] + 1
    /\ n <= MaxEvents

\* The rows of one attempt after inserting event e with sequence n.
Inserted(rows, n, e) ==
    [i \in DOMAIN rows \cup {n} |-> IF i = n THEN e ELSE rows[i]]

\* The insert and the advance of latest_event_sequence are one transaction.
AppendEvent(a, n, e) ==
    /\ AppendAccepts(a, n)
    /\ event' = [event EXCEPT ![a] = Inserted(event[a], n, e)]
    /\ latest' = [latest EXCEPT ![a] = n]
    /\ UNCHANGED <<state, provider, mode, outcome, status, request>>

Next ==
    \/ \E a \in Attempt :
        \/ \E l \in Launch : CreateAttempt(a, l)
        \* a transition that expects another state than the stored one is refused
        \/ \E to \in AttemptState, id \in OptionalID, o \in Outcome \cup {"none"} :
              TransitionAttempt(a, state[a], to, id, o)
        \/ \E n \in 1..MaxEvents, e \in EventType : AppendEvent(a, n, e)
        \/ \E k \in Key :
            \/ \E c \in Request : ClaimMutation(a, k, c)
            \/ \E r \in Resolution : ResolveMutation(a, k, r)
    \/ PrepareInterruptedRecovery

Spec == Init /\ [][Next]_vars

-----------------------------------------------------------------------------
(* Properties.                                                             *)

TypeOK ==
    /\ state \in [Attempt -> AttemptState \cup {"absent"}]
    /\ provider \in [Attempt -> OptionalID]
    /\ mode \in [Attempt -> {"none", "start", "resume"}]
    /\ outcome \in [Attempt -> Outcome \cup {"none"}]
    /\ latest \in [Attempt -> 0..MaxEvents]
    /\ event \in [Attempt -> History]
    /\ status \in [Mutation -> Resolution \cup {"pending", "unclaimed"}]
    /\ request \in [Mutation -> Request \cup {"none"}]

\* Whatever order creations, transitions and restarts commit in, a coordinator
\* session has at most one attempt that may still be active; indeterminate
\* attempts count, so uncertainty keeps a successor out.
OneNonterminalPerSession ==
    \A a, b \in Attempt :
        /\ SessionOf(a) = SessionOf(b)
        /\ MayStillBeActive(state[a])
        /\ MayStillBeActive(state[b])
        => a = b

\* The stored events of an attempt are exactly 1..latest_event_sequence: this
\* is what OpenEventStream's "durable event history is incomplete" check
\* relies on, and what lets a reader resume from a sequence number alone.
HistoryContiguous ==
    \A a \in Attempt : DOMAIN event[a] = 1..latest[a]

\* Every row can be read back: Attempt.Validate holds of it, also after the
\* recovery UPDATE, which does not call Validate.
RowsValid ==
    \A a \in Attempt : state[a] # "absent" =>
        ValidAttempt(state[a], mode[a], provider[a], outcome[a])

\* What a step leaves of terminal attempts, of answered mutations, of stored
\* provider sessions and of stored events.
KeepsTerminal ==
    \A a \in Attempt : state[a] = "terminal" =>
        /\ state'[a] = "terminal"
        /\ outcome'[a] = outcome[a]
        /\ provider'[a] = provider[a]
        /\ event'[a] = event[a]

KeepsAnswers ==
    \A m \in Mutation :
        /\ status[m] \in Resolution => status'[m] = status[m]
        /\ status[m] # "unclaimed" => request'[m] = request[m]

KeepsConversation ==
    \A a \in Attempt : provider[a] # NoID => provider'[a] = provider[a]

KeepsEvents ==
    \A a \in Attempt : \A n \in DOMAIN event[a] :
        /\ n \in DOMAIN event'[a]
        /\ event'[a][n] = event[a][n]

\* A terminal attempt is frozen: no later transaction, recovery included,
\* changes its state, result, provider session or history.
TerminalIsFinal == [][KeepsTerminal]_vars

\* A mutation is answered once: its recorded resolution and request never change,
\* so every exact retry gets the same answer.
ResolutionIsFinal == [][KeepsAnswers]_vars

\* Once the journal names a provider conversation for an attempt it names that
\* one for ever, so a restart resumes the conversation that did the work.
ConversationIsStable == [][KeepsConversation]_vars

\* Stored events are never rewritten or removed.
HistoryAppendOnly == [][KeepsEvents]_vars
=============================================================================
