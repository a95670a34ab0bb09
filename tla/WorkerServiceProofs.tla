-------------------------- MODULE WorkerServiceProofs --------------------------
(***************************************************************************)
(* Proofs about WorkerService for every number of attempts, keys, provider *)
(* sessions, restarts and corrections.  The service implements the         *)
(* journal, so what WorkerJournalProofs has proved of the journal is       *)
(* cited here, and the invariants below are those of the service alone.    *)
(***************************************************************************)
EXTENDS WorkerService, TLAPS

\* The journal with its proofs.
Proved == INSTANCE WorkerJournalProofs WITH Request <- MutationKind

-----------------------------------------------------------------------------
(* The inductive invariant.                                                *)

\* The answer to mutation k of attempt a says what happened.
Truthful(a, k, answer) ==
    LET m == <<a, k>> IN
    /\ answer = "applied" =>
          IF request[m] \in CommandKind THEN delivered[m] = 1
          ELSE state[a] = "terminal"
    /\ answer = "rejected" => delivered[m] = 0

\* A mutation is pending for as long as its call runs, nothing is delivered
\* before the call sends, and what it will answer is already true.
CallIsKept(a, k) ==
    LET m == <<a, k>>
        h == handler[m] IN
    /\ delivered[m] <= 1
    /\ status[m] = "unclaimed" => delivered[m] = 0
    /\ h.pc \in {"claimed", "read", "send", "await", "close", "resolve"} =>
          status[m] = "pending"
    /\ h.pc \in {"claimed", "read", "send", "close"} => delivered[m] = 0
    /\ h.pc = "await" => request[m] = "force_stop"
    /\ h.pc = "close" => request[m] = "supersede"
    /\ h.pc = "resolve" =>
          h.verdict \in J!Resolution /\ Truthful(a, k, h.verdict)
    /\ Truthful(a, k, status[m])

CallsAreKept == \A a \in Attempt, k \in Key : CallIsKept(a, k)

\* Nothing runs in a worker that is down or still recovering.
Asleep ==
    /\ phase # "serving" => /\ \A m \in Mutation : handler[m] = Idle
                            /\ \A a \in Attempt : put[a] = "idle"
    /\ phase # "recovering" => recovering = {}

\* A launch, a recovery and an owned session exclude one another, and each
\* hands over the conversation the journal names.
SessionIsKept(a) ==
    /\ a \in active => put[a] = "idle"
    /\ put[a] = "launched" => conversation[a] # NoID
    /\ a \in active \/ put[a] = "registering" =>
          conversation[a] = provider[a] /\ provider[a] # NoID
    /\ a \in recovering => provider[a] # NoID

SessionsAreKept == \A a \in Attempt : SessionIsKept(a)

IInv ==
    /\ Proved!IInv
    /\ TypeOK
    /\ CallsAreKept
    /\ Asleep
    /\ SessionsAreKept

-----------------------------------------------------------------------------
(* The journal.                                                            *)

\* The two instances of the journal are the same specification.
LEMMA SameJournal ==
    /\ J!Init = Proved!Init
    /\ J!Next = Proved!Next
    /\ J!vars = Proved!vars
    /\ J!TypeOK = Proved!TypeOK
BY DEF J!Init, Proved!Init, J!Next, Proved!Next, J!vars, Proved!vars,
       J!TypeOK, Proved!TypeOK, J!AttemptState, Proved!AttemptState,
       J!Outcome, Proved!Outcome, J!Resolution, Proved!Resolution,
       J!OptionalID, Proved!OptionalID, J!Launch, Proved!Launch,
       J!Mutation, Proved!Mutation, J!History, Proved!History,
       J!Successors, Proved!Successors, J!CanTransitionTo,
       Proved!CanTransitionTo, J!RequiresProviderSessionID,
       Proved!RequiresProviderSessionID, J!ValidAttempt,
       Proved!ValidAttempt, J!MayStillBeActive, Proved!MayStillBeActive,
       J!CreateAccepts, Proved!CreateAccepts, J!CreateAttempt,
       Proved!CreateAttempt, J!MergedID, Proved!MergedID,
       J!TransitionAccepts, Proved!TransitionAccepts, J!TransitionAttempt,
       Proved!TransitionAttempt, J!Resumable, Proved!Resumable,
       J!PrepareInterruptedRecovery, Proved!PrepareInterruptedRecovery,
       J!ClaimAccepts, Proved!ClaimAccepts, J!ClaimMutation,
       Proved!ClaimMutation, J!ResolveMutation, Proved!ResolveMutation,
       J!AppendAccepts, Proved!AppendAccepts, J!Inserted, Proved!Inserted,
       J!AppendEvent, Proved!AppendEvent

\* What the proofs of the journal assume of its constants.
LEMMA JournalAssumptions ==
    /\ Proved!NoIDAssumption
    /\ Proved!RequestAssumption
    /\ Proved!MaxEventsAssumption
BY JournalAssumption
   DEF Proved!NoIDAssumption, Proved!RequestAssumption,
       Proved!MaxEventsAssumption, MutationKind, CommandKind

\* What a step of the journal leaves of an ended attempt, of a named
\* conversation and of the answers and requests of mutations.
LEMMA JournalEffects ==
    ASSUME IInv, [J!Next]_J!vars
    PROVE  /\ Proved!IInv'
           /\ J!TypeOK'
           /\ \A a \in Attempt :
                 /\ state[a] = "terminal" => state'[a] = "terminal"
                 /\ provider[a] # NoID => provider'[a] = provider[a]
           /\ \A m \in Mutation :
                 /\ status[m] \in J!Resolution => status'[m] = status[m]
                 /\ status[m] # "unclaimed" => request'[m] = request[m]
<1>1. [Proved!Next]_Proved!vars
  BY SameJournal DEF J!vars, Proved!vars
<1>2. Proved!IInv
  BY DEF IInv
<1>3. Proved!IInv'
  BY <1>1, <1>2, JournalAssumptions, Proved!NextIInv
<1>4. \A a \in Attempt :
         /\ state[a] = "terminal" => state'[a] = "terminal"
         /\ provider[a] # NoID => provider'[a] = provider[a]
  BY <1>1, <1>2, JournalAssumptions, Proved!StepEffects
<1>5. Proved!KeepsAnswers
  BY <1>1, <1>2, JournalAssumptions, Proved!StepKeepsAnswers
<1>6. \A m \in Mutation :
         /\ status[m] \in J!Resolution => status'[m] = status[m]
         /\ status[m] # "unclaimed" => request'[m] = request[m]
  BY <1>5 DEF Proved!KeepsAnswers, Proved!Mutation, Mutation,
              Proved!Resolution, J!Resolution
<1>7. J!TypeOK'
  BY <1>3 DEF Proved!IInv, Proved!TypeOK, J!TypeOK, Proved!AttemptState,
              J!AttemptState, Proved!OptionalID, J!OptionalID, Proved!Outcome,
              J!Outcome, Proved!History, J!History, Proved!Mutation, J!Mutation,
              Proved!Resolution, J!Resolution
<1> QED
  BY <1>3, <1>4, <1>6, <1>7

\* The compare-and-set of an attempt's state is a step of the journal: the
\* state it expects is the one stored.
LEMMA TransitionIsAStep ==
    ASSUME NEW a \in Attempt, NEW s, NEW to, NEW id \in J!OptionalID,
           NEW o \in J!Outcome \cup {"none"}, J!TransitionAttempt(a, s, to, id, o)
    PROVE  J!Next
<1>1. s = state[a] /\ s \in J!AttemptState
  BY DEF J!TransitionAttempt, J!TransitionAccepts
<1>2. to \in J!AttemptState
  BY <1>1 DEF J!TransitionAttempt, J!TransitionAccepts, J!CanTransitionTo,
              J!Successors, J!AttemptState
<1> QED
  BY <1>1, <1>2 DEF J!Next

\* So is the insertion of the event that follows the latest one.
LEMMA AppendIsAStep ==
    ASSUME IInv, NEW a \in Attempt, NEW e \in EventType,
           J!AppendEvent(a, latest[a] + 1, e)
    PROVE  J!Next
<1>1. latest[a] \in 0..MaxEvents
  BY DEF IInv, TypeOK, J!TypeOK
<1>2. latest[a] + 1 <= MaxEvents
  BY DEF J!AppendEvent, J!AppendAccepts
<1>3. latest[a] + 1 \in 1..MaxEvents
  BY <1>1, <1>2, JournalAssumption
<1> QED
  BY <1>3 DEF J!Next

\* No step of a launch drives the journal but through its transactions.
LEMMA LaunchingIsAStep ==
    ASSUME IInv, NEW a \in Attempt, Launching(a)
    PROVE  [J!Next]_J!vars
<1>1. NoID \in J!OptionalID /\ conversation[a] \in J!OptionalID
  BY DEF IInv, TypeOK, J!OptionalID
<1>2. {"failed", "none"} \subseteq J!Outcome \cup {"none"}
  BY DEF J!Outcome
<1>3. CASE UNCHANGED journal
  BY <1>3 DEF journal, J!vars
<1>4. CASE \E s, to : \E id \in J!OptionalID, o \in J!Outcome \cup {"none"} :
             J!TransitionAttempt(a, s, to, id, o)
  BY <1>4, TransitionIsAStep
<1> QED
  BY <1>1, <1>2, <1>3, <1>4
     DEF Launching, FailLaunch, UncertainLaunch, LaunchProvider, StartRunning,
         Register, LaunchTransition

\* Nor does a call.
LEMMA HandlingIsAStep ==
    ASSUME IInv, NEW a \in Attempt, NEW k \in Key,
           Handling(a, k) \/ Abandon(a, k)
    PROVE  [J!Next]_J!vars
<1>1. NoID \in J!OptionalID /\ provider[a] \in J!OptionalID
  BY DEF IInv, TypeOK, J!TypeOK, J!OptionalID
<1>2. {"stopped", "none"} \subseteq J!Outcome \cup {"none"}
  BY DEF J!Outcome
<1>3. CASE UNCHANGED journal
  BY <1>3 DEF journal, J!vars
<1>4. CASE \E s, to : \E id \in J!OptionalID, o \in J!Outcome \cup {"none"} :
             J!TransitionAttempt(a, s, to, id, o)
  BY <1>4, TransitionIsAStep
<1>5. CASE Resolve(a, k)
  <2>1. handler[<<a, k>>].verdict \in J!Resolution
    BY <1>5 DEF Resolve, IInv, CallsAreKept, CallIsKept
  <2> QED
    BY <1>5, <2>1 DEF Resolve, J!Next
<1> QED
  BY <1>1, <1>2, <1>3, <1>4, <1>5
     DEF Handling, Abandon, ReadAttempt, MissingSession, FencedAttempt, Prepare,
         Send, SendForceStop, AwaitFinished, CheckSupersede, Close, Rollback,
         MarkRead, Mark, MarkFrom, HandlerOnly

\* Nor does a watcher.
LEMMA WatchingIsAStep ==
    ASSUME IInv, NEW a \in Attempt, Watching(a)
    PROVE  [J!Next]_J!vars
<1>1. NoID \in J!OptionalID /\ provider[a] \in J!OptionalID
  BY DEF IInv, TypeOK, J!TypeOK, J!OptionalID
<1>2. EmittedEvents \cup {"activity", "redaction_failure", "attempt_terminal"}
          \subseteq EventType
  BY InputsAssumption DEF EventType, ProviderEvent
<1>3. CASE UNCHANGED journal
  BY <1>3 DEF journal, J!vars
<1>4. CASE \E s, to : \E id \in J!OptionalID, o \in J!Outcome \cup {"none"} :
             J!TransitionAttempt(a, s, to, id, o)
  BY <1>4, TransitionIsAStep
<1>5. CASE \E e \in EventType : J!AppendEvent(a, latest[a] + 1, e)
  BY <1>5, AppendIsAStep
<1> QED
  BY <1>1, <1>2, <1>3, <1>4, <1>5
     DEF Watching, RefuseEvent, RecordEvent, RejectEvent, ApplyEvent,
         ApplyPaused, WatcherMarkRead, WatcherMark, MarkFrom, StopAfterFailure,
         Correct, ResumeCorrected, EventsClosed, Finish, Reread, Complete, Leave

\* Nothing in the service changes a row but a transaction of the journal.
LEMMA NextIsAStep ==
    ASSUME IInv, [Next]_vars
    PROVE  [J!Next]_J!vars
<1>1. ASSUME NEW a \in Attempt, NEW l \in J!Launch, PutAttempt(a, l)
      PROVE  J!Next
  BY <1>1 DEF PutAttempt, J!Next
<1>2. ASSUME NEW a \in Attempt, NEW k \in Key, NEW c \in ClientKinds,
             Claim(a, k, c)
      PROVE  J!Next
  BY <1>2, InputsAssumption DEF Claim, J!Next
<1>3. CASE Recover
  BY <1>3 DEF Recover, J!Next
<1>4. ASSUME NEW a \in Attempt, ResumeFails(a)
      PROVE  J!Next
  <2>1. NoID \in J!OptionalID
    BY DEF J!OptionalID
  <2> QED
    BY <1>4, <2>1, TransitionIsAStep DEF ResumeFails
<1>5. CASE UNCHANGED journal
  BY <1>5 DEF journal, J!vars
<1> QED
  BY <1>1, <1>2, <1>3, <1>4, <1>5, LaunchingIsAStep, HandlingIsAStep,
     WatchingIsAStep
     DEF Next, ProviderEnds, Crash, Resuming, ResumeInterrupted, Serve, vars

-----------------------------------------------------------------------------
(* The calls.                                                              *)

\* What an attempt's other rows go through does not disturb a call.
LEMMA CallUntouched ==
    ASSUME IInv, [J!Next]_J!vars, NEW a \in Attempt, NEW k \in Key,
           handler'[<<a, k>>] = handler[<<a, k>>],
           delivered'[<<a, k>>] = delivered[<<a, k>>],
           status'[<<a, k>>] = status[<<a, k>>]
    PROVE  CallIsKept(a, k)'
<1> DEFINE m == <<a, k>>
<1>1. m \in Mutation
  BY DEF Mutation
<1>2. /\ state[a] = "terminal" => state'[a] = "terminal"
      /\ status[m] # "unclaimed" => request'[m] = request[m]
  BY <1>1, JournalEffects
<1>3. CallIsKept(a, k)
  BY DEF IInv, CallsAreKept
<1> QED
  BY <1>2, <1>3 DEF CallIsKept, Truthful

\* A step of a call is a step of that call alone.
LEMMA OneCallSteps ==
    ASSUME IInv, NEW m \in Mutation, NEW new, Step(m, new)
    PROVE  /\ handler'[m] = new
           /\ \A n \in Mutation : n # m => handler'[n] = handler[n]
BY DEF Step, IInv, TypeOK

\* A call that has decided on its answer records that answer next.
LEMMA Decided ==
    ASSUME IInv, NEW m \in Mutation, NEW r
    PROVE  /\ Decide(m, r).pc = "resolve"
           /\ Decide(m, r).verdict = r
           /\ \A b : /\ [Decide(m, r) EXCEPT !.bound = b].pc = "resolve"
                    /\ [Decide(m, r) EXCEPT !.bound = b].verdict = r
           /\ \A s : /\ [Decide(m, r) EXCEPT !.saw = s].pc = "resolve"
                    /\ [Decide(m, r) EXCEPT !.saw = s].verdict = r
<1>1. handler[m] \in HandlerState
  BY DEF IInv, TypeOK
<1> QED
  BY <1>1 DEF Decide, HandlerState

\* One step of a call keeps that call's promises.
LEMMA CallStep ==
    ASSUME IInv, [J!Next]_J!vars, NEW a \in Attempt, NEW k \in Key,
           \/ \E c \in ClientKinds : Claim(a, k, c)
           \/ Handling(a, k)
           \/ Abandon(a, k)
    PROVE  CallIsKept(a, k)'
<1> DEFINE m == <<a, k>>
<1>1. m \in Mutation /\ m \in J!Mutation
  BY DEF Mutation, J!Mutation
<1>2. /\ state[a] = "terminal" => state'[a] = "terminal"
      /\ status[m] # "unclaimed" => request'[m] = request[m]
      /\ status[m] \in J!Resolution => status'[m] = status[m]
  BY <1>1, JournalEffects
<1>3. CallIsKept(a, k)
  BY DEF IInv, CallsAreKept
<1>4. /\ handler \in [Mutation -> HandlerState]
      /\ delivered \in [Mutation -> Nat]
      /\ status \in [Mutation -> J!Resolution \cup {"pending", "unclaimed"}]
      /\ request \in [Mutation -> MutationKind \cup {"none"}]
  BY DEF IInv, TypeOK, J!TypeOK, J!Mutation, Mutation
<1>5. IInv /\ handler[m] \in HandlerState /\ delivered[m] \in Nat
  BY <1>1, <1>4
<1> HIDE DEF m
<1>6. ASSUME NEW c \in ClientKinds, Claim(a, k, c)
      PROVE  CallIsKept(a, k)'
  <2>1. /\ status[m] = "unclaimed" /\ status'[m] = "pending"
        /\ handler'[m] = [pc |-> "claimed", saw |-> "absent",
                          verdict |-> "pending", bound |-> TRUE]
        /\ delivered' = delivered
    BY <1>1, <1>4, <1>6 DEF Claim, Step, J!ClaimMutation, J!ClaimAccepts,
                            outside, m
  <2> QED
    BY <1>3, <2>1 DEF CallIsKept, Truthful, m
<1>7. CASE Abandon(a, k)
  <2>1. /\ handler'[m].pc = "idle" /\ delivered' = delivered
        /\ UNCHANGED <<state, status, request>>
    BY <1>1, <1>4, <1>7 DEF Abandon, Step, Idle, HandlerOnly, outside, journal, m
  <2> QED
    BY <1>3, <2>1 DEF CallIsKept, Truthful, m
<1>8. CASE Handling(a, k)
  <2>1. CASE ReadAttempt(a, k)
    <3>1. /\ handler[m].pc = "claimed" /\ handler'[m].pc = "read"
          /\ delivered' = delivered
          /\ UNCHANGED <<state, status, request>>
      BY <1>1, <1>4, <1>5, Decided, <2>1
         DEF Step, ReadAttempt, HandlerOnly, outside, journal, HandlerState, m
    <3> QED
      BY <1>3, <3>1 DEF CallIsKept, Truthful, m
  <2>2. CASE MissingSession(a, k) \/ FencedAttempt(a, k)
    <3>1. /\ handler[m].pc = "read" /\ handler'[m].pc = "resolve"
          /\ handler'[m].verdict \in {"rejected", "indeterminate"}
          /\ delivered' = delivered
          /\ UNCHANGED <<state, status, request>>
      BY <1>1, <1>4, <1>5, Decided, <2>2
         DEF Step, MissingSession, FencedAttempt, HandlerOnly, outside,
             journal, HandlerState, m
    <3> QED
      BY <1>3, <3>1 DEF CallIsKept, Truthful, J!Resolution, m
  <2>3. CASE Prepare(a, k)
    <3>1. /\ handler[m].pc = "read" /\ delivered' = delivered
          /\ \/ \E s : Step(m, [handler[m] EXCEPT !.pc = "send", !.saw = s])
             \/ Step(m, Decide(m, "rejected"))
      BY <2>3 DEF Prepare, outside, m
    <3>2. UNCHANGED <<status, request>>
      BY <2>3 DEF Prepare, journal, J!TransitionAttempt
    <3>3. \/ handler'[m].pc = "send"
          \/ handler'[m].pc = "resolve" /\ handler'[m].verdict = "rejected"
      <4>1. ASSUME NEW s, Step(m, [handler[m] EXCEPT !.pc = "send", !.saw = s])
            PROVE  handler'[m].pc = "send"
        BY <1>1, <1>4, <1>5, <4>1 DEF Step, HandlerState
      <4>2. CASE Step(m, Decide(m, "rejected"))
        BY <1>1, <1>4, <1>5, <4>2, Decided DEF Step
      <4> QED
        BY <3>1, <4>1, <4>2
    <3> QED
      BY <1>2, <1>3, <3>1, <3>2, <3>3 DEF CallIsKept, Truthful, J!Resolution, m
  <2>4. CASE Send(a, k)
    <3>1. /\ handler[m].pc = "send" /\ request[m] \in CommandKind
          /\ \/ /\ Step(m, Decide(m, "applied"))
                /\ delivered' = [delivered EXCEPT ![m] = @ + 1]
             \/ Step(m, Decide(m, "rejected")) /\ delivered' = delivered
             \/ /\ Step(m, [Decide(m, "indeterminate") EXCEPT !.bound = FALSE])
                /\ \/ delivered' = [delivered EXCEPT ![m] = @ + 1]
                   \/ delivered' = delivered
      BY <2>4 DEF Send, m
    <3>2. UNCHANGED <<state, status, request>>
      BY <2>4 DEF Send, journal
    <3>3. /\ handler'[m].pc = "resolve"
          /\ \/ handler'[m].verdict = "applied" /\ delivered'[m] = delivered[m] + 1
             \/ handler'[m].verdict = "rejected" /\ delivered'[m] = delivered[m]
             \/ /\ handler'[m].verdict = "indeterminate"
                /\ delivered'[m] \in {delivered[m], delivered[m] + 1}
      <4>1. CASE /\ Step(m, Decide(m, "applied"))
                 /\ delivered' = [delivered EXCEPT ![m] = @ + 1]
        BY <1>1, <1>4, <1>5, <4>1, Decided DEF Step
      <4>2. CASE Step(m, Decide(m, "rejected")) /\ delivered' = delivered
        BY <1>1, <1>4, <1>5, <4>2, Decided DEF Step
      <4>3. CASE /\ Step(m, [Decide(m, "indeterminate") EXCEPT !.bound = FALSE])
                 /\ \/ delivered' = [delivered EXCEPT ![m] = @ + 1]
                    \/ delivered' = delivered
        <5>1. /\ handler'[m].pc = "resolve"
              /\ handler'[m].verdict = "indeterminate"
          BY <1>1, <1>4, <1>5, <4>3, Decided DEF Step
        <5> QED
          BY <1>1, <1>4, <4>3, <5>1
      <4> QED
        BY <3>1, <4>1, <4>2, <4>3
    <3> QED
      BY <1>3, <3>1, <3>2, <3>3 DEF CallIsKept, Truthful, J!Resolution, m
  <2>5. CASE SendForceStop(a, k)
    <3>1. /\ handler[m].pc = "send" /\ request[m] = "force_stop"
          /\ \/ handler'[m].pc = "await"
             \/ /\ handler'[m].pc = "resolve"
                /\ handler'[m].verdict = "indeterminate"
          /\ delivered'[m] = delivered[m] + 1
          /\ UNCHANGED <<state, status, request>>
      BY <1>1, <1>4, <1>5, Decided, <2>5
         DEF Step, SendForceStop, journal, HandlerState, m
    <3> QED
      BY <1>3, <3>1 DEF CallIsKept, Truthful, J!Resolution, m
  <2>6. CASE AwaitFinished(a, k)
    <3>1. /\ handler[m].pc = "await" /\ delivered' = delivered
          /\ UNCHANGED <<state, status, request>>
      BY <2>6 DEF AwaitFinished, HandlerOnly, outside, journal, m
    <3>3. \/ \E r, s : /\ Step(m, [Decide(m, r) EXCEPT !.saw = s])
                      /\ \/ r = "applied" /\ state[a] = "terminal"
                         \/ r = "indeterminate"
          \/ Step(m, Decide(m, "indeterminate"))
      BY <2>6 DEF AwaitFinished, m
    <3>4. /\ handler'[m].pc = "resolve"
          /\ \/ handler'[m].verdict = "applied" /\ state[a] = "terminal"
             \/ handler'[m].verdict = "indeterminate"
      <4>1. ASSUME NEW r, NEW s, Step(m, [Decide(m, r) EXCEPT !.saw = s])
            PROVE  handler'[m].pc = "resolve" /\ handler'[m].verdict = r
        BY <1>1, <1>4, <1>5, <4>1, Decided DEF Step
      <4>2. CASE Step(m, Decide(m, "indeterminate"))
        BY <1>1, <1>4, <1>5, <4>2, Decided DEF Step
      <4> QED
        BY <3>3, <4>1, <4>2
    <3>2. "force_stop" \notin CommandKind
      BY DEF CommandKind
    <3> QED
      BY <1>3, <3>1, <3>2, <3>4 DEF CallIsKept, Truthful, J!Resolution, m
  <2>7. CASE CheckSupersede(a, k)
    <3>1. /\ handler[m].pc = "read" /\ request[m] = "supersede"
          /\ \/ handler'[m].pc = "resolve" /\ handler'[m].verdict = "rejected"
             \/ handler'[m].pc = "close"
          /\ delivered' = delivered
          /\ UNCHANGED <<state, status, request>>
      BY <1>1, <1>4, <1>5, Decided, <2>7
         DEF Step, CheckSupersede, HandlerOnly, outside, journal,
             HandlerState, m
    <3> QED
      BY <1>3, <3>1 DEF CallIsKept, Truthful, J!Resolution, m
  <2>8. CASE Close(a, k)
    <3>1. /\ handler[m].pc = "close" /\ delivered' = delivered
          /\ UNCHANGED <<status, request>>
      BY <2>8 DEF Close, outside, journal, J!TransitionAttempt, m
    <3>3. \/ /\ Step(m, [Decide(m, "applied") EXCEPT !.bound = TRUE])
             /\ state'[a] = "terminal"
          \/ Step(m, Decide(m, "indeterminate"))
      BY <2>8 DEF Close, J!TransitionAttempt, IInv, TypeOK, J!TypeOK, m
    <3>4. /\ handler'[m].pc = "resolve"
          /\ \/ handler'[m].verdict = "applied" /\ state'[a] = "terminal"
             \/ handler'[m].verdict = "indeterminate"
      <4>1. CASE /\ Step(m, [Decide(m, "applied") EXCEPT !.bound = TRUE])
                 /\ state'[a] = "terminal"
        BY <1>1, <1>4, <1>5, <4>1, Decided DEF Step
      <4>2. CASE Step(m, Decide(m, "indeterminate"))
        BY <1>1, <1>4, <1>5, <4>2, Decided DEF Step
      <4> QED
        BY <3>3, <4>1, <4>2
    <3>2. "supersede" \notin CommandKind
      BY DEF CommandKind
    <3> QED
      BY <1>2, <1>3, <3>1, <3>2, <3>4 DEF CallIsKept, Truthful, J!Resolution, m
  <2>9. CASE Resolve(a, k)
    <3>1. /\ handler[m].pc = "resolve" /\ status[m] = "pending"
          /\ status'[m] = handler[m].verdict
          /\ handler'[m].pc \in {"idle", "mark", "rollback"}
          /\ delivered' = delivered
          /\ UNCHANGED <<state, request>>
      BY <1>1, <1>4, <1>5, Decided, <2>9
         DEF Step, Resolve, AfterResolve, GoTo, Idle, outside, HandlerState,
             J!ResolveMutation, m
    <3> QED
      BY <1>3, <3>1 DEF CallIsKept, Truthful, J!Resolution, m
  <2>10. CASE Rollback(a, k) \/ MarkRead(a, k) \/ Mark(a, k)
    <3>1. delivered' = delivered /\ UNCHANGED <<status, request>>
      BY <2>10 DEF Rollback, MarkRead, Mark, MarkFrom, HandlerOnly, outside,
                   journal, J!TransitionAttempt
    <3>2. \/ Step(m, Idle)
          \/ \E s : Step(m, [handler[m] EXCEPT !.pc = "marking", !.saw = s,
                                               !.bound = FALSE])
      BY <2>10 DEF Rollback, MarkRead, Mark, m
    <3>3. handler'[m].pc \in {"idle", "marking"}
      <4>1. CASE Step(m, Idle)
        BY <1>1, <1>4, <4>1 DEF Step, Idle
      <4>2. ASSUME NEW s, Step(m, [handler[m] EXCEPT !.pc = "marking", !.saw = s,
                                                    !.bound = FALSE])
            PROVE  handler'[m].pc = "marking"
        BY <1>1, <1>4, <1>5, <4>2 DEF Step, HandlerState
      <4> QED
        BY <3>2, <4>1, <4>2
    <3> QED
      BY <1>2, <1>3, <3>1, <3>3 DEF CallIsKept, Truthful, m
  <2> QED
    BY <1>8, <2>1, <2>2, <2>3, <2>4, <2>5, <2>6, <2>7, <2>8, <2>9, <2>10
       DEF Handling
<1> QED
  BY <1>6, <1>7, <1>8

\* It changes nothing of the other calls.
LEMMA OtherCalls ==
    ASSUME IInv, NEW a \in Attempt, NEW k \in Key,
           NEW b \in Attempt, NEW l \in Key, <<b, l>> # <<a, k>>,
           \/ \E c \in ClientKinds : Claim(a, k, c)
           \/ Handling(a, k)
           \/ Abandon(a, k)
    PROVE  /\ handler'[<<b, l>>] = handler[<<b, l>>]
           /\ delivered'[<<b, l>>] = delivered[<<b, l>>]
           /\ status'[<<b, l>>] = status[<<b, l>>]
<1> DEFINE m == <<a, k>>
           n == <<b, l>>
<1>1. m \in Mutation /\ n \in Mutation /\ n # m
  BY DEF Mutation
<1>2. /\ handler \in [Mutation -> HandlerState]
      /\ delivered \in [Mutation -> Nat]
      /\ status \in [Mutation -> J!Resolution \cup {"pending", "unclaimed"}]
  BY DEF IInv, TypeOK, J!TypeOK, J!Mutation, Mutation
<1>3. \E new : Step(m, new)
  BY DEF Claim, Handling, Abandon, ReadAttempt, MissingSession, FencedAttempt,
         Prepare, Send, SendForceStop, AwaitFinished, CheckSupersede, Close,
         Resolve, Rollback, MarkRead, Mark
<1>4. handler'[n] = handler[n]
  BY <1>1, <1>2, <1>3 DEF Step
<1>5. delivered' = delivered \/ delivered' = [delivered EXCEPT ![m] = @ + 1]
  BY DEF Claim, Handling, Abandon, ReadAttempt, MissingSession, FencedAttempt,
         Prepare, Send, SendForceStop, AwaitFinished, CheckSupersede, Close,
         Resolve, Rollback, MarkRead, Mark, HandlerOnly, outside
<1>6. status' = status \/ \E r : status' = [status EXCEPT ![m] = r]
  BY DEF Claim, Handling, Abandon, ReadAttempt, MissingSession, FencedAttempt,
         Prepare, Send, SendForceStop, AwaitFinished, CheckSupersede, Close,
         Resolve, Rollback, MarkRead, Mark, MarkFrom, HandlerOnly, journal,
         J!ClaimMutation, J!ResolveMutation, J!TransitionAttempt
<1> QED
  BY <1>1, <1>2, <1>4, <1>5, <1>6

\* Every other step leaves the calls alone, except that the end of the process
\* takes them with it and the recovery answers what they left pending.
LEMMA CallsStayKept ==
    ASSUME IInv, [Next]_vars
    PROVE  CallsAreKept'
<1>1. [J!Next]_J!vars
  BY NextIsAStep
<1> SUFFICES ASSUME NEW b \in Attempt, NEW l \in Key PROVE CallIsKept(b, l)'
  BY DEF CallsAreKept
<1> DEFINE n == <<b, l>>
<1>2. n \in Mutation /\ n \in J!Mutation
  BY DEF Mutation, J!Mutation
<1>3. CallIsKept(b, l)
  BY DEF IInv, CallsAreKept
<1>4. CASE Crash
  <2>1. /\ handler'[n].pc = "idle"
        /\ UNCHANGED <<state, status, request, delivered>>
    BY <1>2, <1>4 DEF Crash, Idle, journal
  <2> QED
    BY <1>3, <2>1 DEF CallIsKept, Truthful
<1>5. CASE Recover
  <2>1. handler'[n].pc = "idle"
    BY <1>2, <1>5 DEF Recover, IInv, Asleep, Idle
  <2>2. /\ status'[n] = IF status[n] = "pending" THEN "indeterminate" ELSE status[n]
        /\ UNCHANGED <<request, delivered>>
    BY <1>2, <1>5 DEF Recover, J!PrepareInterruptedRecovery, outside
  <2>3. state[b] = "terminal" => state'[b] = "terminal"
    BY <1>1, JournalEffects
  <2> QED
    BY <1>3, <2>1, <2>2, <2>3 DEF CallIsKept, Truthful
<1>6. ASSUME NEW a \in Attempt, NEW k \in Key,
             \/ \E c \in ClientKinds : Claim(a, k, c)
             \/ Handling(a, k)
             \/ Abandon(a, k)
      PROVE  CallIsKept(b, l)'
  <2>1. CASE n = <<a, k>>
    BY <1>1, <1>6, <2>1, CallStep
  <2>2. CASE n # <<a, k>>
    BY <1>1, <1>6, <2>2, OtherCalls, CallUntouched
  <2> QED
    BY <2>1, <2>2
<1>7. CASE UNCHANGED <<handler, delivered, status>>
  BY <1>1, <1>7, CallUntouched
<1>8. ASSUME NEW a \in Attempt,
             \/ \E i \in J!Launch : PutAttempt(a, i)
             \/ Launching(a)
             \/ Watching(a)
             \/ ProviderEnds(a)
             \/ ResumeInterrupted(a)
             \/ ResumeFails(a)
      PROVE  UNCHANGED <<handler, delivered, status>>
  <2>1. CASE \/ \E i \in J!Launch : PutAttempt(a, i)
             \/ Launching(a)
             \/ ProviderEnds(a)
             \/ ResumeInterrupted(a)
             \/ ResumeFails(a)
    BY <2>1
       DEF PutAttempt, Launching, FailLaunch, UncertainLaunch, LaunchProvider,
           StartRunning, Register, LaunchTransition, ProviderEnds,
           ResumeInterrupted, ResumeFails, journal, memory, outside,
           J!CreateAttempt, J!TransitionAttempt
  <2>2. CASE Watching(a)
    BY <2>2
       DEF Watching, RefuseEvent, RecordEvent, RejectEvent, ApplyEvent,
           ApplyPaused, WatcherMarkRead, WatcherMark, MarkFrom,
           StopAfterFailure, Correct, ResumeCorrected, EventsClosed, Finish, Reread, Complete,
           Leave, WatcherOnly, journal, outside, J!AppendEvent,
           J!TransitionAttempt
  <2> QED
    BY <1>8, <2>1, <2>2
<1>9. CASE Serve \/ UNCHANGED vars
  BY <1>7, <1>9 DEF Serve, vars, journal, memory, outside
<1> QED
  BY <1>4, <1>5, <1>6, <1>7, <1>8, <1>9 DEF Next, Resuming

-----------------------------------------------------------------------------
(* The sessions.                                                           *)

\* A worker that does not serve starts nothing.
LEMMA AsleepStaysAsleep ==
    ASSUME IInv, [Next]_vars
    PROVE  Asleep'
<1>1. Asleep
  BY DEF IInv
<1>2. CASE Crash \/ Recover \/ Serve
  <2>1. ASSUME Recover PROVE UNCHANGED <<handler, put>> /\ phase = "down"
    BY <2>1 DEF Recover
  <2> QED
    BY <1>1, <1>2, <2>1 DEF Asleep, Crash, Recover, Serve
<1>3. CASE UNCHANGED <<phase, handler, put, recovering>>
  BY <1>1, <1>3 DEF Asleep
<1>4. ASSUME NEW a \in Attempt,
             (\E l \in J!Launch : PutAttempt(a, l)) \/ Launching(a)
      PROVE  Asleep'
  <2>1. UNCHANGED <<phase, handler, recovering>>
    BY <1>4 DEF PutAttempt, Launching, FailLaunch, UncertainLaunch,
                LaunchProvider, StartRunning, Register
  <2>2. phase = "serving"
    BY <1>1, <1>4
       DEF Asleep, PutAttempt, Launching, FailLaunch, UncertainLaunch,
           LaunchProvider, StartRunning, Register
  <2> QED
    BY <1>1, <2>1, <2>2 DEF Asleep
<1>5. ASSUME NEW a \in Attempt, NEW k \in Key,
             \/ \E c \in ClientKinds : Claim(a, k, c)
             \/ Handling(a, k)
             \/ Abandon(a, k)
      PROVE  Asleep'
  <2>1. UNCHANGED <<phase, put, recovering>>
    BY <1>5
       DEF Claim, Handling, Abandon, ReadAttempt, MissingSession, FencedAttempt,
           Prepare, Send, SendForceStop, AwaitFinished, CheckSupersede, Close,
           Resolve, Rollback, MarkRead, Mark, HandlerOnly
  <2>2. <<a, k>> \in Mutation
    BY DEF Mutation
  <2>3. phase = "serving" \/ handler[<<a, k>>] # Idle
    BY <1>5
       DEF Claim, Handling, Abandon, ReadAttempt, MissingSession, FencedAttempt,
           Prepare, Send, SendForceStop, AwaitFinished, CheckSupersede, Close,
           Resolve, Rollback, MarkRead, Mark, Idle
  <2>4. phase = "serving"
    BY <1>1, <2>2, <2>3 DEF Asleep
  <2> QED
    BY <1>1, <2>1, <2>4 DEF Asleep
<1>6. ASSUME NEW a \in Attempt, Watching(a) \/ ProviderEnds(a)
      PROVE  UNCHANGED <<phase, handler, put, recovering>>
  BY <1>6
     DEF Watching, RefuseEvent, RecordEvent, RejectEvent, ApplyEvent,
         ApplyPaused, WatcherMarkRead, WatcherMark, StopAfterFailure, Correct,
         ResumeCorrected,
         EventsClosed, Finish, Reread, Complete, Leave, WatcherOnly,
         ProviderEnds, memory
<1>7. ASSUME NEW a \in Attempt, ResumeInterrupted(a) \/ ResumeFails(a)
      PROVE  Asleep'
  <2>1. UNCHANGED <<phase, handler, put>> /\ a \in recovering
    BY <1>7 DEF ResumeInterrupted, ResumeFails
  <2> QED
    BY <1>1, <2>1 DEF Asleep
<1>8. CASE UNCHANGED vars
  BY <1>3, <1>8 DEF vars, memory
<1> QED
  BY <1>2, <1>3, <1>4, <1>5, <1>6, <1>7, <1>8 DEF Next, Resuming

\* A session nobody takes or gives away stays as it is: the journal never names
\* another conversation for its attempt.
LEMMA SessionUntouched ==
    ASSUME IInv, [J!Next]_J!vars, NEW b \in Attempt,
           b \in active' => b \in active,
           b \in recovering' => b \in recovering,
           put'[b] = put[b],
           conversation'[b] = conversation[b]
    PROVE  SessionIsKept(b)'
<1>1. provider[b] # NoID => provider'[b] = provider[b]
  BY JournalEffects
<1>2. SessionIsKept(b)
  BY DEF IInv, SessionsAreKept
<1> QED
  BY <1>1, <1>2 DEF SessionIsKept

\* The steps of a launch.
LEMMA LaunchKeepsSession ==
    ASSUME IInv, [J!Next]_J!vars, NEW a \in Attempt,
           (\E l \in J!Launch : PutAttempt(a, l)) \/ Launching(a)
    PROVE  SessionIsKept(a)'
<1>1. SessionIsKept(a)
  BY DEF IInv, SessionsAreKept
<1>2. provider[a] # NoID => provider'[a] = provider[a]
  BY JournalEffects
<1>3. /\ put \in [Attempt -> {"idle", "launching", "launched", "registering"}]
      /\ conversation \in [Attempt -> J!OptionalID]
      /\ provider \in [Attempt -> J!OptionalID]
      /\ active \subseteq Attempt
  BY DEF IInv, TypeOK, J!TypeOK
<1>4. ASSUME NEW l \in J!Launch, PutAttempt(a, l)
      PROVE  SessionIsKept(a)'
  <2>1. provider[a] = NoID
    BY <1>4 DEF PutAttempt, J!CreateAttempt, J!CreateAccepts, IInv, Proved!IInv,
                Proved!NoRowNoData
  <2>2. put'[a] = "launching" /\ UNCHANGED <<active, recovering>>
    BY <1>3, <1>4 DEF PutAttempt
  <2> QED
    BY <1>1, <2>1, <2>2 DEF SessionIsKept
<1>5. CASE FailLaunch(a) \/ UncertainLaunch(a)
  <2>1. put[a] = "launching" /\ put'[a] = "idle" /\ UNCHANGED <<active, recovering>>
    BY <1>3, <1>5 DEF FailLaunch, UncertainLaunch
  <2> QED
    BY <1>1, <1>2, <2>1 DEF SessionIsKept
<1>6. CASE LaunchProvider(a)
  <2>1. /\ put[a] = "launching" /\ put'[a] = "launched"
        /\ conversation'[a] \in ProviderID
        /\ UNCHANGED <<active, recovering, provider>>
    BY <1>3, <1>6 DEF LaunchProvider, journal
  <2> QED
    BY <1>1, <2>1, JournalAssumption DEF SessionIsKept
<1>7. CASE StartRunning(a)
  <2>1. /\ put[a] = "launched"
        /\ UNCHANGED <<active, recovering, conversation>>
    BY <1>7 DEF StartRunning, outside
  <2>2. CASE put' = [put EXCEPT ![a] = "idle"]
    BY <1>1, <1>2, <1>3, <2>1, <2>2 DEF SessionIsKept
  <2>3. CASE /\ J!TransitionAttempt(a, "starting", "running", conversation[a],
                                    "none")
             /\ put' = [put EXCEPT ![a] = "registering"]
    <3>1. conversation[a] # NoID
      BY <1>1, <2>1 DEF SessionIsKept
    <3>2. provider'[a] = conversation[a]
      BY <1>3, <2>3, <3>1 DEF J!TransitionAttempt, J!MergedID
    <3> QED
      BY <1>1, <1>2, <1>3, <2>1, <2>3, <3>1, <3>2 DEF SessionIsKept
  <2> QED
    BY <1>7, <2>2, <2>3 DEF StartRunning
<1>8. CASE Register(a)
  <2>1. /\ put[a] = "registering" /\ put'[a] = "idle"
        /\ UNCHANGED <<recovering, conversation, provider>>
    BY <1>3, <1>8 DEF Register, journal, outside
  <2> QED
    BY <1>1, <2>1 DEF SessionIsKept
<1> QED
  BY <1>4, <1>5, <1>6, <1>7, <1>8 DEF Launching

\* Every other step leaves the sessions alone; the end of the process drops
\* them, and a recovery takes the conversation the journal names.
LEMMA SessionsStayKept ==
    ASSUME IInv, [Next]_vars
    PROVE  SessionsAreKept'
<1>1. [J!Next]_J!vars
  BY NextIsAStep
<1>2. Asleep'
  BY AsleepStaysAsleep
<1> SUFFICES ASSUME NEW b \in Attempt PROVE SessionIsKept(b)'
  BY DEF SessionsAreKept
<1>3. SessionIsKept(b)
  BY DEF IInv, SessionsAreKept
<1>4. /\ put \in [Attempt -> {"idle", "launching", "launched", "registering"}]
      /\ conversation \in [Attempt -> J!OptionalID]
  BY DEF IInv, TypeOK
<1>5. CASE Crash
  BY <1>5 DEF Crash, SessionIsKept
<1>6. CASE Recover
  <2>1. put'[b] = "idle" /\ UNCHANGED <<active, conversation, provider>>
    BY <1>6 DEF Recover, IInv, Asleep, outside, J!PrepareInterruptedRecovery
  <2>2. b \in recovering' => provider[b] # NoID
    BY <1>6 DEF Recover, J!Resumable
  <2> QED
    BY <1>3, <2>1, <2>2 DEF SessionIsKept
<1>7. ASSUME NEW a \in Attempt, ResumeInterrupted(a)
      PROVE  SessionIsKept(b)'
  <2>1. a \in recovering /\ recovering' = recovering \ {a} /\ active' = active \cup {a}
        /\ UNCHANGED <<put, provider>>
        /\ conversation' = [conversation EXCEPT ![a] = provider[a]]
    BY <1>7 DEF ResumeInterrupted, ResumedTheSame, Own, journal
  <2>2. put[b] = "idle"
    BY <2>1 DEF IInv, Asleep
  <2>3. CASE b = a
    BY <1>3, <1>4, <2>1, <2>2, <2>3 DEF SessionIsKept
  <2>4. CASE b # a
    BY <1>1, <1>4, <2>1, <2>4, SessionUntouched
  <2> QED
    BY <2>3, <2>4
<1>8. ASSUME NEW a \in Attempt,
             (\E l \in J!Launch : PutAttempt(a, l)) \/ Launching(a)
      PROVE  SessionIsKept(b)'
  <2>1. CASE b = a
    BY <1>1, <1>8, <2>1, LaunchKeepsSession
  <2>2. CASE b # a
    <3>1. /\ \E p : put' = [put EXCEPT ![a] = p]
          /\ conversation' = conversation
                \/ \E c : conversation' = [conversation EXCEPT ![a] = c]
          /\ recovering' = recovering
          /\ active' \subseteq active \cup {a}
      BY <1>8 DEF PutAttempt, Launching, FailLaunch, UncertainLaunch,
                  LaunchProvider, StartRunning, Register, Own, outside
    <3>2. put'[b] = put[b] /\ conversation'[b] = conversation[b]
      BY <1>4, <2>2, <3>1
    <3> QED
      BY <1>1, <2>2, <3>1, <3>2, SessionUntouched
  <2> QED
    BY <2>1, <2>2
<1>9. CASE /\ active' \subseteq active
           /\ recovering' \subseteq recovering
           /\ UNCHANGED <<put, conversation>>
  BY <1>1, <1>9, SessionUntouched
<1>10. ASSUME NEW a \in Attempt, NEW k \in Key,
              \/ \E c \in ClientKinds : Claim(a, k, c)
              \/ Handling(a, k)
              \/ Abandon(a, k)
       PROVE  UNCHANGED <<active, recovering, put, conversation>>
  BY <1>10
     DEF Claim, Handling, Abandon, ReadAttempt, MissingSession, FencedAttempt,
         Prepare, Send, SendForceStop, AwaitFinished, CheckSupersede, Close,
         Resolve, Rollback, MarkRead, Mark, HandlerOnly, outside
<1>11. ASSUME NEW a \in Attempt,
              Watching(a) \/ ProviderEnds(a) \/ ResumeFails(a)
       PROVE  /\ active' \subseteq active
              /\ recovering' \subseteq recovering
              /\ UNCHANGED <<put, conversation>>
  BY <1>11
     DEF Watching, RefuseEvent, RecordEvent, RejectEvent, ApplyEvent,
         ApplyPaused, WatcherMarkRead, WatcherMark, StopAfterFailure, Correct,
         ResumeCorrected,
         EventsClosed, Finish, Reread, Complete, Leave, WatcherOnly,
         ProviderEnds, ResumeFails, memory, outside
<1>12. CASE Serve \/ UNCHANGED vars
  BY <1>9, <1>12 DEF Serve, vars, memory, outside
<1> QED
  BY <1>5, <1>6, <1>7, <1>8, <1>9, <1>10, <1>11, <1>12 DEF Next, Resuming

-----------------------------------------------------------------------------
(* Types.                                                                  *)

\* The watcher of one attempt moves within its places.
LEMMA WatcherMoves ==
    ASSUME IInv, NEW a \in Attempt, NEW pc, NEW saw, [pc |-> pc, saw |-> saw] \in WatcherAt,
           WatcherTo(a, pc, saw)
    PROVE  watcher' \in [Attempt -> WatcherAt]
BY DEF WatcherTo, IInv, TypeOK

LEMMA WatchingTypes ==
    ASSUME IInv, NEW a \in Attempt, Watching(a)
    PROVE  /\ watcher' \in [Attempt -> WatcherAt]
           /\ corrections' \in [Attempt -> 0..MaxCorrections]
           /\ process' \in [Attempt -> {"none", "alive", "ended"}]
           /\ unfenced' \subseteq Attempt
           /\ active' \subseteq active
           /\ UNCHANGED <<phase, recovering, put, handler, conversation,
                          delivered, crashes>>
<1>1. TypeOK
  BY DEF IInv
<1>2. /\ state[a] \in J!AttemptState \cup {"absent"}
      /\ NoWatcher \in WatcherAt
  BY <1>1 DEF TypeOK, J!TypeOK, NoWatcher, WatcherAt
<1>3. watcher' \in [Attempt -> WatcherAt]
  <2>1. CASE watcher' = watcher
    BY <1>1, <2>1 DEF TypeOK
  <2>2. CASE watcher' = [watcher EXCEPT ![a] = NoWatcher]
    BY <1>1, <1>2, <2>2 DEF TypeOK
  <2>3. ASSUME NEW pc \in {"loop", "apply", "applied", "fence", "fencing",
                           "failed", "correct", "finish", "reread", "complete",
                           "give_up", "giving_up", "leaving"},
               NEW saw \in {"absent", state[a]}, WatcherTo(a, pc, saw)
        PROVE  watcher' \in [Attempt -> WatcherAt]
    <3>1. [pc |-> pc, saw |-> saw] \in WatcherAt
      BY <1>2 DEF WatcherAt
    <3> QED
      BY <2>3, <3>1, WatcherMoves
  <2> QED
    BY <2>1, <2>2, <2>3
       DEF Watching, RefuseEvent, RecordEvent, RejectEvent, ApplyEvent,
           ApplyPaused, WatcherMarkRead, WatcherMark, StopAfterFailure, Correct,
           ResumeCorrected,
           EventsClosed, Finish, Reread, Complete, Leave
<1>4. corrections' \in [Attempt -> 0..MaxCorrections]
  <2>1. CASE corrections' = corrections
    BY <1>1, <2>1 DEF TypeOK
  <2>2. CASE /\ corrections[a] < MaxCorrections
             /\ corrections' = [corrections EXCEPT ![a] = @ + 1]
    <3>1. corrections[a] + 1 \in 0..MaxCorrections
      BY <1>1, <2>2, MaxCorrectionsAssumption DEF TypeOK
    <3> QED
      BY <1>1, <2>2, <3>1 DEF TypeOK
  <2> QED
    BY <2>1, <2>2
       DEF Watching, RefuseEvent, RecordEvent, RejectEvent, ApplyEvent,
           ApplyPaused, WatcherMarkRead, WatcherMark, StopAfterFailure, Correct,
           ResumeCorrected,
           EventsClosed, Finish, Reread, Complete, Leave, WatcherOnly
<1>5. /\ process' = process \/ \E p \in {"alive", "ended"} :
                                     process' = [process EXCEPT ![a] = p]
      /\ unfenced' \subseteq unfenced \cup {a}
      /\ active' \subseteq active
      /\ UNCHANGED <<phase, recovering, put, handler, conversation, delivered,
                     crashes>>
  BY DEF Watching, RefuseEvent, RecordEvent, RejectEvent, ApplyEvent,
         ApplyPaused, WatcherMarkRead, WatcherMark, StopAfterFailure, Correct,
         ResumeCorrected,
         EventsClosed, Finish, Reread, Complete, Leave, WatcherOnly, outside
<1> QED
  BY <1>1, <1>3, <1>4, <1>5 DEF TypeOK

\* A call's next place is one it may be in.
LEMMA CallingTypes ==
    ASSUME IInv, NEW a \in Attempt, NEW k \in Key,
           \/ \E c \in ClientKinds : Claim(a, k, c)
           \/ Handling(a, k)
           \/ Abandon(a, k)
    PROVE  /\ handler' \in [Mutation -> HandlerState]
           /\ delivered' \in [Mutation -> Nat]
           /\ process' \in [Attempt -> {"none", "alive", "ended"}]
           /\ UNCHANGED <<phase, recovering, active, unfenced, put, watcher,
                          corrections, conversation, crashes>>
<1> DEFINE m == <<a, k>>
<1>1. /\ m \in Mutation
      /\ handler \in [Mutation -> HandlerState]
      /\ delivered \in [Mutation -> Nat]
      /\ process \in [Attempt -> {"none", "alive", "ended"}]
      /\ state[a] \in J!AttemptState \cup {"absent"}
  BY DEF IInv, TypeOK, J!TypeOK, Mutation
<1>2. /\ Idle \in HandlerState
      /\ [pc |-> "claimed", saw |-> "absent", verdict |-> "pending",
          bound |-> TRUE] \in HandlerState
  BY DEF Idle, HandlerState
<1>3. handler[m] \in HandlerState
  BY <1>1
<1>4. ASSUME NEW r \in J!Resolution
      PROVE  /\ Decide(m, r) \in HandlerState
             /\ \A b \in BOOLEAN : [Decide(m, r) EXCEPT !.bound = b] \in HandlerState
             /\ \A s \in J!AttemptState \cup {"absent"} :
                   [Decide(m, r) EXCEPT !.saw = s] \in HandlerState
  BY <1>3 DEF Decide, HandlerState
<1>5. ASSUME NEW pc \in {"read", "send", "await", "close", "rollback", "mark",
                         "marking"}
      PROVE  /\ [handler[m] EXCEPT !.pc = pc] \in HandlerState
             /\ \A s \in J!AttemptState \cup {"absent"} :
                   /\ [handler[m] EXCEPT !.pc = pc, !.saw = s] \in HandlerState
                   /\ \A b \in BOOLEAN :
                         [handler[m] EXCEPT !.pc = pc, !.saw = s, !.bound = b]
                             \in HandlerState
  BY <1>3 DEF HandlerState
<1>6. {"applied", "rejected", "indeterminate"} \subseteq J!Resolution
  BY DEF J!Resolution
<1>7. \E new \in HandlerState : Step(m, new)
  <2>1. CASE \/ \E c \in ClientKinds : Claim(a, k, c)
             \/ Abandon(a, k)
    BY <1>2, <2>1 DEF Claim, Abandon
  <2>2. CASE ReadAttempt(a, k)
    <3>1. (request[m] \in CommandKind) \in BOOLEAN
      OBVIOUS
    <3> QED
      BY <1>1, <1>5, <2>2, <3>1 DEF ReadAttempt
  <2>3. CASE MissingSession(a, k) \/ FencedAttempt(a, k) \/ CheckSupersede(a, k)
    BY <1>4, <1>5, <1>6, <2>3 DEF MissingSession, FencedAttempt, CheckSupersede
  <2>4. CASE Prepare(a, k)
    <3>1. /\ handler[m].saw \in J!AttemptState \cup {"absent"}
          /\ Prepared(request[m], handler[m].saw) \in J!AttemptState \cup {"absent"}
      BY <1>3 DEF HandlerState, Prepared, J!AttemptState
    <3> QED
      BY <1>4, <1>5, <1>6, <2>4, <3>1 DEF Prepare
  <2>5. CASE Send(a, k) \/ SendForceStop(a, k) \/ AwaitFinished(a, k) \/ Close(a, k)
    BY <1>1, <1>4, <1>5, <1>6, <2>5 DEF Send, SendForceStop, AwaitFinished, Close
  <2>6. CASE Resolve(a, k)
    <3>1. AfterResolve(m) \in {"mark", "rollback", "idle"}
      BY DEF AfterResolve
    <3> QED
      BY <1>2, <1>5, <2>6, <3>1 DEF Resolve, GoTo
  <2>7. CASE Rollback(a, k) \/ MarkRead(a, k) \/ Mark(a, k)
    BY <1>1, <1>2, <1>5, <2>7 DEF Rollback, MarkRead, Mark
  <2> QED
    BY <2>1, <2>2, <2>3, <2>4, <2>5, <2>6, <2>7 DEF Handling
<1>8. /\ delivered' = delivered \/ delivered' = [delivered EXCEPT ![m] = @ + 1]
      /\ process' = process \/ process' = [process EXCEPT ![a] = "ended"]
      /\ UNCHANGED <<phase, recovering, active, unfenced, put, watcher,
                     corrections, conversation, crashes>>
  BY DEF Claim, Handling, Abandon, ReadAttempt, MissingSession, FencedAttempt,
         Prepare, Send, SendForceStop, AwaitFinished, CheckSupersede, Close,
         Resolve, Rollback, MarkRead, Mark, HandlerOnly, outside
<1> QED
  BY <1>1, <1>7, <1>8 DEF Step

\* Every step keeps the types of the worker's memory and of the outside.
LEMMA TypesStay ==
    ASSUME IInv, [Next]_vars
    PROVE  TypeOK'
<1>1. TypeOK
  BY DEF IInv
<1>2. J!TypeOK'
  BY NextIsAStep, JournalEffects
<1>3. ASSUME NEW a \in Attempt, Watching(a)
      PROVE  TypeOK'
  BY <1>1, <1>2, <1>3, WatchingTypes DEF TypeOK
<1>4. ASSUME NEW a \in Attempt, NEW k \in Key,
             \/ \E c \in ClientKinds : Claim(a, k, c)
             \/ Handling(a, k)
             \/ Abandon(a, k)
      PROVE  TypeOK'
  BY <1>1, <1>2, <1>4, CallingTypes DEF TypeOK
<1>5. ASSUME NEW a \in Attempt,
             (\E l \in J!Launch : PutAttempt(a, l)) \/ Launching(a)
      PROVE  TypeOK'
  <2>1. NoID \in J!OptionalID /\ ProviderID \subseteq J!OptionalID
    BY DEF J!OptionalID
  <2>2. /\ \E p \in {"idle", "launching", "launched", "registering"} :
              put' = [put EXCEPT ![a] = p]
        /\ conversation' = conversation
              \/ \E c \in J!OptionalID : conversation' = [conversation EXCEPT ![a] = c]
        /\ process' = process
              \/ \E p \in {"alive", "ended"} : process' = [process EXCEPT ![a] = p]
        /\ UNCHANGED <<phase, recovering, unfenced, handler, delivered, crashes>>
    BY <1>5, <2>1
       DEF PutAttempt, Launching, FailLaunch, UncertainLaunch, LaunchProvider,
           StartRunning, Register, outside
  <2>3. /\ active' \subseteq active \cup {a}
        /\ watcher' = watcher
              \/ watcher' = [watcher EXCEPT ![a] = [pc |-> "loop", saw |-> "absent"]]
        /\ corrections' = corrections \/ corrections' = [corrections EXCEPT ![a] = 0]
    BY <1>5
       DEF PutAttempt, Launching, FailLaunch, UncertainLaunch, LaunchProvider,
           StartRunning, Register, Own
  <2>4. [pc |-> "loop", saw |-> "absent"] \in WatcherAt /\ 0 \in 0..MaxCorrections
    BY MaxCorrectionsAssumption DEF WatcherAt
  <2>5. /\ put' \in [Attempt -> {"idle", "launching", "launched", "registering"}]
        /\ conversation' \in [Attempt -> J!OptionalID]
        /\ process' \in [Attempt -> {"none", "alive", "ended"}]
    BY <1>1, <2>2 DEF TypeOK
  <2>6. /\ active' \subseteq Attempt
        /\ watcher' \in [Attempt -> WatcherAt]
        /\ corrections' \in [Attempt -> 0..MaxCorrections]
    BY <1>1, <2>3, <2>4 DEF TypeOK
  <2> QED
    BY <1>1, <1>2, <2>2, <2>5, <2>6 DEF TypeOK
<1>6. CASE Crash
  <2>1. Idle \in HandlerState /\ NoWatcher \in WatcherAt /\ 0 \in 0..MaxCorrections
    BY MaxCorrectionsAssumption
       DEF Idle, HandlerState, NoWatcher, WatcherAt
  <2>2. crashes' \in 0..MaxCrashes
    BY <1>1, <1>6, MaxCrashesAssumption DEF Crash, TypeOK
  <2>3. /\ handler' \in [Mutation -> HandlerState]
        /\ watcher' \in [Attempt -> WatcherAt]
        /\ corrections' \in [Attempt -> 0..MaxCorrections]
    BY <1>6, <2>1 DEF Crash
  <2>4. /\ put' \in [Attempt -> {"idle", "launching", "launched", "registering"}]
        /\ process' \in [Attempt -> {"none", "alive", "ended"}]
    BY <1>1, <1>6 DEF Crash, TypeOK
  <2> QED
    BY <1>1, <1>2, <1>6, <2>2, <2>3, <2>4 DEF Crash, TypeOK
<1>7. CASE Recover
  <2>1. recovering' \subseteq Attempt /\ phase' = "recovering"
    BY <1>7 DEF Recover, J!Resumable
  <2> QED
    BY <1>1, <1>2, <1>7, <2>1 DEF Recover, TypeOK, outside
<1>8. ASSUME NEW a \in Attempt, ResumeInterrupted(a)
      PROVE  TypeOK'
  <2>1. provider[a] \in J!OptionalID
    BY <1>1 DEF TypeOK, J!TypeOK, J!OptionalID
  <2>2. [pc |-> "loop", saw |-> "absent"] \in WatcherAt /\ 0 \in 0..MaxCorrections
    BY MaxCorrectionsAssumption DEF WatcherAt
  <2>3. /\ conversation' \in [Attempt -> J!OptionalID]
        /\ process' \in [Attempt -> {"none", "alive", "ended"}]
        /\ watcher' \in [Attempt -> WatcherAt]
        /\ corrections' \in [Attempt -> 0..MaxCorrections]
        /\ active' \subseteq Attempt /\ recovering' \subseteq Attempt
    BY <1>1, <1>8, <2>1, <2>2 DEF ResumeInterrupted, ResumedTheSame, Own, TypeOK
  <2> QED
    BY <1>1, <1>2, <1>8, <2>3 DEF ResumeInterrupted, TypeOK
<1>9. ASSUME NEW a \in Attempt, ProviderEnds(a) \/ ResumeFails(a)
      PROVE  TypeOK'
  BY <1>1, <1>2, <1>9 DEF ProviderEnds, ResumeFails, TypeOK, memory, outside
<1>10. CASE Serve \/ UNCHANGED vars
  BY <1>1, <1>2, <1>10 DEF Serve, TypeOK, vars, memory, outside
<1> QED
  BY <1>3, <1>4, <1>5, <1>6, <1>7, <1>8, <1>9, <1>10 DEF Next, Resuming

-----------------------------------------------------------------------------
(* The theorems.                                                           *)

LEMMA InitIInv == Init => IInv
<1> SUFFICES ASSUME Init PROVE IInv
  OBVIOUS
<1>1. Proved!IInv
  BY SameJournal, JournalAssumptions, Proved!InitIInv DEF Init
<1>2. TypeOK
  <2>1. J!TypeOK
    BY <1>1, SameJournal DEF Proved!IInv
  <2>2. Idle \in HandlerState /\ NoWatcher \in WatcherAt /\ 0 \in 0..MaxCorrections
        /\ NoID \in J!OptionalID /\ 0 \in 0..MaxCrashes
    BY MaxCorrectionsAssumption, MaxCrashesAssumption
       DEF Idle, HandlerState, NoWatcher, WatcherAt, J!OptionalID
  <2> QED
    BY <2>1, <2>2 DEF Init, TypeOK
<1>3. CallsAreKept
  BY DEF Init, J!Init, CallsAreKept, CallIsKept, Truthful, Idle, Mutation, J!Mutation
<1>4. Asleep /\ SessionsAreKept
  BY DEF Init, Asleep, SessionsAreKept, SessionIsKept
<1> QED
  BY <1>1, <1>2, <1>3, <1>4 DEF IInv

LEMMA NextIInv == IInv /\ [Next]_vars => IInv'
<1> SUFFICES ASSUME IInv, [Next]_vars PROVE IInv'
  OBVIOUS
<1>1. Proved!IInv'
  BY NextIsAStep, JournalEffects
<1> QED
  BY <1>1, TypesStay, CallsStayKept, AsleepStaysAsleep, SessionsStayKept DEF IInv

\* However calls, watchers, provider processes and restarts interleave, the
\* worker satisfies the inductive invariant.
THEOREM ServiceInvariant == Spec => []IInv
<1>1. Init => IInv
  BY InitIInv
<1>2. IInv /\ [Next]_vars => IInv'
  BY NextIInv
<1> QED
  BY <1>1, <1>2, PTL DEF Spec

\* A command reaches the provider at most once per idempotency key, and the
\* process the worker owns belongs to the conversation the journal names.
THEOREM ServiceAlwaysSound == Spec => []ServiceIsSound
<1>1. IInv => ServiceIsSound
  <2> SUFFICES ASSUME IInv PROVE ServiceIsSound
    OBVIOUS
  <2>1. AtMostOnceDelivery
    BY DEF IInv, CallsAreKept, CallIsKept, AtMostOnceDelivery, Mutation
  <2>2. OwnedConversation
    BY DEF IInv, TypeOK, SessionsAreKept, SessionIsKept, OwnedConversation
  <2> QED
    BY <2>1, <2>2 DEF IInv, ServiceIsSound
<1> QED
  BY <1>1, ServiceInvariant, PTL

\* An applied command was delivered, an applied force stop or supersede left the
\* attempt terminal, and nothing that was rejected reached the provider.
THEOREM AnswersStayHonest == Spec => []AnswersAreHonest
<1>1. IInv => AnswersAreHonest
  BY DEF IInv, CallsAreKept, CallIsKept, Truthful, AnswersAreHonest
<1> QED
  BY <1>1, ServiceInvariant, PTL

\* Every behaviour of the service is one of the journal: the service changes
\* its rows by nothing but the store's transactions.
THEOREM ServiceImplementsJournal == Spec => ImplementsJournal
<1>1. Init => J!Init
  BY DEF Init
<1>2. IInv /\ [Next]_vars => [J!Next]_J!vars
  BY NextIsAStep
<1> QED
  BY <1>1, <1>2, ServiceInvariant, PTL DEF Spec, ImplementsJournal, J!Spec

\* What holds of the journal under any calls holds under the service's: one
\* attempt per session that may still be active, histories without gaps, and
\* rows that can be read back.
THEOREM ServiceKeepsJournal ==
    Spec => [](/\ Proved!OneNonterminalPerSession
               /\ Proved!HistoryContiguous
               /\ Proved!RowsValid)
<1>1. IInv => /\ Proved!OneNonterminalPerSession
              /\ Proved!HistoryContiguous
              /\ Proved!RowsValid
  BY DEF IInv, Proved!IInv
<1> QED
  BY <1>1, ServiceInvariant, PTL

\* A requested stop is not taken back, because no transaction of the journal
\* leads from it to anything but an end.
THEOREM StopsStay == Spec => StopIsIrrevocable
<1>1. ASSUME IInv, [Next]_vars, NEW a \in Attempt, state[a] = "stop_requested"
      PROVE  state'[a] \in {"stop_requested"} \cup Settled
  <2>1. state \in [Attempt -> J!AttemptState \cup {"absent"}]
    BY <1>1 DEF IInv, TypeOK, J!TypeOK
  <2>2. ASSUME NEW b \in Attempt, NEW l \in J!Launch, J!CreateAttempt(b, l)
        PROVE  state'[a] = state[a]
    BY <1>1, <2>1, <2>2 DEF J!CreateAttempt, J!CreateAccepts
  <2>3. ASSUME NEW b \in Attempt, NEW to, NEW id, NEW o,
               J!TransitionAttempt(b, state[b], to, id, o)
        PROVE  state'[a] \in {"stop_requested"} \cup Settled
    BY <1>1, <2>1, <2>3
       DEF J!TransitionAttempt, J!TransitionAccepts, J!CanTransitionTo,
           J!Successors, Settled
  <2>4. CASE J!PrepareInterruptedRecovery
    BY <1>1, <2>4 DEF J!PrepareInterruptedRecovery, Settled
  <2>5. CASE UNCHANGED state
    BY <1>1, <2>5
  <2> QED
    BY <1>1, <2>2, <2>3, <2>4, <2>5, NextIsAStep
       DEF J!Next, J!vars, J!AppendEvent, J!ClaimMutation, J!ResolveMutation
<1>2. IInv /\ [Next]_vars =>
         [\A a \in Attempt : state[a] = "stop_requested" =>
              state'[a] \in {"stop_requested"} \cup Settled]_vars
  BY <1>1
<1> QED
  BY <1>2, ServiceInvariant, PTL DEF Spec, StopIsIrrevocable

\* Nothing but the terminal event enters the history of a fenced attempt.
THEOREM FencedStaysFenced == Spec => FencedHistory
<1>1. ASSUME IInv, [Next]_vars, NEW b \in Attempt, state[b] = "indeterminate",
             latest'[b] # latest[b]
      PROVE  event'[b][latest'[b]] = "attempt_terminal"
  <2>1. /\ latest \in [Attempt -> 0..MaxEvents]
        /\ event \in [Attempt -> J!History]
    BY <1>1 DEF IInv, TypeOK, J!TypeOK
  <2>2. PICK a \in Attempt, e \in EventType :
           /\ J!AppendEvent(a, latest[a] + 1, e)
           /\ state[a] \notin Settled \/ e = "attempt_terminal"
    <3>1. ASSUME NEW a \in Attempt, Watching(a)
          PROVE  \/ UNCHANGED latest
                 \/ \E e \in EventType :
                       /\ J!AppendEvent(a, latest[a] + 1, e)
                       /\ state[a] \notin Settled \/ e = "attempt_terminal"
      <4>1. EmittedEvents \cup {"activity", "redaction_failure",
                                "attempt_terminal"} \subseteq EventType
        BY InputsAssumption DEF EventType, ProviderEvent
      <4>2. CASE \/ \E e \in EmittedEvents : RecordEvent(a, e)
                 \/ RejectEvent(a) \/ Correct(a) \/ Finish(a)
        BY <4>1, <4>2
           DEF RecordEvent, RejectEvent, Correct, Finish, Settled, journal
      <4>3. CASE ~ (\/ \E e \in EmittedEvents : RecordEvent(a, e)
                    \/ RejectEvent(a) \/ Correct(a) \/ Finish(a))
        BY <3>1, <4>3
           DEF Watching, RefuseEvent, ApplyEvent, ApplyPaused, WatcherMarkRead,
               WatcherMark, MarkFrom, StopAfterFailure, ResumeCorrected,
               EventsClosed, Reread, Complete, Leave, journal,
               J!TransitionAttempt
      <4> QED
        BY <4>2, <4>3
    <3>2. ASSUME NEW a \in Attempt, NEW k \in Key,
                 \/ \E c \in ClientKinds : Claim(a, k, c)
                 \/ Handling(a, k)
                 \/ Abandon(a, k)
          PROVE  UNCHANGED latest
      BY <3>2
         DEF Claim, Handling, Abandon, ReadAttempt, MissingSession,
             FencedAttempt, Prepare, Send, SendForceStop, AwaitFinished,
             CheckSupersede, Close, Resolve, Rollback, MarkRead, Mark, MarkFrom,
             HandlerOnly, journal, J!ClaimMutation, J!ResolveMutation,
             J!TransitionAttempt
    <3>3. ASSUME NEW a \in Attempt,
                 \/ \E l \in J!Launch : PutAttempt(a, l)
                 \/ Launching(a) \/ ProviderEnds(a)
                 \/ ResumeInterrupted(a) \/ ResumeFails(a)
          PROVE  UNCHANGED latest
      BY <3>3
         DEF PutAttempt, Launching, FailLaunch, UncertainLaunch,
             LaunchProvider, StartRunning, Register, LaunchTransition,
             ProviderEnds, ResumeInterrupted, ResumeFails, journal,
             J!CreateAttempt, J!TransitionAttempt
    <3>4. CASE Crash \/ Recover \/ Serve \/ UNCHANGED vars
      BY <1>1, <3>4
         DEF Crash, Recover, Serve, vars, journal, J!PrepareInterruptedRecovery
    <3> QED
      BY <1>1, <3>1, <3>2, <3>3, <3>4 DEF Next, Resuming
  <2>3. b = a
    BY <1>1, <2>1, <2>2 DEF J!AppendEvent
  <2>4. e = "attempt_terminal"
    BY <1>1, <2>2, <2>3 DEF Settled
  <2>5. /\ latest'[b] = latest[b] + 1
        /\ event'[b] = J!Inserted(event[b], latest[b] + 1, e)
    BY <2>1, <2>2, <2>3 DEF J!AppendEvent
  <2> QED
    BY <2>4, <2>5 DEF J!Inserted
<1>2. IInv /\ [Next]_vars =>
         [\A a \in Attempt :
             state[a] = "indeterminate" /\ latest'[a] # latest[a] =>
                 event'[a][latest'[a]] = "attempt_terminal"]_vars
  BY <1>1
<1> QED
  BY <1>2, ServiceInvariant, PTL DEF Spec, FencedHistory
=============================================================================
