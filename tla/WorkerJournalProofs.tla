------------------------- MODULE WorkerJournalProofs -------------------------
(***************************************************************************)
(* Proofs about WorkerJournal for every set of attempts, keys, requests,   *)
(* provider sessions and events, and every assignment of attempts to       *)
(* sessions.                                                               *)
(***************************************************************************)
EXTENDS WorkerJournal, TLAPS

\* What a reference without a row has: nothing.  An insert and not a
\* transition is what gives it its first provider session and result.
NoRowNoData ==
    \A a \in Attempt : state[a] = "absent" =>
        /\ outcome[a] = "none"
        /\ provider[a] = NoID

\* The inductive invariant.  RowsValid is needed by the recovery UPDATE, which
\* relies on an unfinished row having no result; NoRowNoData by the insert.
IInv ==
    /\ TypeOK
    /\ NoRowNoData
    /\ RowsValid
    /\ OneNonterminalPerSession
    /\ HistoryContiguous

\* Inserting an event under a legal sequence gives a legal history.
LEMMA InsertedHistory ==
    ASSUME NEW h \in History, NEW n \in 1..MaxEvents, NEW e \in EventType
    PROVE  /\ Inserted(h, n, e) \in History
           /\ DOMAIN Inserted(h, n, e) = DOMAIN h \cup {n}
           /\ \A i \in DOMAIN h : i # n => Inserted(h, n, e)[i] = h[i]
<1>1. PICK D \in SUBSET (1..MaxEvents) : h \in [D -> EventType]
  BY DEF History
<1>2. DOMAIN h = D
  BY <1>1
<1>3. Inserted(h, n, e) \in [D \cup {n} -> EventType]
  BY <1>1, <1>2 DEF Inserted
<1>4. D \cup {n} \in SUBSET (1..MaxEvents)
  OBVIOUS
<1>5. Inserted(h, n, e) \in History
  BY <1>3, <1>4 DEF History
<1> QED
  BY <1>2, <1>5 DEF Inserted

\* The initial journal is empty, and an empty journal satisfies the invariant.
LEMMA InitIInv == Init => IInv
<1> SUFFICES ASSUME Init PROVE IInv
  OBVIOUS
<1>1. [n \in {} |-> n] \in [{} -> EventType]
  OBVIOUS
<1>2. [n \in {} |-> n] \in History
  BY <1>1 DEF History
<1>3. TypeOK
  BY <1>2, MaxEventsAssumption
     DEF Init, TypeOK, OptionalID, AttemptState, Resolution, Outcome, Mutation
<1>4. NoRowNoData /\ RowsValid /\ OneNonterminalPerSession
  BY DEF Init, NoRowNoData, RowsValid, OneNonterminalPerSession, MayStillBeActive
<1>5. HistoryContiguous
  <2>1. 1..0 = {}
    OBVIOUS
  <2>2. DOMAIN [n \in {} |-> n] = {}
    OBVIOUS
  <2> QED
    BY <2>1, <2>2 DEF Init, HistoryContiguous
<1> QED
  BY <1>3, <1>4, <1>5 DEF IInv

-----------------------------------------------------------------------------
(* One lemma per transaction.                                              *)

\* A new row joins no session with an attempt that may still be active.
LEMMA CreateIInv ==
    ASSUME IInv, NEW a \in Attempt, NEW l \in Launch, CreateAttempt(a, l)
    PROVE  IInv'
<1> USE DEF IInv
<1>1. l.mode \in {"start", "resume"} /\ l.provider \in OptionalID
  BY DEF Launch, OptionalID
<1>2. TypeOK'
  BY <1>1 DEF CreateAttempt, TypeOK, AttemptState
<1>3. NoRowNoData'
  BY DEF CreateAttempt, NoRowNoData, TypeOK
<1>4. RowsValid'
  <2> SUFFICES ASSUME NEW b \in Attempt, state'[b] # "absent"
               PROVE  ValidAttempt(state'[b], mode'[b], provider'[b], outcome'[b])
    BY DEF RowsValid
  <2>1. CASE b = a
    <3>1. /\ state'[b] = "starting"
          /\ mode'[b] = l.mode
          /\ provider'[b] = l.provider
          /\ outcome'[b] = "none"
      BY <2>1 DEF CreateAttempt, CreateAccepts, NoRowNoData, TypeOK
    <3>2. l.mode = "resume" => l.provider # NoID
      BY NoIDAssumption DEF Launch
    <3> QED
      BY <3>1, <3>2 DEF ValidAttempt, RequiresProviderSessionID
  <2>2. CASE b # a
    BY <2>2 DEF CreateAttempt, RowsValid, TypeOK
  <2> QED
    BY <2>1, <2>2
<1>5. OneNonterminalPerSession'
  BY DEF CreateAttempt, CreateAccepts, OneNonterminalPerSession,
         MayStillBeActive, TypeOK
<1>6. HistoryContiguous'
  BY DEF CreateAttempt, HistoryContiguous
<1> QED
  BY <1>2, <1>3, <1>4, <1>5, <1>6

\* Transitions start from a row that may still be active.
LEMMA TransitionFacts ==
    ASSUME NEW s \in AttemptState, NEW to \in AttemptState,
           CanTransitionTo(s, to)
    PROVE  s # "terminal" /\ s # "absent"
BY DEF CanTransitionTo, Successors, AttemptState

LEMMA TransitionIInv ==
    ASSUME IInv, NEW a \in Attempt, NEW to \in AttemptState,
           NEW id \in OptionalID, NEW o \in Outcome \cup {"none"},
           TransitionAttempt(a, state[a], to, id, o)
    PROVE  IInv'
<1> USE DEF IInv
<1>1. /\ MayStillBeActive(state[a])
      /\ ValidAttempt(to, mode[a], MergedID(a, id), o)
      /\ state' = [state EXCEPT ![a] = to]
      /\ provider' = [provider EXCEPT ![a] = MergedID(a, id)]
      /\ outcome' = [outcome EXCEPT ![a] = o]
      /\ UNCHANGED <<mode, latest, event, status, request>>
  BY TransitionFacts DEF TransitionAttempt, TransitionAccepts, MayStillBeActive
<1>2. MergedID(a, id) \in OptionalID
  BY DEF MergedID, TypeOK
<1>3. TypeOK'
  BY <1>1, <1>2 DEF TypeOK
<1>4. to # "absent"
  BY DEF AttemptState
<1>5. NoRowNoData'
  BY <1>1, <1>4 DEF NoRowNoData, TypeOK
<1>6. RowsValid'
  <2> SUFFICES ASSUME NEW b \in Attempt, state'[b] # "absent"
               PROVE  ValidAttempt(state'[b], mode'[b], provider'[b], outcome'[b])
    BY DEF RowsValid
  <2>1. CASE b = a
    BY <1>1, <2>1 DEF TypeOK
  <2>2. CASE b # a
    BY <1>1, <2>2 DEF RowsValid, TypeOK
  <2> QED
    BY <2>1, <2>2
<1>7. OneNonterminalPerSession'
  BY <1>1 DEF OneNonterminalPerSession, MayStillBeActive, TypeOK
<1>8. HistoryContiguous'
  BY <1>1 DEF HistoryContiguous
<1> QED
  BY <1>3, <1>5, <1>6, <1>7, <1>8

\* The recovery UPDATE bypasses Attempt.Validate; the rows it touches have no
\* result, because they were valid and unfinished.
LEMMA RecoveryIInv ==
    ASSUME IInv, PrepareInterruptedRecovery
    PROVE  IInv'
<1> USE DEF IInv
<1>1. \A a \in Attempt :
          \/ state'[a] = state[a]
          \/ /\ state'[a] = "indeterminate"
             /\ state[a] \notin {"absent", "terminal", "indeterminate"}
  BY DEF PrepareInterruptedRecovery
<1>2. UNCHANGED <<provider, mode, outcome, latest, event, request>>
  BY DEF PrepareInterruptedRecovery
<1>3. TypeOK'
  <2>1. state' \in [Attempt -> AttemptState \cup {"absent"}]
    BY DEF PrepareInterruptedRecovery, TypeOK, AttemptState
  <2>2. status' \in [Mutation -> Resolution \cup {"pending", "unclaimed"}]
    BY DEF PrepareInterruptedRecovery, TypeOK, Resolution
  <2> QED
    BY <1>2, <2>1, <2>2 DEF TypeOK
<1>4. NoRowNoData'
  BY <1>1, <1>2 DEF NoRowNoData
<1>5. RowsValid'
  BY <1>1, <1>2 DEF RowsValid, ValidAttempt, RequiresProviderSessionID
<1>6. OneNonterminalPerSession'
  BY <1>1 DEF OneNonterminalPerSession, MayStillBeActive
<1>7. HistoryContiguous'
  BY <1>2 DEF HistoryContiguous
<1> QED
  BY <1>3, <1>4, <1>5, <1>6, <1>7

\* Mutation rows are independent of the attempt rows.
LEMMA MutationIInv ==
    ASSUME IInv, NEW a \in Attempt, NEW k \in Key,
           \/ \E c \in Request : ClaimMutation(a, k, c)
           \/ \E r \in Resolution : ResolveMutation(a, k, r)
    PROVE  IInv'
<1> USE DEF IInv
<1>1. UNCHANGED <<state, provider, mode, outcome, latest, event>>
  BY DEF ClaimMutation, ResolveMutation
<1>2. <<a, k>> \in Mutation
  BY DEF Mutation
<1>3. TypeOK'
  BY <1>1, <1>2 DEF TypeOK, ClaimMutation, ResolveMutation
<1>4. NoRowNoData' /\ RowsValid' /\ OneNonterminalPerSession' /\ HistoryContiguous'
  BY <1>1 DEF NoRowNoData, RowsValid, OneNonterminalPerSession, HistoryContiguous
<1> QED
  BY <1>3, <1>4

\* An append extends 1..latest by its successor.
LEMMA AppendIInv ==
    ASSUME IInv, NEW a \in Attempt, NEW n \in 1..MaxEvents, NEW e \in EventType,
           AppendEvent(a, n, e)
    PROVE  IInv'
<1> USE DEF IInv
<1>1. UNCHANGED <<state, provider, mode, outcome, status, request>>
  BY DEF AppendEvent
<1>2. /\ Inserted(event[a], n, e) \in History
      /\ DOMAIN Inserted(event[a], n, e) = DOMAIN event[a] \cup {n}
  BY InsertedHistory DEF TypeOK
<1>3. TypeOK'
  BY <1>1, <1>2, MaxEventsAssumption DEF AppendEvent, TypeOK
<1>4. NoRowNoData' /\ RowsValid' /\ OneNonterminalPerSession'
  BY <1>1 DEF NoRowNoData, RowsValid, OneNonterminalPerSession
<1>5. HistoryContiguous'
  <2>1. (1..latest[a]) \cup {n} = 1..n
    BY MaxEventsAssumption DEF AppendEvent, AppendAccepts, TypeOK
  <2> QED
    BY <1>2, <2>1 DEF AppendEvent, HistoryContiguous, TypeOK
<1> QED
  BY <1>3, <1>4, <1>5

LEMMA NextIInv == IInv /\ [Next]_vars => IInv'
<1> SUFFICES ASSUME IInv, [Next]_vars PROVE IInv'
  OBVIOUS
<1>1. ASSUME NEW a \in Attempt, NEW l \in Launch, CreateAttempt(a, l)
      PROVE  IInv'
  BY <1>1, CreateIInv
<1>2. ASSUME NEW a \in Attempt, NEW to \in AttemptState, NEW id \in OptionalID,
             NEW o \in Outcome \cup {"none"},
             TransitionAttempt(a, state[a], to, id, o)
      PROVE  IInv'
  BY <1>2, TransitionIInv
<1>3. ASSUME NEW a \in Attempt, NEW n \in 1..MaxEvents, NEW e \in EventType,
             AppendEvent(a, n, e)
      PROVE  IInv'
  BY <1>3, AppendIInv
<1>4. ASSUME NEW a \in Attempt, NEW k \in Key,
             \/ \E c \in Request : ClaimMutation(a, k, c)
             \/ \E r \in Resolution : ResolveMutation(a, k, r)
      PROVE  IInv'
  BY <1>4, MutationIInv
<1>5. CASE PrepareInterruptedRecovery
  BY <1>5, RecoveryIInv
<1>6. CASE UNCHANGED vars
  BY <1>6 DEF vars, IInv, TypeOK, NoRowNoData, RowsValid,
              OneNonterminalPerSession, HistoryContiguous
<1> QED
  BY <1>1, <1>2, <1>3, <1>4, <1>5, <1>6 DEF Next

-----------------------------------------------------------------------------
(* The theorems.                                                           *)

\* Whatever sequence of transactions the store commits, the journal satisfies
\* the inductive invariant.
THEOREM JournalInvariant == Spec => []IInv
<1>1. Init => IInv
  BY InitIInv
<1>2. IInv /\ [Next]_vars => IInv'
  BY NextIInv
<1> QED
  BY <1>1, <1>2, PTL DEF Spec

\* The rows keep their types.
THEOREM JournalTypes == Spec => []TypeOK
<1>1. IInv => TypeOK
  BY DEF IInv
<1> QED
  BY <1>1, JournalInvariant, PTL

\* A coordinator session never has two attempts that may still be active,
\* however many attempts, sessions and restarts there are.
THEOREM OneAttemptAtATime == Spec => []OneNonterminalPerSession
<1>1. IInv => OneNonterminalPerSession
  BY DEF IInv
<1> QED
  BY <1>1, JournalInvariant, PTL

\* Event histories never have a gap, so OpenEventStream's completeness check
\* never fails.
THEOREM HistoriesHaveNoGap == Spec => []HistoryContiguous
<1>1. IInv => HistoryContiguous
  BY DEF IInv
<1> QED
  BY <1>1, JournalInvariant, PTL

\* Every stored attempt can be read back, recovery included.
THEOREM RowsStayValid == Spec => []RowsValid
<1>1. IInv => RowsValid
  BY DEF IInv
<1> QED
  BY <1>1, JournalInvariant, PTL

-----------------------------------------------------------------------------
(* What no step may do.                                                    *)

\* The cases of a journal step, as the proofs below need them: what it may
\* change of the attempt rows, of the histories and of the mutations.
LEMMA StepEffects ==
    ASSUME IInv, [Next]_vars
    PROVE  /\ \A a \in Attempt : state[a] = "terminal" =>
                   /\ state'[a] = "terminal"
                   /\ outcome'[a] = outcome[a]
                   /\ provider'[a] = provider[a]
           /\ \A a \in Attempt : provider[a] # NoID => provider'[a] = provider[a]
<1> USE DEF IInv
<1>1. ASSUME NEW b \in Attempt, NEW l \in Launch, CreateAttempt(b, l),
             NEW a \in Attempt
      PROVE  /\ state[a] = "terminal" => /\ state'[a] = "terminal"
                                         /\ outcome'[a] = outcome[a]
                                         /\ provider'[a] = provider[a]
             /\ provider[a] # NoID => provider'[a] = provider[a]
  BY <1>1 DEF CreateAttempt, CreateAccepts, TypeOK, NoRowNoData
<1>2. ASSUME NEW b \in Attempt, NEW to \in AttemptState, NEW id \in OptionalID,
             NEW o \in Outcome \cup {"none"},
             TransitionAttempt(b, state[b], to, id, o), NEW a \in Attempt
      PROVE  /\ state[a] = "terminal" => /\ state'[a] = "terminal"
                                         /\ outcome'[a] = outcome[a]
                                         /\ provider'[a] = provider[a]
             /\ provider[a] # NoID => provider'[a] = provider[a]
  <2>1. state[b] # "terminal"
    BY <1>2, TransitionFacts DEF TransitionAttempt, TransitionAccepts
  <2>2. provider[b] # NoID => MergedID(b, id) = provider[b]
    BY <1>2 DEF TransitionAttempt, TransitionAccepts, MergedID
  <2> QED
    BY <1>2, <2>1, <2>2 DEF TransitionAttempt, TypeOK
<1>3. CASE PrepareInterruptedRecovery
  BY <1>3 DEF PrepareInterruptedRecovery
<1>4. CASE UNCHANGED <<state, provider, outcome>>
  BY <1>4
<1>5. ASSUME NEW a \in Attempt,
             \/ \E n \in 1..MaxEvents, e \in EventType : AppendEvent(a, n, e)
             \/ \E k \in Key : \/ \E c \in Request : ClaimMutation(a, k, c)
                               \/ \E r \in Resolution : ResolveMutation(a, k, r)
      PROVE  UNCHANGED <<state, provider, outcome>>
  BY <1>5 DEF AppendEvent, ClaimMutation, ResolveMutation
<1> QED
  BY <1>1, <1>2, <1>3, <1>4, <1>5 DEF Next, vars

\* A step leaves every history alone, or appends a new event to one attempt that
\* is not terminal.
LEMMA HistoryEffects ==
    ASSUME IInv, [Next]_vars
    PROVE  \/ event' = event
           \/ \E a \in Attempt, n \in 1..MaxEvents, e \in EventType :
                 /\ n \notin DOMAIN event[a]
                 /\ state[a] # "terminal"
                 /\ event' = [event EXCEPT ![a] = Inserted(event[a], n, e)]
BY DEF Next, vars, CreateAttempt, TransitionAttempt, PrepareInterruptedRecovery,
       ClaimMutation, ResolveMutation, AppendEvent, AppendAccepts,
       MayStillBeActive

\* Stored events survive every step, in the terms of HistoryAppendOnly.
LEMMA StepKeepsEvents ==
    ASSUME IInv, [Next]_vars
    PROVE  KeepsEvents
<1> USE DEF IInv
<1> SUFFICES ASSUME NEW b \in Attempt, NEW i \in DOMAIN event[b]
             PROVE  i \in DOMAIN event'[b] /\ event'[b][i] = event[b][i]
  BY DEF KeepsEvents
<1>1. CASE event' = event
  BY <1>1
<1>2. ASSUME NEW a \in Attempt, NEW n \in 1..MaxEvents, NEW e \in EventType,
             n \notin DOMAIN event[a],
             event' = [event EXCEPT ![a] = Inserted(event[a], n, e)]
      PROVE  i \in DOMAIN event'[b] /\ event'[b][i] = event[b][i]
  <2>1. CASE b = a
    <3>1. event'[b] = Inserted(event[a], n, e)
      BY <1>2, <2>1 DEF TypeOK
    <3>2. event[a] \in History
      BY DEF TypeOK
    <3>3. i # n
      BY <1>2, <2>1
    <3>4. /\ DOMAIN Inserted(event[a], n, e) = DOMAIN event[a] \cup {n}
          /\ Inserted(event[a], n, e)[i] = event[a][i]
      BY <1>2, <2>1, <3>2, <3>3, InsertedHistory
    <3> QED
      BY <2>1, <3>1, <3>4
  <2>2. CASE b # a
    BY <1>2, <2>2 DEF TypeOK
  <2> QED
    BY <2>1, <2>2
<1> QED
  BY <1>1, <1>2, HistoryEffects

\* No transaction, whatever its order with the others, changes an attempt that
\* has ended.
THEOREM TerminalStaysFinal == Spec => TerminalIsFinal
<1>1. ASSUME IInv, [Next]_vars PROVE KeepsTerminal
  <2>1. \A a \in Attempt : state[a] = "terminal" => event'[a] = event[a]
    BY <1>1, HistoryEffects DEF IInv, TypeOK
  <2> QED
    BY <1>1, <2>1, StepEffects DEF KeepsTerminal
<1>2. IInv /\ [Next]_vars => [KeepsTerminal]_vars
  BY <1>1
<1> QED
  BY <1>2, JournalInvariant, PTL DEF Spec, TerminalIsFinal

\* No transaction points an attempt at another provider conversation.
THEOREM ConversationStaysNamed == Spec => ConversationIsStable
<1>1. IInv /\ [Next]_vars => [KeepsConversation]_vars
  BY StepEffects DEF KeepsConversation
<1> QED
  BY <1>1, JournalInvariant, PTL DEF Spec, ConversationIsStable

\* No transaction rewrites or removes a stored event.
THEOREM HistoryOnlyGrows == Spec => HistoryAppendOnly
<1>1. IInv /\ [Next]_vars => [KeepsEvents]_vars
  BY StepKeepsEvents
<1> QED
  BY <1>1, JournalInvariant, PTL DEF Spec, HistoryAppendOnly

\* No step changes the answer or the request of a mutation.
LEMMA StepKeepsAnswers ==
    ASSUME IInv, [Next]_vars
    PROVE  KeepsAnswers
<1>1. ASSUME NEW a \in Attempt, NEW k \in Key, NEW c \in Request,
             ClaimMutation(a, k, c)
      PROVE  KeepsAnswers
  BY <1>1 DEF IInv, TypeOK, ClaimMutation, ClaimAccepts, KeepsAnswers, Resolution
<1>2. ASSUME NEW a \in Attempt, NEW k \in Key, NEW r \in Resolution,
             ResolveMutation(a, k, r)
      PROVE  KeepsAnswers
  BY <1>2 DEF IInv, TypeOK, ResolveMutation, KeepsAnswers, Resolution
<1>3. CASE PrepareInterruptedRecovery
  BY <1>3 DEF PrepareInterruptedRecovery, KeepsAnswers, Resolution
<1>4. CASE UNCHANGED <<status, request>>
  BY <1>4 DEF KeepsAnswers
<1> QED
  BY <1>1, <1>2, <1>3, <1>4
     DEF Next, vars, CreateAttempt, TransitionAttempt, AppendEvent

\* A mutation's recorded answer and request never change, restarts included.
THEOREM AnswersStayFinal == Spec => ResolutionIsFinal
<1>1. IInv /\ [Next]_vars => [KeepsAnswers]_vars
  BY StepKeepsAnswers
<1> QED
  BY <1>1, JournalInvariant, PTL DEF Spec, ResolutionIsFinal
=============================================================================
