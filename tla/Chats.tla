---------------------------------- MODULE Chats ----------------------------------
(***************************************************************************)
(* The chats of a project with its assistant (package conversations).      *)
(* A chat is a file of its own; what the chats share is another file: here *)
(* the events the assistant has yet to hear, per chat. An operation locks  *)
(* one chat, reads both files, asks the worker about the turn under way,   *)
(* and then writes the chat's file, merges its changes into the shared     *)
(* file and hands turns to the worker, in separate steps: other chats work *)
(* in between, and the coordinator may stop between any two.               *)
(*                                                                         *)
(* Texts, titles, provider sessions, cards and notes are left out. A       *)
(* prompt is the set of messages and events it carries; deadlines are      *)
(* flags, and time passes whenever a deadline is looked at and met.        *)
(***************************************************************************)
EXTENDS Naturals, Sequences, FiniteSets, SequencesExt

CONSTANTS Chat,       \* the project's chats
          Message,    \* what the user sends; a message stands for its idempotency key too
          Event,      \* what the coordinator reports
          To,         \* the chat each of them is for
          Troubled,   \* the chats whose turns may end in anything but a reply
          Retries,    \* maxTurnRetries (2)
          Backoffs,   \* len(signInBackoff) (3)
          MaxLosses   \* bound: coordinator crashes and turns no worker was found for

ASSUME ChatsAssumption ==
    /\ Message \cap Event = {} /\ To \in [Message \cup Event -> Chat]
    /\ Retries \in Nat /\ Backoffs \in Nat /\ MaxLosses \in Nat

VARIABLES chat,       \* the chats' files
          pending,    \* the shared file: the events each chat's assistant has yet to hear
          op,         \* what the holder of each chat's lock is doing
          attempt,    \* the worker's attempt of the turn each chat's file says is under way
          marked,     \* the agent is recorded as needing a sign-in
          came,       \* history: what was accepted for each chat
          losses      \* how many losses there were
vars == <<chat, pending, op, attempt, marked, came, losses>>

Thing == Message \cup Event
Outcome == {"completed", "correctable", "transient", "final", "login", "limit"}

NoRetry == [count |-> 0, due |-> FALSE]
NoWait == [on |-> FALSE, retries |-> 0, due |-> FALSE, user |-> FALSE]
\* A chat's file. The transcript is kept as the user's messages in order and
\* what is settled: answered by a reply, or named by a line that says its turn
\* failed. The last turn's prompt is kept for as long as it may run again.
NewChat == [running |-> FALSE, messages |-> <<>>, queued |-> <<>>, last |-> {}, retry |-> NoRetry,
            failure |-> FALSE, signIn |-> NoWait, settled |-> {}]
\* Nobody holds the lock. Otherwise: the steps left, the record as the
\* holder changed it, the shared state it read and what it brings.
Unlocked == [todo |-> <<"unlocked">>, mine |-> NewChat, events |-> {}, base |-> [c \in Chat |-> {}],
             brings |-> {}, next |-> "get"]

TypeOK ==
    /\ \A c \in Chat :
        LET k == chat[c] IN
        /\ k.running \in BOOLEAN /\ k.failure \in BOOLEAN
        /\ k.messages \in Seq(Message) /\ k.queued \in Seq(Message)
        /\ k.last \cup k.settled \subseteq Thing
        /\ k.retry \in [count : 0..Retries, due : BOOLEAN]
        /\ k.signIn \in [on : BOOLEAN, retries : 0..Backoffs, due : BOOLEAN, user : BOOLEAN]
        /\ k.retry.due => k.running
    /\ pending \in [Chat -> SUBSET Event]
    /\ attempt \in [Chat -> {"absent", "live"} \cup Outcome]
    /\ marked \in BOOLEAN /\ losses \in 0..MaxLosses
    /\ came \in [Chat -> SUBSET Thing]

Init ==
    /\ chat = [c \in Chat |-> NewChat]
    /\ pending = [c \in Chat |-> {}]
    /\ op = [c \in Chat |-> Unlocked]
    /\ attempt = [c \in Chat |-> "absent"]
    /\ marked = FALSE
    /\ came = [c \in Chat |-> {}]
    /\ losses = 0

-----------------------------------------------------------------------------
(* Records and turns                                                        *)

Users(k) == ToSet(k.messages) \cup ToSet(k.queued)

\* A merge that writes back what the holder read.
MergeAsRead(current, base, c, events) == [base EXCEPT ![c] = events]

\* merge: the shared state keeps what other chats wrote since this one read it.
Merge(current, base, c, events) ==
    IF base[c] # events THEN [current EXCEPT ![c] = events] ELSE current

\* failTurn: another try while there are tries left, else a line the user sees.
FailTurn(k, kind) ==
    IF kind # "final" /\ k.retry.count < Retries
    THEN [k EXCEPT !.retry = [count |-> k.retry.count + 1, due |-> TRUE], !.running = TRUE]
    ELSE [k EXCEPT !.retry = NoRetry, !.failure = TRUE, !.settled = @ \cup k.last, !.running = FALSE]

\* waitForSignIn: tries again by itself, then waits for the user.
TriesAlone(k) == ~marked /\ ~k.signIn.user /\ k.signIn.retries < Backoffs
WaitForSignIn(k) ==
    [k EXCEPT !.running = FALSE,
              !.signIn = IF TriesAlone(k)
                         THEN [on |-> TRUE, retries |-> @.retries + 1, due |-> TRUE, user |-> FALSE]
                         ELSE [@ EXCEPT !.on = TRUE, !.due = FALSE, !.user = TRUE]]

\* startTurn: a turn on a new prompt.
StartTurn(k, prompt) ==
    [k EXCEPT !.running = TRUE, !.last = prompt, !.retry = NoRetry, !.failure = FALSE]

\* launchTurn: what is written and done from here on.
Write == <<"chat", "shared">>
LaunchTurn == <<"turn", "shared", "put">>

\* startWaitingTurn: the queued messages enter the transcript, the events go with them.
StartWaitingTurn(k, events) ==
    StartTurn([k EXCEPT !.messages = @ \o k.queued, !.queued = <<>>], ToSet(k.queued) \cup events)

\* refresh: what the worker's attempt makes of a running chat. A retry that
\* is due is launched; a worker that does not know the attempt changes nothing.
Completed(k) == [k EXCEPT !.running = FALSE, !.retry = NoRetry, !.signIn = NoWait, !.settled = @ \cup k.last, !.last = {}]
Limited(k) == [k EXCEPT !.running = FALSE, !.retry = NoRetry, !.settled = @ \cup k.last,
                        !.last = IF k.signIn.on THEN @ ELSE {}]
Refreshed(k, outcome) ==
    IF ~k.running \/ k.retry.due \/ outcome \in {"absent", "live"} THEN k
    ELSE CASE outcome = "completed" -> Completed(k)
           [] outcome = "limit"     -> Limited(k)
           [] outcome = "login"     -> WaitForSignIn(k)
           [] OTHER                 -> FailTurn(k, outcome)

-----------------------------------------------------------------------------
(* Operations: open a chat, refresh it and go on                            *)

Going(k, events, todo) == [mine |-> k, events |-> events, todo |-> todo]

\* send, once the chat is refreshed: queued behind a turn, else the next
\* turn. A turn that waits for a sign-in goes along.
Sent(k, events, m) ==
    IF k.running
    THEN Going([k EXCEPT !.queued = Append(@, m)], events, Write)
    ELSE LET kept == IF k.signIn.on THEN k.last ELSE {} IN
         Going(StartTurn([k EXCEPT !.messages = Append(@, m)], kept \cup {m} \cup events), {}, LaunchTurn)

\* A watcher that wakes a chat for events only.
WaitingForEvents(k, events) == ~k.running /\ events # {} /\ ~k.signIn.on

\* The rest of an operation on a refreshed chat: nothing (Get), a message,
\* a turn on what waits (wakeIfWaiting), an event for the assistant (tell,
\* Report), or the kept prompt again with the events that came meanwhile
\* (RetryTurn, retrySignIn).
Waiting(k, events) == ~k.running /\ (events # {} \/ k.queued # <<>>) /\ ~k.signIn.on
Rest(next, k, events, brings) ==
    CASE next = "send" -> Sent(k, events, CHOOSE m \in brings : TRUE)
      [] next = "wake" /\ Waiting(k, events) -> Going(StartWaitingTurn(k, events), {}, LaunchTurn)
      [] next = "tell" -> Going(k, events \cup brings, Write)
      [] next = "again" -> Going(StartTurn(k, k.last \cup events), {}, LaunchTurn)
      [] next = "retry" -> Going(k, events, <<"retry">>)
      [] OTHER -> Going(k, events, <<>>)

\* open takes the lock and reads both files; refresh writes what the turn's
\* end changes before the operation goes on.
Open(c, next, brings) ==
    LET k == Refreshed(chat[c], attempt[c])
        ended == chat[c].running /\ ~chat[c].retry.due
        go == IF k = chat[c] THEN Rest(next, k, pending[c], brings)
              ELSE Going(k, pending[c], Write \o (IF attempt[c] = "correctable" /\ k.retry.due THEN <<"retry">> ELSE <<>>)) IN
    /\ op[c] = Unlocked
    /\ op' = [op EXCEPT ![c] = [mine |-> go.mine, events |-> go.events, todo |-> go.todo, base |-> pending,
                                brings |-> brings, next |-> IF k = chat[c] THEN "get" ELSE next]]
    /\ marked' = CASE ended /\ attempt[c] = "completed" -> FALSE
                   [] ended /\ attempt[c] = "login" /\ ~TriesAlone(chat[c]) -> TRUE
                   [] OTHER -> marked
    /\ UNCHANGED <<chat, pending, attempt, came, losses>>

\* A client that sends again is not recognised.
SendUnkeyed(c, m) == To[m] = c /\ Open(c, "send", {m})

\* SendAttached: a message seen before changes nothing.
Send(c, m) == To[m] = c /\ m \notin Users(chat[c]) /\ Open(c, "send", {m})

Get(c) == Refreshed(chat[c], attempt[c]) # chat[c] /\ Open(c, "get", {})

\* The watcher's wakeIfWaiting.
WakeIfWaiting(c) ==
    /\ Refreshed(chat[c], attempt[c]) # chat[c] \/ Waiting(chat[c], pending[c])
    /\ Open(c, "wake", {})

\* retryDue, from a refresh that finds the deadline past.
RetryDue(c) == chat[c].retry.due /\ Open(c, "retry", {})

\* tell and Report.
Tell(c, e) == To[e] = c /\ e \notin came[c] /\ Open(c, "tell", {e})

\* RetryTurn: the user runs a failed turn again.
RetryTurn(c) == ~chat[c].running /\ chat[c].failure /\ Open(c, "again", {})

\* retrySignIn: a deadline past (RetryDueSignIns), the coordinator's own try
\* of a turn that waits for the user (TrySignIn), or an agent that signed in
\* or answered again (AgentSignedIn).
RetrySignIn(c) ==
    /\ ~chat[c].running /\ chat[c].signIn.on
    /\ chat[c].signIn.due \/ chat[c].signIn.user \/ ~marked
    /\ Open(c, "again", {})

-----------------------------------------------------------------------------
(* The holder's steps                                                       *)

Step(c, name) == op[c] # Unlocked /\ op[c].todo # <<>> /\ Head(op[c].todo) = name

\* The holder goes on, or returns and unlocks the chat: what it brought was accepted.
Held(c, held) ==
    LET over == held.todo = <<>> /\ held.next = "get" IN
    /\ op' = [op EXCEPT ![c] = IF over THEN Unlocked ELSE held]
    /\ came' = [came EXCEPT ![c] = IF over THEN @ \cup held.brings ELSE @]
Onward(c, mine, todo) == Held(c, [op[c] EXCEPT !.mine = mine, !.todo = todo \o Tail(@)])

\* The refreshed chat is written; the operation goes on.
GoOn(c) ==
    LET go == Rest(op[c].next, op[c].mine, op[c].events, op[c].brings) IN
    /\ op[c].todo = <<>>
    /\ Held(c, [op[c] EXCEPT !.mine = go.mine, !.events = go.events, !.todo = go.todo, !.next = "get"])
    /\ UNCHANGED <<chat, pending, attempt, marked, losses>>

\* retryDue: the same prompt, unless the assistant is not set up any more.
RetryStep(c) ==
    /\ Step(c, "retry")
    /\ \/ Onward(c, [op[c].mine EXCEPT !.retry.due = FALSE], LaunchTurn)
       \/ Onward(c, FailTurn(op[c].mine, "final"), Write)
    /\ UNCHANGED <<chat, pending, attempt, marked, losses>>

\* write: the chat's file, then the shared one. A turn's end, and a new turn's
\* attempt, leave the old one behind.
WriteChat(c) ==
    /\ Step(c, "chat") \/ Step(c, "turn")
    /\ chat' = [chat EXCEPT ![c] = op[c].mine]
    /\ LET over == Step(c, "turn") \/ ~op[c].mine.running \/ op[c].mine.retry.due IN
       attempt' = IF over THEN [attempt EXCEPT ![c] = "absent"] ELSE attempt
    /\ Onward(c, op[c].mine, <<>>)
    /\ UNCHANGED <<pending, marked, losses>>

WriteShared(c) ==
    /\ Step(c, "shared")
    /\ pending' = Merge(pending, op[c].base, c, op[c].events)
    /\ Onward(c, op[c].mine, <<>>)
    /\ UNCHANGED <<chat, attempt, marked, losses>>

\* PutAttempt: accepted, with or without an answer, or the worker is out of
\* reach. The write that follows an answer adds the provider's session only;
\* a turn whose answer is lost is never asked about again.
PutAccepted(c) ==
    /\ Step(c, "put")
    /\ attempt' = [attempt EXCEPT ![c] = "live"]
    /\ Onward(c, op[c].mine, <<>>)
    /\ UNCHANGED <<chat, pending, marked, losses>>
PutFails(c) ==
    /\ Step(c, "put") /\ c \in Troubled
    /\ Onward(c, FailTurn(op[c].mine, "transient"), Write)
    /\ UNCHANGED <<chat, pending, attempt, marked, losses>>
\* Workers() knows no worker for the agent: the turn stays as it was written.
NoWorker(c) ==
    /\ Step(c, "put") /\ losses < MaxLosses
    /\ losses' = losses + 1
    /\ op' = [op EXCEPT ![c] = Unlocked]
    /\ UNCHANGED <<chat, pending, attempt, marked, came>>

-----------------------------------------------------------------------------
(* The worker, the user and the coordinator's process                       *)

EndTurn(c, outcome) ==
    /\ attempt[c] = "live" /\ (c \in Troubled \/ outcome = "completed")
    /\ attempt' = [attempt EXCEPT ![c] = outcome]
    /\ UNCHANGED <<chat, pending, op, marked, came, losses>>

\* The user signs the agent in: the record is cleared.
SignAgentIn ==
    /\ marked
    /\ marked' = FALSE
    /\ UNCHANGED <<chat, pending, op, attempt, came, losses>>

Crash ==
    /\ losses < MaxLosses
    /\ \E c \in Chat : op[c] # Unlocked
    /\ losses' = losses + 1
    /\ op' = [c \in Chat |-> Unlocked]
    /\ UNCHANGED <<chat, pending, attempt, marked, came>>

Holder(c) ==
    \/ GoOn(c) \/ RetryStep(c) \/ WriteChat(c) \/ WriteShared(c)
    \/ PutAccepted(c) \/ PutFails(c)
Next ==
    \/ \E c \in Chat :
        \/ \E m \in Message : Send(c, m)
        \/ \E e \in Event : Tell(c, e)
        \/ Get(c) \/ WakeIfWaiting(c) \/ RetryDue(c) \/ RetryTurn(c) \/ RetrySignIn(c)
        \/ Holder(c) \/ NoWorker(c)
        \/ \E o \in Outcome : EndTurn(c, o)
    \/ SignAgentIn \/ Crash

Spec == Init /\ [][Next]_vars
\* Operations run to their end, turns end (the worker bounds them), and the
\* watcher looks at every chat every 20 seconds, or at once when it is nudged:
\* a user who retries a failed turn is not always faster.
FairSpec ==
    /\ Spec
    /\ \A c \in Chat :
        /\ WF_vars(Holder(c))
        /\ WF_vars(\E o \in Outcome : EndTurn(c, o))
        /\ WF_vars(WakeIfWaiting(c)) /\ WF_vars(RetryDue(c))
    /\ \A c \in Troubled : SF_vars(~chat[c].running /\ WakeIfWaiting(c))

-----------------------------------------------------------------------------
(* Properties                                                               *)

\* A message the user sent enters the chat once: it is in the transcript or
\* waits in line, never both, never twice, however it was sent, queued,
\* retried or interrupted by a crash (send, startWaitingTurn, write).
MessagesEnterOnce ==
    \A c \in Chat :
        /\ IsInjective(chat[c].messages \o chat[c].queued)
        /\ came[c] \cap Message \subseteq Users(chat[c])

\* What a chat shows is sound at every moment.
ChatsAreSound == TypeOK /\ MessagesEnterOnce

\* Nothing that reached a chat is dropped: a message or an event waits in
\* line or in the shared file, is in the prompt of the turn under way or kept
\* for a sign-in, was answered, or the user saw a line that its turn failed
\* (launchTurn's order of writes, merge, failTurn, waitForSignIn).
NothingIsDropped ==
    \A c \in Chat :
        came[c] \subseteq pending[c] \cup ToSet(chat[c].queued) \cup chat[c].settled
                          \cup (IF chat[c].running \/ chat[c].signIn.on THEN chat[c].last ELSE {})

\* A turn that was recorded and never handed to the worker: the coordinator
\* stopped, or found no worker, in between.
NeverStarted(c) == chat[c].running /\ ~chat[c].retry.due /\ attempt[c] = "absent" /\ op[c] = Unlocked

\* A message that was queued is sent, unless its chat waits for a sign-in or
\* its turn was never started (wakeIfWaiting, startWaitingTurn).
QueuedIsSent ==
    \A c \in Troubled : chat[c].queued # <<>> ~> (chat[c].queued = <<>> \/ chat[c].signIn.on \/ NeverStarted(c))

=============================================================================
